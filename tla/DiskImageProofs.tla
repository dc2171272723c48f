--------------------------- MODULE DiskImageProofs ---------------------------
(***************************************************************************)
(* Theorems about DiskImage, for every size of blocks and of the image,    *)
(* every shape of an inode, and any files and owners.                      *)
(***************************************************************************)
EXTENDS DiskImage, TLAPS

-----------------------------------------------------------------------------
(* The inductive invariant *)

Disk == Loaded(image)

\* The inode being filled in.
Current == InodeAt(rawdata, job.pos)

\* The blocks that other inodes on the image reach, and those that the file
\* being placed may be made of.
Others == {q \in InodePos \ {job.pos} : InodeAt(Disk, q).nlink # 0}
Reached == UNION {Marks(Disk, InodeAt(Disk, q)) : q \in Others}
Own == bitmap \ (InodeBlocks \cup Reached)

RunInv ==
  /\ pc # "astray"
  /\ \A b \in Block : Disk[b].kind = "inodes" <=> b < iblocks
  /\ pc # "idle" => job.command # "none" /\ written <= Len(image) /\ extracted = {}
  /\ pc = "place" => written = 0
  /\ pc = "write" => \A b \in 0 .. written - 1 : Disk[b] = rawdata[b]

\* A run writes to no block that another inode reaches, and to no other inode.
SeparateInv ==
  pc # "idle" =>
    /\ Reached \ {Wild} \subseteq bitmap
    /\ \A b \in Block \ InodeBlocks : rawdata[b] # Disk[b] => b \notin Reached
    /\ \A q \in InodePos \ {job.pos} : InodeAt(rawdata, q) = InodeAt(Disk, q)
    /\ \A i \in DOMAIN open : open[i].block \in Own

\* Data blocks below the inode's pointers before p.
Base(p) == IF p <= N_DBLOCKS THEN p
           ELSE IF p <= N_DBLOCKS + N_IBLOCKS
             THEN N_DBLOCKS + (p - N_DBLOCKS) * Pointers
           ELSE IF p = N_DBLOCKS + N_IBLOCKS + 1
             THEN N_DBLOCKS + N_IBLOCKS * Pointers + PointersSquared
           ELSE Capacity

\* Data blocks the loops have passed when the inode's pointers before p are in
\* use and the blocks of stack are being filled below the last of them.
StandsAt(p, stack) ==
  LET n == Len(stack)
      depth == Depth(p - 1)
      base == Base(p - 1)
  IN  CASE n = 0 -> Base(p)
        [] n = 1 /\ depth = 1 -> base + stack[1].next
        [] n = 1 /\ depth = 2 -> base + stack[1].next * Pointers
        [] n = 1 /\ depth = 3 -> base + stack[1].next * PointersSquared
        [] n = 2 /\ depth = 2 -> base + (stack[1].next - 1) * Pointers + stack[2].next
        [] n = 2 /\ depth = 3 -> base + (stack[1].next - 1) * PointersSquared
                                      + stack[2].next * Pointers
        [] OTHER -> base + (stack[1].next - 1) * PointersSquared
                         + (stack[2].next - 1) * Pointers + stack[3].next
Position == StandsAt(pointer, open)

\* Data blocks allocated: the last one may have got nothing.
Allocated == nbytes \div BLOCK_SZ + (IF eof THEN 1 ELSE 0)

\* Where the loops stand agrees with what was read.
LoopInv ==
  pc # "idle" =>
    /\ open # <<>> => pointer >= 1 /\ Len(open) <= Depth(pointer - 1)
    /\ nbytes <= FileSize[job.file]
    /\ ~eof => /\ nbytes % BLOCK_SZ = 0
               /\ Position = nbytes \div BLOCK_SZ
    /\ eof => nbytes = FileSize[job.file] /\ Allocated <= Capacity
    /\ Current.nlink = 1 /\ Current.owner = job.owner
    /\ pc = "write" => Current.size = nbytes /\ nbytes = Stored(job.file)

\* The open blocks lead to one another.
ChainInv ==
  pc # "idle" =>
    /\ open # <<>> => open[1].block = Current.ptr[pointer - 1]
    /\ \A k \in DOMAIN open : open[k].next >= 1 =>
         rawdata[open[k].block].kind = "pointers"
    /\ \A k \in 1 .. Len(open) - 1 :
         /\ open[k].next >= 1
         /\ rawdata[open[k].block].ptr[open[k].next - 1] = open[k + 1].block
    /\ \A i, j \in DOMAIN open : open[i].block = open[j].block => i = j

\* The m-th data block and the pointer blocks above it are the run's own; the
\* loops are past them, and what was read is in place.
Reachable(m) ==
  LET path == Path(m)
      node == Nodes(rawdata, Current, path)
      n == Len(path)
  IN  /\ path[1] < pointer
      /\ \A i \in 1 .. n : /\ node[i] \in Own
                           /\ \A k \in DOMAIN open : node[i] = open[k].block =>
                                i = k /\ i < n /\ path[i + 1] < open[k].next
      /\ m * BLOCK_SZ < FileSize[job.file] =>
           rawdata[node[n]] = DataBlock(job.file, m)
PlacedInv ==
  pc # "idle" => \A m \in 0 .. Capacity - 1 : m < Allocated => Reachable(m)

\* What a completed file is made of.
FileInv ==
  \A pos \in Placed :
    LET ip == InodeAt(Disk, pos)
        f == placed[pos][1]
    IN  /\ ip.nlink = 1 /\ ip.owner = placed[pos][2] /\ ip.size = Stored(f)
        /\ \A m \in Visited(ip) :
             LET node == Nodes(Disk, ip, Path(m))
                 n == Len(Path(m))
             IN  /\ \A i \in 1 .. n : node[i] \in Block \ InodeBlocks
                 /\ Disk[node[n]] = DataBlock(f, m)

BlocksApart ==
  LET Of(pos) == Marks(Disk, InodeAt(Disk, pos))
  IN  \A p \in Placed : /\ Of(p) \cap InodeBlocks = {}
                        /\ \A q \in Placed \ {p} : Of(p) \cap Of(q) = {}

KeptInv ==
  /\ FileInv
  /\ BlocksApart
  /\ pc # "idle" => placed[job.pos] = NoFile
  /\ Placed # {} => Len(image) = nblocks

\* Of a run that has gone astray only the types are known.
ImageInv == /\ TypeOK /\ RunInv /\ SeparateInv /\ LoopInv /\ ChainInv
            /\ PlacedInv /\ KeptInv /\ ExtractReturnsFiles

-----------------------------------------------------------------------------
(* Numbers *)

LEMMA Constants ==
  /\ BLOCK_SZ \in Nat /\ BLOCK_SZ > 0 /\ Pointers \in Nat /\ Pointers > 0
  /\ PointersSquared \in Nat /\ PointersSquared > 0 /\ Capacity \in Nat
  /\ N_DBLOCKS \in Nat /\ N_IBLOCKS \in Nat
  /\ iblocks \in Nat /\ nblocks \in Nat /\ 0 < iblocks /\ iblocks < nblocks
  /\ InodeBlocks \subseteq Block /\ 0 \in InodeBlocks /\ 0 \in Block
  /\ Wild \notin Block
<1>1. PointersSquared \in Nat /\ PointersSquared > 0
  BY ImageAssumption DEF PointersSquared
<1>2. /\ N_IBLOCKS * Pointers \in Nat
      /\ Pointers * PointersSquared \in Nat
  BY <1>1, ImageAssumption
<1>3. Capacity \in Nat
  BY <1>1, <1>2, ImageAssumption DEF Capacity
<1> QED
  BY <1>1, <1>3, ImageAssumption DEF InodeBlocks, Block, Wild

LEMMA Product ==
  ASSUME NEW a \in Int, NEW b \in Int, NEW n \in Nat, a <= b
  PROVE  n * a <= n * b /\ n * a \in Int /\ n * b \in Int
OBVIOUS

\* Division by n is the only way to write a number as a multiple and a rest.
LEMMA DivisionUnique ==
  ASSUME NEW n \in Nat, n > 0, NEW a \in Int, NEW c \in 0 .. n - 1
  PROVE  (n * a + c) \div n = a /\ (n * a + c) % n = c
<1> DEFINE x == n * a + c
<1>1. x \in Int /\ x = n * a + c
  OBVIOUS
<1> HIDE DEF x
<1>2. x \div n = a
  BY <1>1
<1>3. x % n = c
  BY <1>1
<1> QED
  BY <1>2, <1>3 DEF x

LEMMA Division ==
  ASSUME NEW x \in Int, NEW n \in Nat, n > 0
  PROVE  /\ x \div n \in Int
         /\ x % n \in 0 .. n - 1
         /\ x = n * (x \div n) + (x % n)
OBVIOUS

\* A number below n * k gives a quotient below k.
LEMMA DivisionBound ==
  ASSUME NEW n \in Nat, n > 0, NEW k \in Nat, NEW x \in Nat, x < n * k
  PROVE  x \div n \in 0 .. k - 1
<1> DEFINE q == x \div n
           r == x % n
<1>1. q \in Int /\ r \in 0 .. n - 1 /\ x = n * q + r
  BY Division
<1> HIDE DEF q, r
<1>2. ~(k <= q)
  <2>1. SUFFICES ASSUME k <= q PROVE FALSE
    OBVIOUS
  <2>2. n * k <= n * q
    BY <1>1, <2>1, Product
  <2> QED
    BY <1>1, <2>2
<1>3. ~(q + 1 <= 0)
  <2>1. SUFFICES ASSUME q + 1 <= 0 PROVE FALSE
    OBVIOUS
  <2>2. n * (q + 1) <= n * 0
    BY <1>1, <2>1, Product
  <2> QED
    BY <1>1, <2>2
<1> QED
  BY <1>1, <1>2, <1>3 DEF q

-----------------------------------------------------------------------------
(* Paths *)

\* Where the double and the triple indirect part of a file begin.
DoubleStart == N_DBLOCKS + N_IBLOCKS * Pointers
TripleStart == DoubleStart + PointersSquared

LEMMA Starts ==
  /\ DoubleStart \in Nat /\ TripleStart \in Nat /\ N_IBLOCKS * Pointers \in Nat
  /\ N_DBLOCKS <= DoubleStart /\ DoubleStart < TripleStart
  /\ Capacity = TripleStart + Pointers * PointersSquared
  /\ Pointers * PointersSquared \in Nat
<1>1. N_IBLOCKS * Pointers \in Nat /\ Pointers * PointersSquared \in Nat
  BY Constants
<1> QED
  BY <1>1, Constants DEF DoubleStart, TripleStart, Capacity

\* The path of a block is known from how its number is made up.
LEMMA DirectPath ==
  ASSUME NEW m \in 0 .. N_DBLOCKS - 1
  PROVE  Path(m) = <<m>>
BY Constants DEF Path

LEMMA SinglePath ==
  ASSUME NEW a \in 0 .. N_IBLOCKS - 1, NEW c \in 0 .. Pointers - 1
  PROVE  LET m == N_DBLOCKS + a * Pointers + c
         IN  m \in 0 .. DoubleStart - 1 /\ Path(m) = <<N_DBLOCKS + a, c>>
<1> DEFINE x == Pointers * a + c
           m == N_DBLOCKS + a * Pointers + c
<1>1. a \in Int /\ c \in Int /\ Pointers * a \in Int /\ 0 <= Pointers * a
      /\ a * Pointers = Pointers * a
  BY Constants
<1>2. Pointers * (a + 1) <= Pointers * N_IBLOCKS
  BY Constants, Product
<1>3. x < N_IBLOCKS * Pointers
  BY <1>1, <1>2, Constants
<1>4. x \div Pointers = a /\ x % Pointers = c
  BY DivisionUnique, Constants
<1>5. m = N_DBLOCKS + x /\ x \in Nat /\ m - N_DBLOCKS = x
  BY <1>1, Constants
<1> HIDE DEF x, m
<1>6. Path(m) = <<N_DBLOCKS + x \div Pointers, x % Pointers>>
  BY <1>3, <1>5, Constants, Starts DEF Path
<1>7. m \in 0 .. DoubleStart - 1
  BY <1>3, <1>5, Constants, Starts DEF DoubleStart
<1> QED
  BY <1>4, <1>6, <1>7 DEF m

LEMMA DoublePath ==
  ASSUME NEW a \in 0 .. Pointers - 1, NEW c \in 0 .. Pointers - 1
  PROVE  LET m == DoubleStart + a * Pointers + c
         IN  /\ m \in DoubleStart .. TripleStart - 1
             /\ Path(m) = <<N_DBLOCKS + N_IBLOCKS, a, c>>
<1> DEFINE x == Pointers * a + c
           m == DoubleStart + a * Pointers + c
<1>1. a \in Int /\ c \in Int /\ Pointers * a \in Int /\ 0 <= Pointers * a
      /\ a * Pointers = Pointers * a
  BY Constants
<1>2. Pointers * (a + 1) <= Pointers * Pointers
  BY Constants, Product
<1>3. x < PointersSquared
  BY <1>1, <1>2, Constants DEF PointersSquared
<1>4. x \div Pointers = a /\ x % Pointers = c
  BY DivisionUnique, Constants
<1>5. m = DoubleStart + x /\ x \in Nat
  BY <1>1, Constants, Starts
<1> HIDE DEF x, m
<1>6. /\ ~(m - N_DBLOCKS < 0)
      /\ m - N_DBLOCKS - N_IBLOCKS * Pointers = x
      /\ ~(x < 0) /\ x - PointersSquared < 0
  BY <1>3, <1>5, Constants, Starts DEF DoubleStart
<1>7. Path(m) = <<N_DBLOCKS + N_IBLOCKS, x \div Pointers, x % Pointers>>
  BY <1>6 DEF Path
<1>8. m \in DoubleStart .. TripleStart - 1
  BY <1>3, <1>5, Constants, Starts DEF TripleStart
<1> QED
  BY <1>4, <1>7, <1>8 DEF m

LEMMA TriplePath ==
  ASSUME NEW a \in 0 .. Pointers - 1, NEW b \in 0 .. Pointers - 1,
         NEW c \in 0 .. Pointers - 1
  PROVE  LET m == TripleStart + a * PointersSquared + b * Pointers + c
         IN  /\ m \in TripleStart .. Capacity - 1
             /\ Path(m) = <<N_DBLOCKS + N_IBLOCKS + 1, a, b, c>>
<1> DEFINE y == Pointers * b + c
           z == Pointers * a + b
           x == PointersSquared * a + y
           m == TripleStart + a * PointersSquared + b * Pointers + c
<1>1. /\ a \in Int /\ b \in Int /\ c \in Int
      /\ Pointers * b \in Int /\ 0 <= Pointers * b /\ b * Pointers = Pointers * b
      /\ Pointers * a \in Int
      /\ PointersSquared * a \in Int /\ 0 <= PointersSquared * a
      /\ a * PointersSquared = PointersSquared * a
  BY Constants
<1>2. Pointers * (b + 1) <= Pointers * Pointers
  BY Constants, Product
<1>3. y \in 0 .. PointersSquared - 1
  BY <1>1, <1>2, Constants DEF PointersSquared
<1>4. PointersSquared * (a + 1) <= PointersSquared * Pointers
  BY Constants, Product
<1>5. x < Pointers * PointersSquared /\ x \in Nat
  <2>1. PointersSquared * (a + 1) = PointersSquared * a + PointersSquared
    BY <1>1, Constants
  <2>2. PointersSquared * Pointers = Pointers * PointersSquared
    BY Constants
  <2> HIDE DEF y
  <2> QED
    BY <1>1, <1>3, <1>4, <2>1, <2>2, Constants, Starts
<1>6. x \div PointersSquared = a
  <2> HIDE DEF y
  <2> QED
    BY <1>3, DivisionUnique, Constants
<1>7. x = Pointers * z + c
  BY <1>1, Constants DEF PointersSquared
<1>8. z \in Int
  BY <1>1
<1>9. x \div Pointers = z /\ x % Pointers = c
  <2> HIDE DEF x, z
  <2> QED
    BY <1>7, <1>8, DivisionUnique, Constants
<1>10. z % Pointers = b
  BY DivisionUnique, Constants
<1>11. m = TripleStart + x
  BY <1>1, Constants, Starts
<1> HIDE DEF x, m, y, z
<1>12. /\ ~(m - N_DBLOCKS < 0)
       /\ m - N_DBLOCKS - N_IBLOCKS * Pointers = PointersSquared + x
       /\ ~(PointersSquared + x < 0)
       /\ PointersSquared + x - PointersSquared = x
       /\ ~(x < 0)
  BY <1>5, <1>11, Constants, Starts DEF DoubleStart, TripleStart
<1>13. Path(m) = <<N_DBLOCKS + N_IBLOCKS + 1, x \div PointersSquared,
                   (x \div Pointers) % Pointers, x % Pointers>>
  BY <1>12, <1>5, <1>11, Constants, Starts DEF Path
<1>14. m \in TripleStart .. Capacity - 1
  BY <1>5, <1>11, Constants, Starts
<1> QED
  BY <1>6, <1>9, <1>10, <1>13, <1>14 DEF m

\* What a path looks like.
LEMMA PathType ==
  ASSUME NEW m \in 0 .. Capacity - 1
  PROVE  /\ Len(Path(m)) \in 1 .. 4 /\ DOMAIN Path(m) = 1 .. Len(Path(m))
         /\ Path(m)[1] \in BlockPointer
         /\ Len(Path(m)) = Depth(Path(m)[1]) + 1
         /\ \A i \in 2 .. Len(Path(m)) : Path(m)[i] \in 0 .. Pointers - 1
<1> DEFINE single == m - N_DBLOCKS
           double == single - N_IBLOCKS * Pointers
           triple == double - PointersSquared
<1>1. m \in Int /\ single \in Int /\ double \in Int /\ triple \in Int
  BY Constants, Starts
<1>2. CASE single < 0
  <2>1. Path(m) = <<m>>
    BY <1>2 DEF Path
  <2> QED
    BY <1>2, <2>1, Constants DEF BlockPointer, Depth
<1>3. CASE ~(single < 0) /\ double < 0
  <2>1. Path(m) = <<N_DBLOCKS + single \div Pointers, single % Pointers>>
    BY <1>3 DEF Path
  <2>2. single \in Nat /\ single < Pointers * N_IBLOCKS
    BY <1>1, <1>3, Constants
  <2> HIDE DEF single
  <2>3. single \div Pointers \in 0 .. N_IBLOCKS - 1 /\ single % Pointers \in 0 .. Pointers - 1
    BY <2>2, DivisionBound, Division, Constants
  <2>4. PICK q \in 0 .. N_IBLOCKS - 1, r \in 0 .. Pointers - 1 : Path(m) = <<N_DBLOCKS + q, r>>
    BY <2>1, <2>3
  <2> QED
    BY <2>4, Constants DEF BlockPointer, Depth
<1>4. CASE ~(single < 0) /\ ~(double < 0) /\ triple < 0
  <2>1. Path(m) = <<N_DBLOCKS + N_IBLOCKS, double \div Pointers, double % Pointers>>
    BY <1>4 DEF Path
  <2>2. double \in Nat /\ double < Pointers * Pointers
    BY <1>1, <1>4, Constants DEF PointersSquared
  <2> HIDE DEF double
  <2>3. double \div Pointers \in 0 .. Pointers - 1 /\ double % Pointers \in 0 .. Pointers - 1
    BY <2>2, DivisionBound, Division, Constants
  <2>4. PICK q \in 0 .. Pointers - 1, r \in 0 .. Pointers - 1 :
          Path(m) = <<N_DBLOCKS + N_IBLOCKS, q, r>>
    BY <2>1, <2>3
  <2> QED
    BY <2>4, Constants DEF BlockPointer, Depth
<1>5. CASE ~(single < 0) /\ ~(double < 0) /\ ~(triple < 0)
  <2>1. Path(m) = <<N_DBLOCKS + N_IBLOCKS + 1, triple \div PointersSquared,
                    (triple \div Pointers) % Pointers, triple % Pointers>>
    BY <1>5 DEF Path
  <2>2. triple \in Nat /\ triple < PointersSquared * Pointers
    BY <1>1, <1>5, Constants, Starts DEF DoubleStart, TripleStart
  <2> HIDE DEF triple
  <2>3. /\ triple \div PointersSquared \in 0 .. Pointers - 1
        /\ triple \div Pointers \in Int
        /\ triple % Pointers \in 0 .. Pointers - 1
    BY <2>2, DivisionBound, Division, Constants
  <2>4. (triple \div Pointers) % Pointers \in 0 .. Pointers - 1
    BY <2>3, Division, Constants
  <2>5. PICK q \in 0 .. Pointers - 1, r \in 0 .. Pointers - 1, t \in 0 .. Pointers - 1 :
          Path(m) = <<N_DBLOCKS + N_IBLOCKS + 1, q, r, t>>
    BY <2>1, <2>3, <2>4
  <2> QED
    BY <2>5, Constants DEF BlockPointer, Depth
<1> QED
  BY <1>2, <1>3, <1>4, <1>5

-----------------------------------------------------------------------------
(* Blocks and inodes *)

Raw == [Block -> Content]

\* Inodes are where they belong.
InodesFirst(raw) == \A b \in Block : raw[b].kind = "inodes" <=> b < iblocks

LEMMA ContentType ==
  ASSUME NEW c \in Content
  PROVE  /\ c.kind \in {"zero", "inodes", "pointers", "data", "spoilt"}
         /\ c.kind = "inodes" => c.slot \in [0 .. InodesPer - 1 -> Inode]
                                 /\ c = InodeBlock(c.slot)
         /\ c.kind = "pointers" => c.ptr \in [0 .. Pointers - 1 -> Block]
BY DEF Content, ZeroBlock, SpoiltBlock, InodeBlock

LEMMA ContentBuilt ==
  /\ ZeroBlock \in Content /\ SpoiltBlock \in Content
  /\ \A slots \in [0 .. InodesPer - 1 -> Inode] :
       InodeBlock(slots) \in Content /\ InodeBlock(slots).kind = "inodes"
       /\ InodeBlock(slots).slot = slots
  /\ \A ptrs \in [0 .. Pointers - 1 -> Block] :
       PointerBlock(ptrs) \in Content /\ PointerBlock(ptrs).kind = "pointers"
       /\ PointerBlock(ptrs).ptr = ptrs
  /\ \A f \in Files, i \in Nat :
       DataBlock(f, i) \in Content /\ DataBlock(f, i).kind = "data"
BY DEF Content, ZeroBlock, SpoiltBlock, InodeBlock, PointerBlock, DataBlock

LEMMA ZeroType ==
  /\ ZeroInode \in Inode
  /\ ZeroInodes \in Content /\ ZeroInodes.kind = "inodes"
  /\ \A i \in 0 .. InodesPer - 1 : ZeroInodes.slot[i] = ZeroInode
  /\ ZeroRaw \in Raw /\ InodesFirst(ZeroRaw)
  /\ \A q \in InodePos : InodeAt(ZeroRaw, q) = ZeroInode
<1>1. ZeroInode \in Inode
  BY Constants DEF ZeroInode, Inode
<1>2. [i \in 0 .. InodesPer - 1 |-> ZeroInode] \in [0 .. InodesPer - 1 -> Inode]
  BY <1>1
<1>3. /\ ZeroInodes \in Content /\ ZeroInodes.kind = "inodes"
      /\ ZeroInodes.slot = [i \in 0 .. InodesPer - 1 |-> ZeroInode]
  BY <1>2, ContentBuilt DEF ZeroInodes
<1>4. ZeroBlock \in Content /\ ZeroBlock.kind = "zero"
  BY ContentBuilt DEF ZeroBlock
<1>5. ZeroRaw \in Raw /\ InodesFirst(ZeroRaw)
  BY <1>3, <1>4 DEF ZeroRaw, Raw, InodesFirst
<1>6. ASSUME NEW q \in InodePos PROVE InodeAt(ZeroRaw, q) = ZeroInode
  <2>1. q[1] \in InodeBlocks /\ q[2] \in 0 .. InodesPer - 1 /\ q[1] \in Block /\ q[1] < iblocks
    BY Constants DEF InodePos, InodeBlocks
  <2>2. ZeroRaw[q[1]] = ZeroInodes
    BY <2>1 DEF ZeroRaw
  <2> QED
    BY <2>1, <2>2, <1>3 DEF InodeAt
<1> QED
  BY <1>1, <1>3, <1>5, <1>6

LEMMA InodeAtType ==
  ASSUME NEW raw \in Raw, InodesFirst(raw), NEW q \in InodePos
  PROVE  /\ InodeAt(raw, q) \in Inode
         /\ q[1] \in InodeBlocks /\ q[1] \in Block /\ q[2] \in 0 .. InodesPer - 1
         /\ q = <<q[1], q[2]>>
         /\ raw[q[1]] \in Content /\ raw[q[1]].kind = "inodes"
         /\ raw[q[1]].slot \in [0 .. InodesPer - 1 -> Inode]
<1>1. /\ q[1] \in InodeBlocks /\ q[1] \in Block /\ q[2] \in 0 .. InodesPer - 1
      /\ q = <<q[1], q[2]>> /\ q[1] < iblocks
  BY Constants DEF InodePos, InodeBlocks
<1>2. raw[q[1]] \in Content /\ raw[q[1]].kind = "inodes"
  BY <1>1 DEF Raw, InodesFirst
<1>3. raw[q[1]].slot \in [0 .. InodesPer - 1 -> Inode]
  BY <1>2, ContentType
<1> QED
  BY <1>1, <1>2, <1>3 DEF InodeAt

\* Writing one inode leaves the others and all other blocks alone.
LEMMA WithInodeType ==
  ASSUME NEW raw \in Raw, InodesFirst(raw), NEW pos \in InodePos, NEW ip \in Inode
  PROVE  LET new == WithInode(raw, pos, ip)
         IN  /\ new \in Raw /\ InodesFirst(new)
             /\ InodeAt(new, pos) = ip
             /\ \A q \in InodePos \ {pos} : InodeAt(new, q) = InodeAt(raw, q)
             /\ \A b \in Block \ InodeBlocks : new[b] = raw[b]
<1> DEFINE slots == [raw[pos[1]].slot EXCEPT ![pos[2]] = ip]
           new == WithInode(raw, pos, ip)
<1>1. /\ pos[1] \in InodeBlocks /\ pos[1] \in Block /\ pos[2] \in 0 .. InodesPer - 1
      /\ pos = <<pos[1], pos[2]>> /\ pos[1] < iblocks
      /\ raw[pos[1]].slot \in [0 .. InodesPer - 1 -> Inode]
  <2>1. /\ pos[1] \in InodeBlocks /\ pos[1] \in Block /\ pos[2] \in 0 .. InodesPer - 1
        /\ pos = <<pos[1], pos[2]>>
        /\ raw[pos[1]].slot \in [0 .. InodesPer - 1 -> Inode]
    BY InodeAtType
  <2>2. iblocks \in Nat
    BY Constants
  <2>3. pos[1] < iblocks
    BY <2>1, <2>2 DEF InodeBlocks
  <2> QED
    BY <2>1, <2>3
<1>2. slots \in [0 .. InodesPer - 1 -> Inode] /\ slots[pos[2]] = ip
      /\ \A i \in (0 .. InodesPer - 1) \ {pos[2]} : slots[i] = raw[pos[1]].slot[i]
  BY <1>1
<1> HIDE DEF slots
<1>3. /\ InodeBlock(slots) \in Content /\ InodeBlock(slots).kind = "inodes"
      /\ InodeBlock(slots).slot = slots
  BY <1>2, ContentBuilt
<1>4. /\ new \in Raw /\ new[pos[1]] = InodeBlock(slots)
      /\ \A b \in Block \ {pos[1]} : new[b] = raw[b]
  BY <1>1, <1>3 DEF WithInode, Raw, slots
<1> HIDE DEF new
<1>5. InodesFirst(new)
  BY <1>1, <1>3, <1>4 DEF InodesFirst
<1>6. InodeAt(new, pos) = ip
  BY <1>2, <1>3, <1>4 DEF InodeAt
<1>7. ASSUME NEW q \in InodePos \ {pos} PROVE InodeAt(new, q) = InodeAt(raw, q)
  <2>1. q[1] \in Block /\ q[2] \in 0 .. InodesPer - 1 /\ q = <<q[1], q[2]>>
    BY InodeAtType
  <2>2. CASE q[1] = pos[1]
    <3>1. q[2] # pos[2]
      BY <2>1, <2>2, <1>1
    <3>2. new[q[1]].slot = slots
      BY <2>2, <1>3, <1>4
    <3>3. slots[q[2]] = raw[pos[1]].slot[q[2]]
      BY <3>1, <2>1, <1>2
    <3> QED
      BY <2>2, <3>2, <3>3 DEF InodeAt
  <2>3. CASE q[1] # pos[1]
    BY <2>1, <2>3, <1>4 DEF InodeAt
  <2> QED
    BY <2>2, <2>3
<1> QED
  BY <1>1, <1>4, <1>5, <1>6, <1>7 DEF new

-----------------------------------------------------------------------------
(* Walks *)

LEMMA WalkDef ==
  ASSUME NEW raw, NEW ip, NEW path, Len(path) \in 1 .. 4
  PROVE  LET node == Nodes(raw, ip, path)
         IN  /\ DOMAIN node = 1 .. Len(path)
             /\ node = [i \in 1 .. Len(path) |-> node[i]]
             /\ node[1] = ip.ptr[path[1]]
             /\ \A i \in 1 .. Len(path) - 1 : node[i + 1] = read_int(raw, node[i], path[i + 1])
<1> DEFINE node == Nodes(raw, ip, path)
           n == Len(path)
           first == ip.ptr[path[1]]
           second == read_int(raw, first, path[2])
           third == read_int(raw, second, path[3])
           fourth == read_int(raw, third, path[4])
<1>1. node = [i \in 1 .. n |->
         CASE i = 1 -> first [] i = 2 -> second [] i = 3 -> third [] i = 4 -> fourth]
  BY DEF Nodes
<1>f. node = [i \in 1 .. n |-> node[i]]
  BY <1>1
<1> HIDE DEF node
<1>2. /\ DOMAIN node = 1 .. n /\ node[1] = first
      /\ 2 <= n => node[2] = second
      /\ 3 <= n => node[3] = third
      /\ 4 <= n => node[4] = fourth
  <2> HIDE DEF first, second, third, fourth
  <2> QED
    BY <1>1
<1>3. ASSUME NEW i \in 1 .. n - 1 PROVE node[i + 1] = read_int(raw, node[i], path[i + 1])
  <2>1. CASE i = 1
    BY <2>1, <1>2
  <2>2. CASE i = 2
    BY <2>2, <1>2
  <2>3. CASE i = 3
    BY <2>3, <1>2
  <2> QED
    BY <2>1, <2>2, <2>3
<1> QED
  BY <1>2, <1>3, <1>f DEF node

\* Two walks along one path that read the same pass the same blocks.
LEMMA WalksAgree ==
  ASSUME NEW raw1, NEW ip1, NEW raw2, NEW ip2, NEW path, Len(path) \in 1 .. 4,
         ip1.ptr[path[1]] = ip2.ptr[path[1]],
         \A i \in 1 .. Len(path) - 1 :
           LET b == Nodes(raw1, ip1, path)[i]
           IN  read_int(raw1, b, path[i + 1]) = read_int(raw2, b, path[i + 1])
  PROVE  Nodes(raw2, ip2, path) = Nodes(raw1, ip1, path)
<1> DEFINE u == Nodes(raw1, ip1, path)
           v == Nodes(raw2, ip2, path)
           n == Len(path)
<1>1. /\ DOMAIN u = 1 .. n /\ u[1] = ip1.ptr[path[1]]
      /\ \A i \in 1 .. n - 1 : u[i + 1] = read_int(raw1, u[i], path[i + 1])
  BY WalkDef
<1>2. /\ DOMAIN v = 1 .. n /\ v[1] = ip2.ptr[path[1]]
      /\ \A i \in 1 .. n - 1 : v[i + 1] = read_int(raw2, v[i], path[i + 1])
  BY WalkDef
<1>3. u = [i \in 1 .. n |-> u[i]] /\ v = [i \in 1 .. n |-> v[i]]
  BY WalkDef
<1>4. \A i \in 1 .. n - 1 : read_int(raw1, u[i], path[i + 1]) = read_int(raw2, u[i], path[i + 1])
  OBVIOUS
<1> HIDE DEF u, v
<1>5. v[1] = u[1]
  BY <1>1, <1>2
<1>6. ASSUME NEW i \in 1 .. n - 1, v[i] = u[i]
      PROVE  v[i + 1] = u[i + 1]
  <2>1. v[i + 1] = read_int(raw2, u[i], path[i + 1])
    BY <1>2, <1>6
  <2>2. u[i + 1] = read_int(raw1, u[i], path[i + 1])
    BY <1>1
  <2> QED
    BY <2>1, <2>2, <1>4
<1>7. 2 <= n => v[2] = u[2]
  BY <1>5, <1>6
<1>8. 3 <= n => v[3] = u[3]
  BY <1>6, <1>7
<1>9. 4 <= n => v[4] = u[4]
  BY <1>6, <1>8
<1>10. ASSUME NEW i \in 1 .. n PROVE v[i] = u[i]
  <2>1. n \in 1 .. 4
    OBVIOUS
  <2> HIDE DEF n
  <2>2. i = 1 \/ (i = 2 /\ 2 <= n) \/ (i = 3 /\ 3 <= n) \/ (i = 4 /\ 4 <= n)
    BY <2>1
  <2> QED
    BY <2>2, <1>5, <1>7, <1>8, <1>9
<1> QED
  BY <1>3, <1>10 DEF u, v

\* What a walk may read.
LEMMA ReadType ==
  ASSUME NEW raw \in Raw, NEW b \in Block \cup {Wild}, NEW i \in 0 .. Pointers - 1
  PROVE  read_int(raw, b, i) \in Block \cup {Wild}
<1>1. CASE b = Wild
  BY <1>1 DEF read_int
<1>2. CASE b # Wild /\ raw[b].kind = "pointers"
  <2>1. raw[b].ptr \in [0 .. Pointers - 1 -> Block]
    BY <1>2, ContentType DEF Raw
  <2> QED
    BY <1>2, <2>1 DEF read_int
<1>3. CASE b # Wild /\ raw[b].kind # "pointers"
  BY <1>3, Constants DEF read_int
<1> QED
  BY <1>1, <1>2, <1>3

LEMMA WalkType ==
  ASSUME NEW raw \in Raw, NEW ip \in Inode, NEW m \in 0 .. Capacity - 1
  PROVE  \A i \in 1 .. Len(Path(m)) : Nodes(raw, ip, Path(m))[i] \in Block \cup {Wild}
<1> DEFINE path == Path(m)
           n == Len(path)
           node == Nodes(raw, ip, path)
<1>1. /\ n \in 1 .. 4 /\ path[1] \in BlockPointer
      /\ \A i \in 2 .. n : path[i] \in 0 .. Pointers - 1
  BY PathType
<1>2. /\ node[1] = ip.ptr[path[1]]
      /\ \A i \in 1 .. n - 1 : node[i + 1] = read_int(raw, node[i], path[i + 1])
  BY <1>1, WalkDef
<1> HIDE DEF node, path
<1>3. node[1] \in Block \cup {Wild}
  BY <1>1, <1>2 DEF Inode
<1>4. \A i \in 1 .. n - 1 : node[i] \in Block \cup {Wild} => node[i + 1] \in Block \cup {Wild}
  <2> SUFFICES ASSUME NEW i \in 1 .. n - 1, node[i] \in Block \cup {Wild}
               PROVE  node[i + 1] \in Block \cup {Wild}
    OBVIOUS
  <2>1. path[i + 1] \in 0 .. Pointers - 1
    BY <1>1
  <2> QED
    BY <2>1, <1>2, ReadType
<1>5. 2 <= n => node[2] \in Block \cup {Wild}
  BY <1>3, <1>4
<1>6. 3 <= n => node[3] \in Block \cup {Wild}
  BY <1>4, <1>5
<1>7. 4 <= n => node[4] \in Block \cup {Wild}
  BY <1>4, <1>6
<1>8. ASSUME NEW i \in 1 .. n PROVE node[i] \in Block \cup {Wild}
  <2>1. n \in 1 .. 4
    BY <1>1
  <2> HIDE DEF n
  <2>2. i = 1 \/ (i = 2 /\ 2 <= n) \/ (i = 3 /\ 3 <= n) \/ (i = 4 /\ 4 <= n)
    BY <2>1
  <2> QED
    BY <2>2, <1>3, <1>5, <1>6, <1>7
<1> QED
  BY <1>8 DEF node, path, n

LEMMA MarksDef ==
  ASSUME NEW raw, NEW ip
  PROVE  \A b : b \in Marks(raw, ip) <=>
           \E m \in Visited(ip) : \E i \in 1 .. Len(Path(m)) :
             b = Nodes(raw, ip, Path(m))[i]
<1>1. \A m \in Visited(ip) : DOMAIN Path(m) = 1 .. Len(Path(m))
  BY PathType DEF Visited
<1> QED
  BY <1>1 DEF Marks

LEMMA MarksType ==
  ASSUME NEW raw \in Raw, NEW ip \in Inode
  PROVE  Marks(raw, ip) \subseteq Block \cup {Wild}
BY MarksDef, WalkType DEF Visited

\* Blocks that a walk does not pass, and the contents of inode blocks, do not
\* matter to it.
LEMMA WalkFramed ==
  ASSUME NEW raw1 \in Raw, NEW raw2 \in Raw, InodesFirst(raw1), InodesFirst(raw2),
         NEW ip \in Inode, NEW m \in 0 .. Capacity - 1,
         \A i \in 1 .. Len(Path(m)) :
           LET b == Nodes(raw1, ip, Path(m))[i]
           IN  b \in Block \ InodeBlocks => raw2[b] = raw1[b]
  PROVE  Nodes(raw2, ip, Path(m)) = Nodes(raw1, ip, Path(m))
<1> DEFINE path == Path(m)
           node == Nodes(raw1, ip, path)
<1>1. Len(path) \in 1 .. 4
  BY PathType
<1>2. ASSUME NEW i \in 1 .. Len(path) - 1
      PROVE  read_int(raw1, node[i], path[i + 1]) = read_int(raw2, node[i], path[i + 1])
  <2>1. node[i] \in Block \cup {Wild}
    BY <1>1, WalkType
  <2>2. CASE node[i] = Wild
    BY <2>2 DEF read_int
  <2>3. CASE node[i] \in InodeBlocks
    <3>1. raw1[node[i]].kind = "inodes" /\ raw2[node[i]].kind = "inodes"
      BY <2>3, Constants DEF InodesFirst, InodeBlocks
    <3> QED
      BY <3>1 DEF read_int
  <2>4. CASE node[i] \in Block \ InodeBlocks
    <3>1. raw2[node[i]] = raw1[node[i]]
      BY <2>4, <1>1
    <3> QED
      BY <3>1 DEF read_int
  <2> QED
    BY <2>1, <2>2, <2>3, <2>4
<1> QED
  BY <1>1, <1>2, WalksAgree

-----------------------------------------------------------------------------
(* The state *)

LEMMA LoadedType ==
  ASSUME NEW im \in Seq(Content)
  PROVE  Loaded(im) \in Raw
<1>1. \A b \in Block : b < Len(im) => im[b + 1] \in Content
  BY DEF Block
<1>2. ZeroRaw \in Raw
  BY ZeroType
<1> QED
  BY <1>1, <1>2 DEF Loaded, Raw

LEMMA LoadedEmpty == Loaded(<<>>) = ZeroRaw
BY DEF Loaded, ZeroRaw, Block

StateFacts ==
  /\ Disk \in Raw /\ rawdata \in Raw /\ InodesFirst(Disk) /\ InodesFirst(rawdata)
  /\ nbytes \in Nat /\ eof \in BOOLEAN /\ bitmap \subseteq Block
  /\ pc # "idle" => /\ job.pos \in InodePos /\ job.file \in Files
                    /\ job.owner \in Owners /\ FileSize[job.file] \in Nat
                    /\ Current \in Inode

LEMMA StateType == TypeOK /\ RunInv => StateFacts
<1> SUFFICES ASSUME TypeOK, RunInv PROVE StateFacts
  OBVIOUS
<1>1. Disk \in Raw /\ InodesFirst(Disk)
  BY LoadedType DEF TypeOK, RunInv, Disk, InodesFirst
<1>2. rawdata \in Raw /\ InodesFirst(rawdata)
  BY DEF TypeOK, InodesFirst, Raw
<1>3. pc # "idle" => job.pos \in InodePos /\ job.file \in Files /\ job.owner \in Owners
  BY DEF TypeOK, RunInv
<1>4. pc # "idle" => FileSize[job.file] \in Nat /\ Current \in Inode
  BY <1>2, <1>3, ImageAssumption, InodeAtType DEF Current
<1> QED
  BY <1>1, <1>2, <1>3, <1>4 DEF TypeOK, StateFacts

LEMMA StateTypeNext == (TypeOK /\ RunInv => StateFacts)'
BY StateType, PTL

LEMMA ImageInit == Init => ImageInv
<1> SUFFICES ASSUME Init PROVE ImageInv
  OBVIOUS
<1>1. Disk = ZeroRaw
  BY LoadedEmpty DEF Init, Disk
<1>2. Placed = {} /\ pc = "idle" /\ extracted = {}
  BY DEF Init, Placed
<1>3. TypeOK
  <2>1. image \in Seq(Content) /\ Len(image) <= nblocks
    BY Constants DEF Init
  <2>2. rawdata \in [Block -> Content] /\ \A b \in Block : b < iblocks <=> rawdata[b].kind = "inodes"
    BY ZeroType DEF Init, Raw, InodesFirst
  <2>3. open \in Seq([block : Block, next : 0 .. Pointers]) /\ Len(open) <= 3
    BY DEF Init
  <2>4. /\ pc \in {"idle", "place", "write", "astray"}
        /\ job \in [command : {"none"}]
        /\ bitmap \subseteq Block /\ InodeBlocks \subseteq bitmap
        /\ nbytes \in Nat
        /\ pointer \in 0 .. N_DBLOCKS + N_IBLOCKS + 2
        /\ written \in 0 .. nblocks
        /\ placed \in [InodePos -> (Files \X Owners) \cup {NoFile}]
    BY Constants DEF Init
  <2>5. eof \in BOOLEAN
    BY Zenon DEF Init
  <2> QED
    BY <2>1, <2>2, <2>3, <2>4, <2>5 DEF TypeOK
<1>4. RunInv
  BY <1>1, <1>2, ZeroType DEF RunInv, InodesFirst
<1>5. SeparateInv /\ LoopInv /\ ChainInv /\ PlacedInv
  BY <1>2 DEF SeparateInv, LoopInv, ChainInv, PlacedInv
<1>6. KeptInv /\ ExtractReturnsFiles
  BY <1>2 DEF KeptInv, FileInv, BlocksApart, ExtractReturnsFiles
<1> QED
  BY <1>3, <1>4, <1>5, <1>6 DEF ImageInv

-----------------------------------------------------------------------------
(* A run begins *)

\* Both commands that place a file begin with a copy of what is in the image
\* file, and with a bitmap in which everything is marked that inodes reach.
LEMMA StartingKeeps ==
  ASSUME NEW command \in {"create", "insert"}, NEW f \in Files, NEW owner \in Owners,
         NEW pos \in InodePos, NEW raw \in Raw, NEW b \in SUBSET Block,
         StartPlacing(command, f, owner, pos, raw, b),
         image' \in Seq(Content), Len(image') <= nblocks, Loaded(image') = raw,
         InodesFirst(raw),
         InodeBlocks \cup (recreate_bitmap(raw) \ {Wild}) \subseteq b,
         placed' \in [InodePos -> (Files \X Owners) \cup {NoFile}]
  PROVE  (TypeOK /\ RunInv /\ SeparateInv /\ LoopInv /\ ChainInv /\ PlacedInv)'
<1> DEFINE ip == [InodeAt(raw, pos) EXCEPT !.nlink = 1, !.owner = owner]
<1>1. /\ pc' = "place"
      /\ job' = [command |-> command, file |-> f, owner |-> owner, pos |-> pos]
      /\ rawdata' = WithInode(raw, pos, ip)
      /\ bitmap' = b
      /\ nbytes' = 0 /\ eof' = FALSE /\ pointer' = 0 /\ open' = <<>>
      /\ written' = 0 /\ extracted' = {}
  BY DEF StartPlacing
<1>2. ip \in Inode /\ ip.nlink = 1 /\ ip.owner = owner
  <2>1. InodeAt(raw, pos) \in Inode
    BY InodeAtType
  <2> QED
    BY <2>1 DEF Inode
<1> HIDE DEF ip
<1>3. /\ rawdata' \in Raw /\ InodesFirst(rawdata')
      /\ InodeAt(rawdata', pos) = ip
      /\ \A q \in InodePos \ {pos} : InodeAt(rawdata', q) = InodeAt(raw, q)
      /\ \A c \in Block \ InodeBlocks : rawdata'[c] = raw[c]
  BY <1>1, <1>2, WithInodeType
<1>4. Disk' = raw
  BY DEF Disk
<1>5. TypeOK'
  <2>1. rawdata' \in [Block -> Content] /\ \A c \in Block : c < iblocks <=> rawdata'[c].kind = "inodes"
    BY <1>3 DEF Raw, InodesFirst
  <2>2. open' \in Seq([block : Block, next : 0 .. Pointers]) /\ Len(open') <= 3
    BY <1>1
  <2>3. job' \in [command : {"create", "insert"}, file : Files, owner : Owners, pos : InodePos]
    BY <1>1
  <2>4. /\ pc' \in {"idle", "place", "write", "astray"}
        /\ bitmap' \subseteq Block /\ InodeBlocks \subseteq bitmap'
        /\ nbytes' \in Nat
        /\ pointer' \in 0 .. N_DBLOCKS + N_IBLOCKS + 2
        /\ written' \in 0 .. nblocks
    BY <1>1, Constants
  <2>5. eof' \in BOOLEAN
    BY <1>1, Zenon
  <2> QED
    BY <2>1, <2>2, <2>3, <2>4, <2>5 DEF TypeOK
<1>6. RunInv'
  <2>1. Len(image') >= 0
    OBVIOUS
  <2> QED
    BY <1>1, <1>4, <2>1 DEF RunInv, InodesFirst
<1>7. SeparateInv'
  <2>1. Others' = {q \in InodePos \ {pos} : InodeAt(raw, q).nlink # 0}
    BY <1>1, <1>4 DEF Others
  <2>2. Reached' = UNION {Marks(raw, InodeAt(raw, q)) : q \in Others'}
    BY <1>4 DEF Reached
  <2>3. Reached' \subseteq recreate_bitmap(raw)
    BY <2>1, <2>2 DEF recreate_bitmap
  <2>4. Reached' \ {Wild} \subseteq bitmap'
    BY <2>3, <1>1
  <2>5. \A c \in Block \ InodeBlocks : rawdata'[c] = Disk'[c]
    BY <1>3, <1>4
  <2>6. \A q \in InodePos \ {job'.pos} : InodeAt(rawdata', q) = InodeAt(Disk', q)
    BY <1>1, <1>3, <1>4
  <2>7. DOMAIN open' = {}
    BY <1>1
  <2> QED
    BY <2>4, <2>5, <2>6, <2>7 DEF SeparateInv
<1>8. LoopInv'
  <2>1. Position' = 0
    BY <1>1, Constants DEF Position, StandsAt, Base
  <2>2. 0 % BLOCK_SZ = 0 /\ 0 \div BLOCK_SZ = 0
    <3>1. 0 = BLOCK_SZ * 0 + 0
      BY Constants
    <3> QED
      BY <3>1, DivisionUnique, Constants
  <2>3. Current' = ip
    BY <1>1, <1>3 DEF Current
  <2>4. FileSize[f] \in Nat
    BY ImageAssumption
  <2> QED
    BY <1>1, <1>2, <2>1, <2>2, <2>3, <2>4 DEF LoopInv
<1>9. ChainInv'
  BY <1>1 DEF ChainInv
<1>10. PlacedInv'
  <2>1. 0 \div BLOCK_SZ = 0
    <3>1. 0 = BLOCK_SZ * 0 + 0
      BY Constants
    <3> QED
      BY <3>1, DivisionUnique, Constants
  <2>2. Allocated' = 0
    BY <1>1, <2>1 DEF Allocated
  <2> QED
    BY <2>2 DEF PlacedInv
<1> QED
  BY <1>5, <1>6, <1>7, <1>8, <1>9, <1>10

LEMMA CreateKeeps ==
  ASSUME ImageInv, NEW f \in Files, NEW owner \in Owners, NEW pos \in InodePos,
         Create(f, owner, pos)
  PROVE  ImageInv'
<1>1. /\ image' = <<>> /\ placed' = [q \in InodePos |-> NoFile]
      /\ StartPlacing("create", f, owner, pos, ZeroRaw, InodeBlocks)
  BY DEF Create
<1>2. recreate_bitmap(ZeroRaw) = InodeBlocks
  <2>1. {q \in InodePos : InodeAt(ZeroRaw, q).nlink # 0} = {}
    BY ZeroType DEF ZeroInode
  <2> QED
    BY <2>1 DEF recreate_bitmap
<1>3. (TypeOK /\ RunInv /\ SeparateInv /\ LoopInv /\ ChainInv /\ PlacedInv)'
  <2>1. image' \in Seq(Content) /\ Len(image') <= nblocks /\ Loaded(image') = ZeroRaw
    BY <1>1, LoadedEmpty, Constants
  <2>2. ZeroRaw \in Raw /\ InodesFirst(ZeroRaw)
    BY ZeroType
  <2>3. InodeBlocks \in SUBSET Block
    BY Constants
  <2>4. InodeBlocks \cup (recreate_bitmap(ZeroRaw) \ {Wild}) \subseteq InodeBlocks
    BY <1>2
  <2>5. placed' \in [InodePos -> (Files \X Owners) \cup {NoFile}]
    BY <1>1
  <2> QED
    BY <1>1, <2>1, <2>2, <2>3, <2>4, <2>5, StartingKeeps
<1>4. Placed' = {} /\ extracted' = {} /\ job'.pos = pos
  BY <1>1 DEF Placed, StartPlacing
<1>5. (KeptInv /\ ExtractReturnsFiles)'
  BY <1>1, <1>4 DEF KeptInv, FileInv, BlocksApart, ExtractReturnsFiles
<1> QED
  BY <1>3, <1>5 DEF ImageInv

LEMMA InsertKeeps ==
  ASSUME ImageInv, NEW f \in Files, NEW owner \in Owners, NEW pos \in InodePos,
         Insert(f, owner, pos)
  PROVE  ImageInv'
<1> DEFINE marks == recreate_bitmap(Disk)
<1>1. /\ image' = image /\ placed' = placed
      /\ InodeAt(Disk, pos) = ZeroInode
      /\ \E stray \in SUBSET Block :
           StartPlacing("insert", f, owner, pos, Disk, (marks \ {Wild}) \cup stray)
  <2>1. StrayMarks \subseteq SUBSET Block
    BY ImageAssumption DEF Block
  <2> QED
    BY <2>1 DEF Insert, Opened, Disk
<1>2. PICK stray \in SUBSET Block :
        StartPlacing("insert", f, owner, pos, Disk, (marks \ {Wild}) \cup stray)
  BY <1>1
<1>3. Disk \in Raw /\ InodesFirst(Disk)
  BY StateType DEF ImageInv, StateFacts
<1>4. marks \subseteq Block \cup {Wild} /\ InodeBlocks \subseteq marks \ {Wild}
  <2>1. \A q \in InodePos : Marks(Disk, InodeAt(Disk, q)) \subseteq Block \cup {Wild}
    BY <1>3, InodeAtType, MarksType
  <2> QED
    BY <2>1, Constants DEF recreate_bitmap
<1> HIDE DEF marks
<1>5. (TypeOK /\ RunInv /\ SeparateInv /\ LoopInv /\ ChainInv /\ PlacedInv)'
  <2> DEFINE b == (marks \ {Wild}) \cup stray
  <2>1. image' \in Seq(Content) /\ Len(image') <= nblocks /\ Loaded(image') = Disk
    BY <1>1 DEF ImageInv, TypeOK, Disk
  <2>2. b \in SUBSET Block
    BY <1>4
  <2>3. InodeBlocks \cup (recreate_bitmap(Disk) \ {Wild}) \subseteq b
    BY <1>4 DEF marks
  <2>4. placed' \in [InodePos -> (Files \X Owners) \cup {NoFile}]
    BY <1>1 DEF ImageInv, TypeOK
  <2>5. StartPlacing("insert", f, owner, pos, Disk, b)
    BY <1>2
  <2> HIDE DEF b
  <2> QED
    BY <1>3, <2>1, <2>2, <2>3, <2>4, <2>5, StartingKeeps
<1>6. Disk' = Disk /\ Placed' = Placed /\ extracted' = {} /\ job'.pos = pos
  BY <1>1, <1>2 DEF Disk, Placed, StartPlacing
<1>7. pos \notin Placed
  BY <1>1 DEF ImageInv, KeptInv, FileInv, ZeroInode
<1>8. KeptInv'
  BY <1>1, <1>6, <1>7 DEF ImageInv, KeptInv, FileInv, BlocksApart, Disk, Placed
<1>9. ExtractReturnsFiles'
  BY <1>6 DEF ExtractReturnsFiles
<1> QED
  BY <1>5, <1>8, <1>9 DEF ImageInv

-----------------------------------------------------------------------------
(* A block is allocated *)

Entry == [block : Block, next : 0 .. Pointers]

LEMMA StackType ==
  ASSUME NEW stack \in Seq(Entry)
  PROVE  /\ Len(stack) \in Nat /\ DOMAIN stack = 1 .. Len(stack)
         /\ (stack = <<>> <=> Len(stack) = 0)
         /\ \A k \in 1 .. Len(stack) : /\ stack[k] \in Entry
                                      /\ stack[k].next \in 0 .. Pointers
                                      /\ stack[k].block \in Block
                                      /\ stack[k] = [block |-> stack[k].block,
                                                    next |-> stack[k].next]
<1>1. \A k \in 1 .. Len(stack) : stack[k] \in Entry
  OBVIOUS
<1>2. \A e \in Entry : /\ e.block \in Block /\ e.next \in 0 .. Pointers
                       /\ e = [block |-> e.block, next |-> e.next]
  BY DEF Entry
<1>3. /\ Len(stack) \in Nat /\ DOMAIN stack = 1 .. Len(stack)
      /\ (stack = <<>> <=> Len(stack) = 0)
  OBVIOUS
<1> QED
  BY <1>1, <1>2, <1>3

\* The next entry of the innermost block.
Advanced(stack) == [stack EXCEPT ![Len(stack)].next = @ + 1]

LEMMA AdvancedType ==
  ASSUME NEW stack \in Seq(Entry), Len(stack) >= 1, stack[Len(stack)].next < Pointers
  PROVE  LET new == Advanced(stack)
             n == Len(stack)
         IN  /\ new \in Seq(Entry) /\ Len(new) = n
             /\ \A k \in 1 .. n - 1 : new[k] = stack[k]
             /\ new[n].block = stack[n].block /\ new[n].next = stack[n].next + 1
<1> DEFINE n == Len(stack)
           top == [stack[n] EXCEPT !.next = @ + 1]
           new == Advanced(stack)
<1>1. n \in Nat /\ n >= 1 /\ stack[n] \in Entry /\ n \in 1 .. n
  BY StackType
<1>2. top \in Entry /\ top.block = stack[n].block /\ top.next = stack[n].next + 1
  <2>1. /\ stack[n].block \in Block /\ stack[n].next \in 0 .. Pointers
        /\ stack[n] = [block |-> stack[n].block, next |-> stack[n].next]
    BY <1>1 DEF Entry
  <2>2. Pointers \in Nat /\ stack[n].next < Pointers
    BY Constants
  <2>3. stack[n].next + 1 \in 0 .. Pointers
    BY <2>1, <2>2
  <2>4. top = [block |-> stack[n].block, next |-> stack[n].next + 1]
    BY <2>1
  <2> QED
    BY <2>1, <2>3, <2>4 DEF Entry
<1>3. new = [stack EXCEPT ![n] = top]
  BY DEF Advanced
<1> HIDE DEF top, new
<1>4. /\ new \in Seq(Entry) /\ Len(new) = n /\ new[n] = top
      /\ \A k \in 1 .. n - 1 : new[k] = stack[k]
  <2> HIDE DEF Entry
  <2> QED
    BY <1>1, <1>2, <1>3
<1> QED
  BY <1>2, <1>4 DEF new

LEMMA AppendType ==
  ASSUME NEW stack \in Seq(Entry), NEW b \in Block
  PROVE  LET new == Append(stack, [block |-> b, next |-> 0])
             n == Len(stack)
         IN  /\ new \in Seq(Entry) /\ Len(new) = n + 1
             /\ \A k \in 1 .. n : new[k] = stack[k]
             /\ new[n + 1].block = b /\ new[n + 1].next = 0
<1> DEFINE e == [block |-> b, next |-> 0]
<1>1. e \in Entry /\ e.block = b /\ e.next = 0
  BY Constants DEF Entry
<1> HIDE DEF e
<1> QED
  BY <1>1 DEF e

LEMMA OpenType ==
  TypeOK => /\ Len(open) \in 0 .. 3 /\ DOMAIN open = 1 .. Len(open)
            /\ (open = <<>> <=> Len(open) = 0)
            /\ \A k \in DOMAIN open : /\ open[k].block \in Block
                                      /\ open[k].next \in 0 .. Pointers
                                      /\ open[k] = [block |-> open[k].block,
                                                    next |-> open[k].next]
<1> SUFFICES ASSUME open \in Seq(Entry), Len(open) <= 3
             PROVE  /\ Len(open) \in 0 .. 3 /\ DOMAIN open = 1 .. Len(open)
                    /\ (open = <<>> <=> Len(open) = 0)
                    /\ \A k \in DOMAIN open : open[k] \in Entry
  BY DEF TypeOK, Entry
<1>1. Len(open) \in Nat /\ DOMAIN open = 1 .. Len(open)
  OBVIOUS
<1>2. Len(open) \in 0 .. 3
  BY <1>1
<1>4. open = <<>> <=> Len(open) = 0
  OBVIOUS
<1>3. \A k \in DOMAIN open : open[k] \in Entry
  OBVIOUS
<1> QED
  BY <1>1, <1>2, <1>3, <1>4

\* The block found is nobody's.
LEMMA OwnGrows ==
  ASSUME TypeOK, RunInv, SeparateInv, pc # "idle", NEW b \in Free,
         bitmap' = bitmap \cup {b}, UNCHANGED <<image, job>>
  PROVE  /\ Disk' = Disk /\ Others' = Others /\ Reached' = Reached
         /\ Own' = Own \cup {b}
         /\ b \in Block /\ b \notin InodeBlocks /\ b \notin Reached /\ b \notin Own
         /\ \A k \in DOMAIN open : open[k].block # b
<1>1. Disk' = Disk /\ Others' = Others /\ Reached' = Reached
  BY DEF Disk, Others, Reached
<1>2. b \in Block /\ b \notin bitmap /\ b # Wild
  BY Constants DEF Free
<1>3. b \notin InodeBlocks /\ b \notin Reached
  BY <1>2 DEF TypeOK, SeparateInv
<1>4. Own' = Own \cup {b} /\ b \notin Own
  BY <1>1, <1>2, <1>3 DEF Own
<1>5. \A k \in DOMAIN open : open[k].block # b
  BY <1>4 DEF SeparateInv
<1> QED
  BY <1>1, <1>2, <1>3, <1>4, <1>5

\* fread into a new block, or a new block of pointers.
LEMMA BlockUsed ==
  ASSUME TypeOK, RunInv, LoopInv, pc = "place", ~eof, NEW b \in Free,
         NEW mid \in Raw, InodesFirst(mid), NEW level, NEW stack,
         UseBlock(mid, b, level, stack)
  PROVE  /\ bitmap' = bitmap \cup {b}
         /\ rawdata' \in Raw /\ InodesFirst(rawdata')
         /\ \A c \in Block \ {b} : rawdata'[c] = mid[c]
         /\ \A q \in InodePos : InodeAt(rawdata', q) = InodeAt(mid, q)
         /\ level = 0 =>
              /\ open' = stack
              /\ nbytes' \in Nat /\ nbytes' <= FileSize[job.file]
              /\ eof' \in BOOLEAN
              /\ eof' => /\ nbytes' = FileSize[job.file]
                         /\ nbytes' \div BLOCK_SZ = nbytes \div BLOCK_SZ
              /\ ~eof' => /\ nbytes' % BLOCK_SZ = 0
                          /\ nbytes' \div BLOCK_SZ = nbytes \div BLOCK_SZ + 1
              /\ nbytes < FileSize[job.file] =>
                   rawdata'[b] = DataBlock(job.file, nbytes \div BLOCK_SZ)
         /\ level # 0 =>
              /\ open' = Append(stack, [block |-> b, next |-> 0])
              /\ UNCHANGED <<nbytes, eof>>
<1> DEFINE size == FileSize[job.file]
           d == nbytes \div BLOCK_SZ
<1>1. /\ b \in Block /\ b \notin InodeBlocks /\ ~(b < iblocks)
      /\ size \in Nat /\ nbytes \in Nat /\ nbytes <= size /\ job.file \in Files
  BY StateType, Constants DEF Free, TypeOK, InodeBlocks, Block, LoopInv, StateFacts
<1>2. d \in Nat /\ nbytes = BLOCK_SZ * d + 0
  <2>1. d \in Int /\ nbytes = BLOCK_SZ * d + (nbytes % BLOCK_SZ)
    BY <1>1, Division, Constants
  <2>2. nbytes % BLOCK_SZ = 0
    BY DEF LoopInv
  <2>3. ~(d + 1 <= 0)
    <3>1. SUFFICES ASSUME d + 1 <= 0 PROVE FALSE
      OBVIOUS
    <3> HIDE DEF d
    <3>2. BLOCK_SZ * (d + 1) <= BLOCK_SZ * 0
      BY <2>1, <3>1, Product, Constants
    <3> QED
      BY <2>1, <2>2, <3>2, <1>1, Constants
  <2> QED
    BY <2>1, <2>2, <2>3
<1>3. /\ Got \in 0 .. BLOCK_SZ /\ nbytes + Got <= size
      /\ Got < BLOCK_SZ => nbytes + Got = size
      /\ Got = 0 <=> nbytes = size
  BY <1>1, Constants DEF Got
<1>4. bitmap' = bitmap \cup {b}
  BY DEF UseBlock
<1>5. DataBlock(job.file, d) \in Content /\ DataBlock(job.file, d).kind = "data"
  BY <1>1, <1>2, ContentBuilt
<1>6. /\ Filled(mid, b) \in Raw /\ InodesFirst(Filled(mid, b))
      /\ \A c \in Block \ {b} : Filled(mid, b)[c] = mid[c]
      /\ nbytes < size => Filled(mid, b)[b] = DataBlock(job.file, d)
  <2> HIDE DEF d
  <2>1. CASE Got = 0
    BY <2>1, <1>1, <1>3 DEF Filled
  <2>2. CASE Got # 0
    <3>1. Filled(mid, b) = [mid EXCEPT ![b] = DataBlock(job.file, d)]
      BY <2>2 DEF Filled, d
    <3> QED
      BY <3>1, <1>1, <1>5 DEF Raw, InodesFirst
  <2> QED
    BY <2>1, <2>2
<1>7. CASE level = 0
  <2>1. rawdata' = Filled(mid, b) /\ nbytes' = nbytes + Got /\ open' = stack
    BY <1>7 DEF UseBlock
  <2>e. eof' = (Got < BLOCK_SZ)
    BY <1>7 DEF UseBlock
  <2>f. eof' <=> Got < BLOCK_SZ
    BY <2>e, Zenon
  <2>2. \A q \in InodePos : InodeAt(rawdata', q) = InodeAt(mid, q)
    <3>1. \A q \in InodePos : q[1] \in Block /\ q[1] # b
      BY <1>1, Constants DEF InodePos
    <3> QED
      BY <3>1, <2>1, <1>6 DEF InodeAt
  <2>3. nbytes' \in Nat /\ nbytes' <= size
    <3> HIDE DEF size
    <3>1. nbytes + Got \in Nat /\ nbytes + Got <= size
      BY <1>1, <1>3, Constants
    <3> QED
      BY <3>1, <2>1
  <2>4. eof' \in BOOLEAN
    BY <2>e
  <2>5. eof' => nbytes' = size /\ nbytes' \div BLOCK_SZ = d
    <3> SUFFICES ASSUME eof' PROVE nbytes' = size /\ nbytes' \div BLOCK_SZ = d
      OBVIOUS
    <3>1. Got \in 0 .. BLOCK_SZ - 1
      BY <2>f, <1>3, Constants
    <3> HIDE DEF d
    <3>2. nbytes' = BLOCK_SZ * d + Got
      BY <2>1, <1>2, <1>3, Constants
    <3>3. nbytes' \div BLOCK_SZ = d
      BY <3>1, <3>2, <1>2, DivisionUnique, Constants
    <3> QED
      BY <3>1, <3>3, <2>1, <1>3, Constants
  <2>6. ~eof' => nbytes' % BLOCK_SZ = 0 /\ nbytes' \div BLOCK_SZ = d + 1
    <3> SUFFICES ASSUME ~eof' PROVE nbytes' % BLOCK_SZ = 0 /\ nbytes' \div BLOCK_SZ = d + 1
      OBVIOUS
    <3>1. Got = BLOCK_SZ
      BY <2>f, <1>3, Constants
    <3> HIDE DEF d
    <3>2. nbytes' = BLOCK_SZ * (d + 1) + 0
      BY <2>1, <3>1, <1>2, Constants
    <3> QED
      BY <3>2, <1>2, DivisionUnique, Constants
  <2> QED
    BY <1>4, <1>6, <1>7, <2>1, <2>2, <2>3, <2>4, <2>5, <2>6
<1>8. CASE level # 0
  BY <1>4, <1>8 DEF UseBlock
<1> QED
  BY <1>7, <1>8

\* What a change of the copy may touch: pointers of the inode and entries of the
\* innermost open block that the loops have not come to, and blocks of others.
Undisturbed ==
  /\ \A p \in BlockPointer : p < pointer => Current'.ptr[p] = Current.ptr[p]
  /\ \A c \in Own : rawdata'[c] = rawdata[c] \/ \E k \in DOMAIN open : c = open[k].block
  /\ \A k \in DOMAIN open : \A j \in 0 .. open[k].next - 1 :
       /\ rawdata'[open[k].block].kind = "pointers"
       /\ rawdata'[open[k].block].ptr[j] = rawdata[open[k].block].ptr[j]

\* The walks to the blocks allocated before stay as they are.
LEMMA WalksKept ==
  ASSUME TypeOK, RunInv, ChainInv, PlacedInv, pc # "idle", Undisturbed,
         NEW m \in 0 .. Capacity - 1, m < Allocated
  PROVE  LET node == Nodes(rawdata, Current, Path(m))
         IN  /\ Nodes(rawdata', Current', Path(m)) = node
             /\ rawdata'[node[Len(Path(m))]] = rawdata[node[Len(Path(m))]]
<1> DEFINE path == Path(m)
           n == Len(path)
           node == Nodes(rawdata, Current, path)
<1>1. /\ n \in 1 .. 4 /\ path[1] \in BlockPointer
      /\ \A i \in 2 .. n : path[i] \in 0 .. Pointers - 1
  BY PathType
<1>2. /\ path[1] < pointer
      /\ \A i \in 1 .. n : /\ node[i] \in Own
                           /\ \A k \in DOMAIN open : node[i] = open[k].block =>
                                i = k /\ i < n /\ path[i + 1] < open[k].next
  BY DEF PlacedInv, Reachable
<1>3. Current'.ptr[path[1]] = Current.ptr[path[1]]
  BY <1>1, <1>2 DEF Undisturbed
<1> HIDE DEF node, path
<1>4. ASSUME NEW i \in 1 .. n - 1
      PROVE  read_int(rawdata, node[i], path[i + 1]) = read_int(rawdata', node[i], path[i + 1])
  <2>1. node[i] \in Own
    BY <1>1, <1>2
  <2>2. CASE rawdata'[node[i]] = rawdata[node[i]]
    BY <2>2 DEF read_int
  <2>3. CASE \E k \in DOMAIN open : node[i] = open[k].block
    <3>1. PICK k \in DOMAIN open : node[i] = open[k].block
      BY <2>3
    <3>2. path[i + 1] < open[k].next /\ path[i + 1] \in 0 .. Pointers - 1
      BY <1>1, <1>2, <3>1
    <3>3. open[k].next \in 0 .. Pointers
      BY OpenType
    <3>4. path[i + 1] \in 0 .. open[k].next - 1 /\ open[k].next >= 1
      BY <3>2, <3>3, Constants
    <3>5. /\ rawdata'[node[i]].kind = "pointers"
          /\ rawdata'[node[i]].ptr[path[i + 1]] = rawdata[node[i]].ptr[path[i + 1]]
      BY <3>1, <3>4 DEF Undisturbed
    <3>6. rawdata[node[i]].kind = "pointers"
      BY <3>1, <3>4 DEF ChainInv
    <3> QED
      BY <3>5, <3>6 DEF read_int
  <2> QED
    BY <2>1, <2>2, <2>3 DEF Undisturbed
<1>5. Nodes(rawdata', Current', path) = node
  BY <1>1, <1>3, <1>4, WalksAgree DEF node
<1>6. rawdata'[node[n]] = rawdata[node[n]]
  <2>1. n \in 1 .. n /\ node[n] \in Own
    BY <1>1, <1>2
  <2>2. ~\E k \in DOMAIN open : node[n] = open[k].block
    BY <1>1, <1>2
  <2> QED
    BY <2>1, <2>2 DEF Undisturbed
<1> QED
  BY <1>5, <1>6 DEF node, path

\* So they stay reachable, if the loops only go on from where they are.
LEMMA OldStaysReachable ==
  ASSUME TypeOK, RunInv, ChainInv, PlacedInv, pc # "idle", Undisturbed,
         job' = job, Own \subseteq Own',
         pointer \in Int, pointer' \in Int, pointer <= pointer',
         \A k \in DOMAIN open' :
           \/ open'[k].block \notin Own
           \/ /\ k \in DOMAIN open /\ open'[k].block = open[k].block
              /\ open'[k].next \in Int /\ open[k].next <= open'[k].next,
         NEW m \in 0 .. Capacity - 1, m < Allocated
  PROVE  Reachable(m)'
<1> DEFINE path == Path(m)
           n == Len(path)
           node == Nodes(rawdata, Current, path)
<1>1. /\ n \in 1 .. 4 /\ path[1] \in BlockPointer
      /\ \A i \in 2 .. n : path[i] \in 0 .. Pointers - 1
  BY PathType
<1>2. /\ path[1] < pointer
      /\ \A i \in 1 .. n : /\ node[i] \in Own
                           /\ \A k \in DOMAIN open : node[i] = open[k].block =>
                                i = k /\ i < n /\ path[i + 1] < open[k].next
      /\ m * BLOCK_SZ < FileSize[job.file] =>
           rawdata[node[n]] = DataBlock(job.file, m)
  BY DEF PlacedInv, Reachable
<1>3. Nodes(rawdata', Current', path) = node /\ rawdata'[node[n]] = rawdata[node[n]]
  BY WalksKept
<1> HIDE DEF node
<1>4. path[1] < pointer'
  BY <1>1, <1>2, Constants DEF BlockPointer
<1>5. ASSUME NEW i \in 1 .. n
      PROVE  /\ node[i] \in Own'
             /\ \A k \in DOMAIN open' : node[i] = open'[k].block =>
                  i = k /\ i < n /\ path[i + 1] < open'[k].next
  <2>1. node[i] \in Own /\ node[i] \in Own'
    BY <1>2
  <2>2. ASSUME NEW k \in DOMAIN open', node[i] = open'[k].block
        PROVE  i = k /\ i < n /\ path[i + 1] < open'[k].next
    <3>1. /\ k \in DOMAIN open /\ node[i] = open[k].block
          /\ open'[k].next \in Int /\ open[k].next <= open'[k].next
      BY <2>1, <2>2
    <3>2. i = k /\ i < n /\ path[i + 1] < open[k].next
      BY <3>1, <1>2
    <3>3. path[i + 1] \in Int /\ open[k].next \in Int
      BY <3>1, <3>2, <1>1, OpenType
    <3> QED
      BY <3>1, <3>2, <3>3
  <2> QED
    BY <2>1, <2>2
<1>6. m * BLOCK_SZ < FileSize[job'.file] => rawdata'[node[n]] = DataBlock(job'.file, m)
  BY <1>2, <1>3
<1> HIDE DEF path, n
<1>7. /\ path[1] < pointer'
      /\ \A i \in 1 .. n : /\ node[i] \in Own'
                           /\ \A k \in DOMAIN open' : node[i] = open'[k].block =>
                                i = k /\ i < n /\ path[i + 1] < open'[k].next
  BY <1>4, <1>5
<1> QED
  BY <1>3, <1>6, <1>7 DEF Reachable, path, n

\* Where the loops stand gives the path of the next data block.
LEMMA DepthCases ==
  ASSUME NEW p \in BlockPointer
  PROVE  /\ p \in Nat /\ Depth(p) \in 0 .. 3 /\ Base(p) \in Nat
         /\ Depth(p) = 0 <=> p < N_DBLOCKS
         /\ Depth(p) = 0 => Base(p) = p /\ Base(p + 1) = p + 1
         /\ Depth(p) = 1 => /\ p - N_DBLOCKS \in 0 .. N_IBLOCKS - 1
                            /\ Base(p) = N_DBLOCKS + (p - N_DBLOCKS) * Pointers
                            /\ Base(p + 1) = Base(p) + Pointers
         /\ Depth(p) = 2 => /\ p = N_DBLOCKS + N_IBLOCKS
                            /\ Base(p) = DoubleStart
                            /\ Base(p + 1) = Base(p) + PointersSquared
         /\ Depth(p) = 3 => /\ p = N_DBLOCKS + N_IBLOCKS + 1
                            /\ Base(p) = TripleStart
                            /\ Base(p + 1) = Base(p) + Pointers * PointersSquared
<1>1. /\ p \in Nat /\ p <= N_DBLOCKS + N_IBLOCKS + 1
      /\ N_DBLOCKS \in Nat /\ N_IBLOCKS \in Nat /\ Pointers \in Nat
      /\ PointersSquared \in Nat
  BY Constants DEF BlockPointer
<1>2. CASE p < N_DBLOCKS
  <2>1. Depth(p) = 0 /\ Base(p) = p
    BY <1>1, <1>2 DEF Depth, Base
  <2>2. Base(p + 1) = p + 1
    <3> DEFINE q == p + 1
    <3>1. q <= N_DBLOCKS
      BY <1>1, <1>2
    <3> HIDE DEF q
    <3>2. Base(q) = q
      BY <3>1 DEF Base
    <3> QED
      BY <3>2 DEF q
  <2> QED
    BY <1>1, <1>2, <2>1, <2>2
<1>3. CASE ~(p < N_DBLOCKS) /\ p < N_DBLOCKS + N_IBLOCKS
  <2> DEFINE a == p - N_DBLOCKS
  <2>1. a \in Nat /\ a <= N_IBLOCKS - 1 /\ p = N_DBLOCKS + a
    BY <1>1, <1>3
  <2> HIDE DEF a
  <2>2. a * Pointers \in Nat /\ (a + 1) * Pointers = a * Pointers + Pointers
    BY <1>1, <2>1
  <2>3. Base(p) = N_DBLOCKS + a * Pointers
    <3>1. CASE a = 0
      BY <3>1, <1>1, <2>1, <2>2 DEF Base
    <3>2. CASE a # 0
      <4>1. ~(p <= N_DBLOCKS) /\ p <= N_DBLOCKS + N_IBLOCKS /\ p - N_DBLOCKS = a
        BY <3>2, <1>1, <1>3, <2>1
      <4> QED
        BY <4>1 DEF Base
    <3> QED
      BY <3>1, <3>2
  <2>4. Base(p + 1) = N_DBLOCKS + (a + 1) * Pointers
    <3> DEFINE q == p + 1
    <3>1. ~(q <= N_DBLOCKS) /\ q <= N_DBLOCKS + N_IBLOCKS /\ q - N_DBLOCKS = a + 1
      BY <1>1, <1>3, <2>1
    <3> HIDE DEF q
    <3>2. Base(q) = N_DBLOCKS + (a + 1) * Pointers
      BY <3>1 DEF Base
    <3> QED
      BY <3>2 DEF q
  <2>5. Depth(p) = 1
    BY <1>3 DEF Depth
  <2>6. p - N_DBLOCKS = a
    BY <1>1, <2>1
  <2> QED
    BY <1>1, <1>3, <2>1, <2>2, <2>3, <2>4, <2>5, <2>6
<1>4. CASE p = N_DBLOCKS + N_IBLOCKS
  <2>1. Depth(p) = 2
    BY <1>1, <1>4 DEF Depth
  <2>2. Base(p) = DoubleStart
    <3>1. CASE N_IBLOCKS = 0
      BY <3>1, <1>1, <1>4 DEF Base, DoubleStart
    <3>2. CASE N_IBLOCKS # 0
      <4>1. ~(p <= N_DBLOCKS) /\ p <= N_DBLOCKS + N_IBLOCKS /\ p - N_DBLOCKS = N_IBLOCKS
        BY <3>2, <1>1, <1>4
      <4> QED
        BY <4>1 DEF Base, DoubleStart
    <3> QED
      BY <3>1, <3>2
  <2>3. Base(p + 1) = N_DBLOCKS + N_IBLOCKS * Pointers + PointersSquared
    BY <1>1, <1>4 DEF Base
  <2> QED
    BY <1>1, <1>4, <2>1, <2>2, <2>3, Starts DEF DoubleStart
<1>5. CASE p = N_DBLOCKS + N_IBLOCKS + 1
  <2>1. Depth(p) = 3
    BY <1>1, <1>5 DEF Depth
  <2>2. Base(p) = TripleStart
    BY <1>1, <1>5 DEF Base, TripleStart, DoubleStart
  <2>3. Base(p + 1) = Capacity
    BY <1>1, <1>5 DEF Base
  <2> QED
    BY <1>1, <1>5, <2>1, <2>2, <2>3, Starts
<1> QED
  BY <1>1, <1>2, <1>3, <1>4, <1>5

LEMMA StandsDef ==
  ASSUME NEW p \in BlockPointer, NEW stack \in Seq(Entry)
  PROVE  LET n == Len(stack)
             at == StandsAt(p + 1, stack)
         IN  /\ n = 0 => StandsAt(p, stack) = Base(p) /\ at = Base(p + 1)
             /\ n = 1 /\ Depth(p) = 1 => at = Base(p) + stack[1].next
             /\ n = 1 /\ Depth(p) = 2 => at = Base(p) + stack[1].next * Pointers
             /\ n = 1 /\ Depth(p) = 3 => at = Base(p) + stack[1].next * PointersSquared
             /\ n = 2 /\ Depth(p) = 2 =>
                  at = Base(p) + (stack[1].next - 1) * Pointers + stack[2].next
             /\ n = 2 /\ Depth(p) = 3 =>
                  at = Base(p) + (stack[1].next - 1) * PointersSquared
                               + stack[2].next * Pointers
             /\ n = 3 =>
                  at = Base(p) + (stack[1].next - 1) * PointersSquared
                               + (stack[2].next - 1) * Pointers + stack[3].next
<1> DEFINE q == p + 1
<1>1. q - 1 = p /\ Len(stack) \in Nat
  BY DEF BlockPointer
<1> HIDE DEF q
<1>2. Len(stack) = 0 => StandsAt(p, stack) = Base(p)
  BY DEF StandsAt
<1>3. StandsAt(q, stack) =
        LET n == Len(stack)
            depth == Depth(p)
            base == Base(p)
        IN  CASE n = 0 -> Base(q)
              [] n = 1 /\ depth = 1 -> base + stack[1].next
              [] n = 1 /\ depth = 2 -> base + stack[1].next * Pointers
              [] n = 1 /\ depth = 3 -> base + stack[1].next * PointersSquared
              [] n = 2 /\ depth = 2 -> base + (stack[1].next - 1) * Pointers + stack[2].next
              [] n = 2 /\ depth = 3 -> base + (stack[1].next - 1) * PointersSquared
                                            + stack[2].next * Pointers
              [] OTHER -> base + (stack[1].next - 1) * PointersSquared
                               + (stack[2].next - 1) * Pointers + stack[3].next
  BY <1>1 DEF StandsAt
<1> DEFINE n == Len(stack)
           a == stack[1].next
           b == stack[2].next
           c == stack[3].next
           A == Base(p) + a
           B == Base(p) + a * Pointers
           C == Base(p) + a * PointersSquared
           D == Base(p) + (a - 1) * Pointers + b
           E == Base(p) + (a - 1) * PointersSquared + b * Pointers
           F == Base(p) + (a - 1) * PointersSquared + (b - 1) * Pointers + c
<1>4. StandsAt(q, stack) =
        LET depth == Depth(p)
        IN  CASE n = 0 -> Base(q)
              [] n = 1 /\ depth = 1 -> A
              [] n = 1 /\ depth = 2 -> B
              [] n = 1 /\ depth = 3 -> C
              [] n = 2 /\ depth = 2 -> D
              [] n = 2 /\ depth = 3 -> E
              [] OTHER -> F
  BY <1>3
<1> HIDE DEF A, B, C, D, E, F, n
<1>5. /\ n = 0 => StandsAt(q, stack) = Base(q)
      /\ n = 1 /\ Depth(p) = 1 => StandsAt(q, stack) = A
      /\ n = 1 /\ Depth(p) = 2 => StandsAt(q, stack) = B
      /\ n = 1 /\ Depth(p) = 3 => StandsAt(q, stack) = C
      /\ n = 2 /\ Depth(p) = 2 => StandsAt(q, stack) = D
      /\ n = 2 /\ Depth(p) = 3 => StandsAt(q, stack) = E
      /\ n = 3 => StandsAt(q, stack) = F
  BY <1>4
<1> QED
  BY <1>2, <1>5 DEF A, B, C, D, E, F, n, q

\* One level down: nothing is passed.
LEMMA StandsDown ==
  ASSUME NEW p \in BlockPointer, NEW stack \in Seq(Entry), NEW b \in Block,
         Len(stack) >= 1, Len(stack) < Depth(p), stack[Len(stack)].next < Pointers
  PROVE  StandsAt(p + 1, Append(Advanced(stack), [block |-> b, next |-> 0]))
           = StandsAt(p + 1, stack)
<1> DEFINE mid == Advanced(stack)
           new == Append(mid, [block |-> b, next |-> 0])
           n == Len(stack)
<1>1. /\ mid \in Seq(Entry) /\ Len(mid) = n
      /\ \A k \in 1 .. n - 1 : mid[k] = stack[k]
      /\ mid[n].next = stack[n].next + 1
  BY AdvancedType
<1>2. /\ new \in Seq(Entry) /\ Len(new) = n + 1
      /\ \A k \in 1 .. n : new[k] = mid[k]
      /\ new[n + 1].next = 0
  <2> HIDE DEF mid
  <2> QED
    BY <1>1, AppendType
<1>3. Depth(p) \in 0 .. 3 /\ Base(p) \in Nat /\ n \in Nat
  BY DepthCases, StackType
<1>k. \A k \in 1 .. n : stack[k].next \in Nat /\ stack[k].next <= Pointers
  <2>1. \A k \in 1 .. n : stack[k].next \in 0 .. Pointers
    BY StackType
  <2> QED
    BY <2>1, Constants
<1> HIDE DEF mid, new
<1>4. CASE n = 1
  <2> DEFINE a == stack[1].next
  <2>1. a \in Nat /\ new[1].next - 1 = a /\ new[2].next = 0 /\ Len(new) = 2
    <3>1. new[1] = mid[1] /\ new[2].next = 0 /\ Len(new) = 2
      BY <1>2, <1>4
    <3>2. mid[1].next = a + 1 /\ a \in Nat
      BY <1>1, <1>k, <1>4
    <3> QED
      BY <3>1, <3>2
  <2> HIDE DEF a
  <2>2. CASE Depth(p) = 2
    <3>1. StandsAt(p + 1, new) = Base(p) + a * Pointers + 0
      BY <2>1, <2>2, <1>2, StandsDef
    <3>2. StandsAt(p + 1, stack) = Base(p) + a * Pointers
      BY <1>4, <2>2, StandsDef DEF a
    <3>3. a * Pointers \in Nat
      BY <2>1, Constants
    <3> QED
      BY <3>1, <3>2, <3>3, <1>3 DEF new, mid
  <2>3. CASE Depth(p) = 3
    <3>1. StandsAt(p + 1, new) = Base(p) + a * PointersSquared + 0 * Pointers
      BY <2>1, <2>3, <1>2, StandsDef
    <3>2. StandsAt(p + 1, stack) = Base(p) + a * PointersSquared
      BY <1>4, <2>3, StandsDef DEF a
    <3>3. a * PointersSquared \in Nat /\ 0 * Pointers = 0
      BY <2>1, Constants
    <3> QED
      BY <3>1, <3>2, <3>3, <1>3 DEF new, mid
  <2> QED
    BY <2>2, <2>3, <1>3, <1>4
<1>5. CASE n = 2
  <2> DEFINE a == stack[1].next
             c == stack[2].next
  <2>1. /\ a \in Nat /\ c \in Nat /\ new[1].next = a
        /\ new[2].next - 1 = c /\ new[3].next = 0 /\ Len(new) = 3
    <3>1. new[1] = mid[1] /\ new[2] = mid[2] /\ new[3].next = 0 /\ Len(new) = 3
      BY <1>2, <1>5
    <3>2. mid[1].next = a /\ mid[2].next = c + 1 /\ a \in Nat /\ c \in Nat
      BY <1>1, <1>k, <1>5
    <3> QED
      BY <3>1, <3>2
  <2> HIDE DEF a, c
  <2>2. StandsAt(p + 1, new) = Base(p) + (a - 1) * PointersSquared + c * Pointers + 0
    BY <2>1, <1>2, StandsDef
  <2>3. StandsAt(p + 1, stack) = Base(p) + (a - 1) * PointersSquared + c * Pointers
    BY <1>3, <1>5, StandsDef DEF a, c
  <2>4. (a - 1) * PointersSquared \in Int /\ c * Pointers \in Nat
    BY <2>1, Constants
  <2> QED
    BY <2>2, <2>3, <2>4, <1>3 DEF new, mid
<1>6. n = 1 \/ n = 2
  <2>1. PICK d \in 0 .. 3 : d = Depth(p)
    BY <1>3
  <2>2. n >= 1 /\ n < d
    BY <2>1
  <2> HIDE DEF n
  <2> QED
    BY <1>3, <2>2
<1>7. StandsAt(p + 1, new) = StandsAt(p + 1, stack)
  BY <1>4, <1>5, <1>6 DEF new, mid
<1> QED
  BY <1>7 DEF new, mid

\* The innermost level is full: nothing is passed either.
LEMMA StandsUp ==
  ASSUME NEW p \in BlockPointer, NEW stack \in Seq(Entry), NEW rest \in Seq(Entry),
         Len(stack) >= 1, Len(stack) <= Depth(p), stack[Len(stack)].next = Pointers,
         Len(rest) = Len(stack) - 1, \A k \in 1 .. Len(rest) : rest[k] = stack[k]
  PROVE  StandsAt(p + 1, rest) = StandsAt(p + 1, stack)
<1> DEFINE n == Len(stack)
<1>3. Depth(p) \in 0 .. 3 /\ Base(p) \in Nat /\ n \in Nat
  BY DepthCases, StackType
<1>k. \A k \in 1 .. n : stack[k].next \in Nat /\ stack[k].next <= Pointers
  <2>1. \A k \in 1 .. n : stack[k].next \in 0 .. Pointers
    BY StackType
  <2> QED
    BY <2>1, Constants
<1>4. CASE n = 1
  <2>1. StandsAt(p + 1, rest) = Base(p + 1)
    <3>1. Len(rest) = 0
      BY <1>4
    <3> QED
      BY <3>1, StandsDef
  <2>2. CASE Depth(p) = 1
    <3>1. StandsAt(p + 1, stack) = Base(p) + Pointers
      BY <1>4, <2>2, StandsDef
    <3> QED
      BY <2>1, <2>2, <3>1, DepthCases
  <2>3. CASE Depth(p) = 2
    <3>1. StandsAt(p + 1, stack) = Base(p) + PointersSquared
      BY <1>4, <2>3, StandsDef DEF PointersSquared
    <3> QED
      BY <2>1, <2>3, <3>1, DepthCases
  <2>4. CASE Depth(p) = 3
    <3>1. StandsAt(p + 1, stack) = Base(p) + Pointers * PointersSquared
      BY <1>4, <2>4, StandsDef
    <3> QED
      BY <2>1, <2>4, <3>1, DepthCases
  <2> QED
    BY <2>2, <2>3, <2>4, <1>3, <1>4
<1>5. CASE n = 2
  <2> DEFINE a == stack[1].next
  <2>1. a \in Nat /\ rest[1].next = a /\ Len(rest) = 1
    BY <1>5, <1>k
  <2> HIDE DEF a
  <2>2. CASE Depth(p) = 2
    <3>1. StandsAt(p + 1, stack) = Base(p) + (a - 1) * Pointers + Pointers
      BY <1>5, <2>2, StandsDef DEF a
    <3>2. StandsAt(p + 1, rest) = Base(p) + a * Pointers
      BY <2>1, <2>2, StandsDef
    <3>3. (a - 1) * Pointers + Pointers = a * Pointers /\ a * Pointers \in Nat
          /\ (a - 1) * Pointers \in Int
      BY <2>1, Constants
    <3> QED
      BY <3>1, <3>2, <3>3, <1>3, Constants
  <2>3. CASE Depth(p) = 3
    <3>1. StandsAt(p + 1, stack) = Base(p) + (a - 1) * PointersSquared + PointersSquared
      BY <1>5, <2>3, StandsDef DEF a, PointersSquared
    <3>2. StandsAt(p + 1, rest) = Base(p) + a * PointersSquared
      BY <2>1, <2>3, StandsDef
    <3>3. (a - 1) * PointersSquared + PointersSquared = a * PointersSquared
          /\ a * PointersSquared \in Nat /\ (a - 1) * PointersSquared \in Int
      BY <2>1, Constants
    <3> QED
      BY <3>1, <3>2, <3>3, <1>3, Constants
  <2> QED
    BY <2>2, <2>3, <1>3, <1>5
<1>6. CASE n = 3
  <2> DEFINE a == stack[1].next
             c == stack[2].next
  <2>1. a \in Nat /\ c \in Nat /\ rest[1].next = a /\ rest[2].next = c /\ Len(rest) = 2
    BY <1>6, <1>k
  <2> HIDE DEF a, c
  <2>2. StandsAt(p + 1, stack)
          = Base(p) + (a - 1) * PointersSquared + (c - 1) * Pointers + Pointers
    BY <1>6, StandsDef DEF a, c
  <2>3. StandsAt(p + 1, rest) = Base(p) + (a - 1) * PointersSquared + c * Pointers
    BY <2>1, <1>3, <1>6, StandsDef
  <2>4. (c - 1) * Pointers + Pointers = c * Pointers /\ c * Pointers \in Nat
        /\ (c - 1) * Pointers \in Int /\ (a - 1) * PointersSquared \in Int
    BY <2>1, Constants
  <2> QED
    BY <2>2, <2>3, <2>4, <1>3, Constants
<1> QED
  BY <1>3, <1>4, <1>5, <1>6

\* At the lowest level one block is passed, and its path is where the loops stand.
LEMMA StandsNext ==
  ASSUME NEW p \in BlockPointer, NEW stack \in Seq(Entry),
         Len(stack) >= 1, Len(stack) = Depth(p), stack[Len(stack)].next < Pointers,
         \A k \in 1 .. Len(stack) - 1 : stack[k].next >= 1
  PROVE  LET m == StandsAt(p + 1, stack)
             path == Path(m)
             n == Len(stack)
         IN  /\ m \in 0 .. Capacity - 1
             /\ StandsAt(p + 1, Advanced(stack)) = m + 1
             /\ Len(path) = n + 1 /\ path[1] = p /\ path[n + 1] = stack[n].next
             /\ \A k \in 1 .. n - 1 : path[k + 1] = stack[k].next - 1
<1> DEFINE m == StandsAt(p + 1, stack)
           new == Advanced(stack)
           n == Len(stack)
<1>1. /\ new \in Seq(Entry) /\ Len(new) = n
      /\ \A k \in 1 .. n - 1 : new[k] = stack[k]
      /\ new[n].next = stack[n].next + 1
  BY AdvancedType
<1>3. Depth(p) \in 0 .. 3 /\ Base(p) \in Nat /\ n \in Nat
  BY DepthCases, StackType
<1>k. \A k \in 1 .. n : stack[k].next \in Nat /\ stack[k].next <= Pointers
  <2>1. \A k \in 1 .. n : stack[k].next \in 0 .. Pointers
    BY StackType
  <2> QED
    BY <2>1, Constants
<1> HIDE DEF new
<1>4. CASE n = 1
  <2> DEFINE c == stack[1].next
             a == p - N_DBLOCKS
  <2>1. c \in 0 .. Pointers - 1 /\ new[1].next = c + 1
    BY <1>1, <1>4, <1>k, Constants
  <2>2. a \in 0 .. N_IBLOCKS - 1 /\ Base(p) = N_DBLOCKS + a * Pointers /\ p = N_DBLOCKS + a
    <3>1. a \in 0 .. N_IBLOCKS - 1 /\ Base(p) = N_DBLOCKS + a * Pointers
      BY <1>4, DepthCases
    <3>2. p \in Int
      BY Constants DEF BlockPointer
    <3> QED
      BY <3>1, <3>2, Constants
  <2> HIDE DEF c, a
  <2>d. Depth(p) = 1 /\ new \in Seq(Entry) /\ Len(new) = 1
    BY <1>1, <1>4
  <2>3. m = N_DBLOCKS + a * Pointers + c
    <3>1. m = Base(p) + stack[1].next
      BY <1>4, <2>d, StandsDef
    <3> QED
      BY <3>1, <2>2 DEF c
  <2>4. StandsAt(p + 1, new) = N_DBLOCKS + a * Pointers + (c + 1)
    <3>1. StandsAt(p + 1, new) = Base(p) + new[1].next
      BY <2>d, StandsDef
    <3> QED
      BY <3>1, <2>1, <2>2
  <2>5. m \in 0 .. DoubleStart - 1 /\ Path(m) = <<N_DBLOCKS + a, c>>
    <3> HIDE DEF m
    <3> QED
      BY <2>1, <2>2, <2>3, SinglePath
  <2>6. a * Pointers \in Nat
    BY <2>2, Constants
  <2>7. m \in 0 .. Capacity - 1 /\ StandsAt(p + 1, new) = m + 1
    <3> HIDE DEF m
    <3>1. m \in 0 .. Capacity - 1
      BY <2>5, Starts, Constants
    <3>2. c \in Int /\ N_DBLOCKS \in Int
      BY <2>1, Constants
    <3>3. StandsAt(p + 1, new) = m + 1
      BY <2>3, <2>4, <2>6, <3>2
    <3> QED
      BY <3>1, <3>3
  <2>8. Len(Path(m)) = 2 /\ Path(m)[1] = p /\ Path(m)[2] = c
    BY <2>2, <2>5
  <2> QED
    BY <1>4, <2>7, <2>8 DEF new, c
<1>5. CASE n = 2
  <2> DEFINE a == stack[1].next - 1
             c == stack[2].next
  <2>1. /\ a \in 0 .. Pointers - 1 /\ c \in 0 .. Pointers - 1
        /\ new[1].next - 1 = a /\ new[2].next = c + 1
    <3>1. stack[1].next >= 1
      BY <1>5
    <3>2. new[1] = stack[1] /\ new[2].next = c + 1
      BY <1>1, <1>5
    <3>3. stack[1].next \in Nat /\ stack[1].next <= Pointers /\ c \in Nat /\ c < Pointers
      BY <1>5, <1>k
    <3>4. Pointers \in Nat
      BY Constants
    <3> HIDE DEF c
    <3> QED
      BY <3>1, <3>2, <3>3, <3>4
  <2>2. Base(p) = DoubleStart /\ p = N_DBLOCKS + N_IBLOCKS
    BY <1>5, DepthCases
  <2> HIDE DEF c, a
  <2>d. Depth(p) = 2 /\ new \in Seq(Entry) /\ Len(new) = 2
    BY <1>1, <1>5
  <2>3. m = DoubleStart + a * Pointers + c
    <3>1. m = Base(p) + (stack[1].next - 1) * Pointers + stack[2].next
      BY <1>5, <2>d, StandsDef
    <3> QED
      BY <3>1, <2>2 DEF a, c
  <2>4. StandsAt(p + 1, new) = DoubleStart + a * Pointers + (c + 1)
    <3>1. StandsAt(p + 1, new) = Base(p) + (new[1].next - 1) * Pointers + new[2].next
      BY <2>d, StandsDef
    <3> QED
      BY <3>1, <2>1, <2>2
  <2>5. m \in DoubleStart .. TripleStart - 1 /\ Path(m) = <<N_DBLOCKS + N_IBLOCKS, a, c>>
    <3> HIDE DEF m
    <3> QED
      BY <2>1, <2>3, DoublePath
  <2>6. a * Pointers \in Nat
    BY <2>1, Constants
  <2>7. m \in 0 .. Capacity - 1 /\ StandsAt(p + 1, new) = m + 1
    <3> HIDE DEF m
    <3>1. m \in 0 .. Capacity - 1
      BY <2>5, Starts
    <3>2. c \in Int /\ DoubleStart \in Int
      BY <2>1, Starts
    <3>3. StandsAt(p + 1, new) = m + 1
      BY <2>3, <2>4, <2>6, <3>2
    <3> QED
      BY <3>1, <3>3
  <2>8. Len(Path(m)) = 3 /\ Path(m)[1] = p /\ Path(m)[2] = a /\ Path(m)[3] = c
    BY <2>2, <2>5
  <2> QED
    BY <1>5, <2>7, <2>8 DEF new, c, a
<1>6. CASE n = 3
  <2> DEFINE a == stack[1].next - 1
             b == stack[2].next - 1
             c == stack[3].next
  <2>1. /\ a \in 0 .. Pointers - 1 /\ b \in 0 .. Pointers - 1 /\ c \in 0 .. Pointers - 1
        /\ new[1].next - 1 = a /\ new[2].next - 1 = b /\ new[3].next = c + 1
    <3>1. stack[1].next >= 1 /\ stack[2].next >= 1
      BY <1>6
    <3>2. new[1] = stack[1] /\ new[2] = stack[2] /\ new[3].next = c + 1
      BY <1>1, <1>6
    <3>3. /\ stack[1].next \in Nat /\ stack[1].next <= Pointers
          /\ stack[2].next \in Nat /\ stack[2].next <= Pointers
          /\ c \in Nat /\ c < Pointers
      BY <1>6, <1>k
    <3>4. Pointers \in Nat
      BY Constants
    <3> HIDE DEF c
    <3>5. a \in 0 .. Pointers - 1
      BY <3>1, <3>3, <3>4
    <3>6. b \in 0 .. Pointers - 1
      BY <3>1, <3>3, <3>4
    <3>7. c \in 0 .. Pointers - 1
      BY <3>3, <3>4
    <3> QED
      BY <3>2, <3>5, <3>6, <3>7
  <2>2. Base(p) = TripleStart /\ p = N_DBLOCKS + N_IBLOCKS + 1
    BY <1>6, DepthCases
  <2> HIDE DEF a, b, c
  <2>3. m = TripleStart + a * PointersSquared + b * Pointers + c
    BY <1>6, <2>2, StandsDef DEF a, b, c
  <2>4. StandsAt(p + 1, new) = TripleStart + a * PointersSquared + b * Pointers + (c + 1)
    <3>1. new \in Seq(Entry) /\ Len(new) = 3
      BY <1>1, <1>6
    <3>2. StandsAt(p + 1, new) = Base(p) + (new[1].next - 1) * PointersSquared
                                 + (new[2].next - 1) * Pointers + new[3].next
      BY <3>1, StandsDef
    <3> QED
      BY <3>2, <2>1, <2>2
  <2>5. /\ m \in TripleStart .. Capacity - 1
        /\ Path(m) = <<N_DBLOCKS + N_IBLOCKS + 1, a, b, c>>
    <3> HIDE DEF m
    <3> QED
      BY <2>1, <2>3, TriplePath
  <2>6. a * PointersSquared \in Nat /\ b * Pointers \in Nat
    <3>1. a \in Nat /\ b \in Nat
      BY <2>1, Constants
    <3>2. Pointers \in Nat /\ PointersSquared \in Nat
      BY Constants
    <3> HIDE DEF m
    <3>3. \A i, j \in Nat : i * j \in Nat
      OBVIOUS
    <3> QED
      BY <3>1, <3>2, <3>3, Zenon
  <2>7. m \in 0 .. Capacity - 1 /\ StandsAt(p + 1, new) = m + 1
    <3> HIDE DEF m
    <3>1. m \in 0 .. Capacity - 1
      BY <2>5, Starts
    <3>2. c \in Int /\ TripleStart \in Int
      BY <2>1, Starts
    <3>3. StandsAt(p + 1, new) = m + 1
      BY <2>3, <2>4, <2>6, <3>2
    <3> QED
      BY <3>1, <3>3
  <2>8. Len(Path(m)) = 4 /\ Path(m)[1] = p /\ Path(m)[2] = a /\ Path(m)[3] = b /\ Path(m)[4] = c
    BY <2>2, <2>5
  <2> QED
    BY <1>6, <2>7, <2>8 DEF new, a, b, c
<1> QED
  BY <1>3, <1>4, <1>5, <1>6

\* The copy mid in which the block b has just been entered, under the blocks of
\* stack that are open then.
Entered(mid, b, stack) ==
  LET ip == InodeAt(mid, job.pos)
      at(k) == IF k <= Len(stack) THEN stack[k].block ELSE b
  IN  /\ mid \in Raw /\ InodesFirst(mid)
      /\ \A q \in InodePos \ {job.pos} : InodeAt(mid, q) = InodeAt(rawdata, q)
      /\ \A c \in Block \ InodeBlocks :
           mid[c] = rawdata[c] \/ \E k \in DOMAIN open : c = open[k].block
      /\ ip.nlink = 1 /\ ip.owner = job.owner
      /\ \A p \in BlockPointer : p < pointer => ip.ptr[p] = Current.ptr[p]
      /\ \A k \in DOMAIN open : \A j \in 0 .. open[k].next - 1 :
           /\ mid[open[k].block].kind = "pointers"
           /\ mid[open[k].block].ptr[j] = rawdata[open[k].block].ptr[j]
      /\ stack \in Seq(Entry)
      /\ \A k \in 1 .. Len(stack) :
           /\ k \in DOMAIN open /\ stack[k].block = open[k].block
           /\ open[k].next <= stack[k].next /\ stack[k].next >= 1
      /\ pointer' \in 1 .. N_DBLOCKS + N_IBLOCKS + 2 /\ pointer <= pointer'
      /\ ip.ptr[pointer' - 1] = at(1)
      /\ \A k \in 1 .. Len(stack) :
           /\ mid[stack[k].block].kind = "pointers"
           /\ mid[stack[k].block].ptr[stack[k].next - 1] = at(k + 1)

LEMMA PointerRange ==
  ASSUME NEW q \in 1 .. N_DBLOCKS + N_IBLOCKS + 2
  PROVE  q - 1 \in BlockPointer /\ (q - 1) + 1 = q /\ q >= 1
<1>1. N_DBLOCKS \in Nat /\ N_IBLOCKS \in Nat
  BY Constants
<1> QED
  BY <1>1 DEF BlockPointer

LEMMA EnteredCopy ==
  ASSUME ImageInv, pc = "place", ~eof, NEW b \in Free, NEW mid, NEW level, NEW stack,
         Entered(mid, b, stack), UseBlock(mid, b, level, stack),
         UNCHANGED <<image, pc, job, written, extracted, placed>>
  PROVE  /\ Current' = InodeAt(mid, job.pos)
         /\ \A k \in DOMAIN open : rawdata'[open[k].block] = mid[open[k].block]
         /\ \A c \in Own : rawdata'[c] = mid[c]
         /\ Undisturbed
<1>1. /\ TypeOK /\ RunInv /\ SeparateInv /\ LoopInv /\ StateFacts
  BY StateType DEF ImageInv
<1>2. mid \in Raw /\ InodesFirst(mid)
  BY DEF Entered
<1>3. /\ \A c \in Block \ {b} : rawdata'[c] = mid[c]
      /\ \A q \in InodePos : InodeAt(rawdata', q) = InodeAt(mid, q)
      /\ bitmap' = bitmap \cup {b}
  BY <1>1, <1>2, BlockUsed
<1>4. /\ b \notin Own
      /\ \A k \in DOMAIN open : open[k].block # b
  BY <1>1, <1>3, OwnGrows
<1>5. \A k \in DOMAIN open : open[k].block \in Own
  BY <1>1 DEF SeparateInv
<1>6. \A c \in Own : c \in Block /\ c \notin InodeBlocks
  BY <1>1 DEF Own, StateFacts
<1>7. Current' = InodeAt(mid, job.pos)
  BY <1>1, <1>3 DEF Current, StateFacts
<1>8. \A c \in Own : rawdata'[c] = mid[c]
  BY <1>3, <1>4, <1>6
<1>9. \A k \in DOMAIN open : rawdata'[open[k].block] = mid[open[k].block]
  BY <1>5, <1>8
<1>10. Undisturbed
  <2>1. \A p \in BlockPointer : p < pointer => Current'.ptr[p] = Current.ptr[p]
    BY <1>7 DEF Entered
  <2>2. \A c \in Own : rawdata'[c] = rawdata[c] \/ \E k \in DOMAIN open : c = open[k].block
    BY <1>6, <1>8 DEF Entered
  <2>3. \A k \in DOMAIN open : \A j \in 0 .. open[k].next - 1 :
          /\ rawdata'[open[k].block].kind = "pointers"
          /\ rawdata'[open[k].block].ptr[j] = rawdata[open[k].block].ptr[j]
    BY <1>9 DEF Entered
  <2> QED
    BY <2>1, <2>2, <2>3 DEF Undisturbed
<1> QED
  BY <1>7, <1>8, <1>9, <1>10

LEMMA EnteredKeepsImage ==
  ASSUME ImageInv, pc = "place", ~eof, NEW b \in Free, NEW mid, NEW level, NEW stack,
         Entered(mid, b, stack), UseBlock(mid, b, level, stack),
         UNCHANGED <<image, pc, job, written, extracted, placed>>,
         Len(stack) <= 3, level # 0 => Len(stack) <= 2
  PROVE  (TypeOK /\ RunInv /\ SeparateInv /\ KeptInv /\ ExtractReturnsFiles)'
<1>1. /\ TypeOK /\ RunInv /\ SeparateInv /\ LoopInv /\ StateFacts
  BY StateType DEF ImageInv
<1>2. mid \in Raw /\ InodesFirst(mid) /\ stack \in Seq(Entry)
  BY DEF Entered
<1>3. /\ bitmap' = bitmap \cup {b}
      /\ rawdata' \in Raw /\ InodesFirst(rawdata')
      /\ \A c \in Block \ {b} : rawdata'[c] = mid[c]
      /\ \A q \in InodePos : InodeAt(rawdata', q) = InodeAt(mid, q)
      /\ level = 0 => open' = stack /\ nbytes' \in Nat /\ eof' \in BOOLEAN
      /\ level # 0 => /\ open' = Append(stack, [block |-> b, next |-> 0])
                      /\ UNCHANGED <<nbytes, eof>>
  BY <1>1, <1>2, BlockUsed
<1>4. /\ Disk' = Disk /\ Others' = Others /\ Reached' = Reached
      /\ Own' = Own \cup {b}
      /\ b \in Block /\ b \notin Reached
  BY <1>1, <1>3, OwnGrows
<1>5. /\ open' \in Seq(Entry) /\ Len(open') <= 3
      /\ \A k \in 1 .. Len(open') : open'[k].block \in Own'
  <2>1. \A k \in 1 .. Len(stack) : stack[k].block \in Own'
    BY <1>1, <1>4 DEF Entered, SeparateInv
  <2>2. CASE level = 0
    BY <2>1, <2>2, <1>2, <1>3
  <2>3. CASE level # 0
    <3> DEFINE new == Append(stack, [block |-> b, next |-> 0])
    <3>1. /\ new \in Seq(Entry) /\ Len(new) = Len(stack) + 1
          /\ \A k \in 1 .. Len(stack) : new[k] = stack[k]
          /\ new[Len(stack) + 1].block = b
      BY <1>2, <1>4, AppendType
    <3>2. Len(stack) \in Nat
      BY <1>2
    <3> HIDE DEF new
    <3>3. \A k \in 1 .. Len(new) : k \in 1 .. Len(stack) \/ k = Len(stack) + 1
      BY <3>1, <3>2
    <3>4. \A k \in 1 .. Len(new) : new[k].block \in Own'
      BY <2>1, <3>1, <3>3, <1>4
    <3>5. open' = new
      BY <2>3, <1>3 DEF new
    <3> QED
      BY <2>3, <3>1, <3>2, <3>4, <3>5
  <2> QED
    BY <2>2, <2>3
<1>6. TypeOK'
  <2>1. rawdata' \in [Block -> Content] /\ \A c \in Block : c < iblocks <=> rawdata'[c].kind = "inodes"
    BY <1>3 DEF Raw, InodesFirst
  <2>2. open' \in Seq([block : Block, next : 0 .. Pointers]) /\ Len(open') <= 3
    BY <1>5 DEF Entry
  <2>3. /\ bitmap' \subseteq Block /\ InodeBlocks \subseteq bitmap'
        /\ pointer' \in 0 .. N_DBLOCKS + N_IBLOCKS + 2
    <3>1. pointer' \in 1 .. N_DBLOCKS + N_IBLOCKS + 2
      BY DEF Entered
    <3>2. pointer' \in 0 .. N_DBLOCKS + N_IBLOCKS + 2
      BY <3>1, Constants
    <3> QED
      BY <3>2, <1>1, <1>3, <1>4 DEF TypeOK
  <2>4. nbytes' \in Nat
    BY <1>1, <1>3 DEF TypeOK
  <2>5. eof' \in BOOLEAN
    <3>1. CASE level = 0
      BY <3>1, <1>3
    <3>2. CASE level # 0
      <4>1. eof' = eof /\ eof \in BOOLEAN
        BY <3>2, <1>1, <1>3 DEF TypeOK
      <4> QED
        BY <4>1, Zenon
    <3> QED
      BY <3>1, <3>2
  <2>6. /\ image' \in Seq(Content) /\ Len(image') <= nblocks
        /\ pc' \in {"idle", "place", "write", "astray"}
        /\ job' \in [command : {"none"}]
            \cup [command : {"create", "insert"}, file : Files, owner : Owners,
                  pos : InodePos]
        /\ written' \in 0 .. nblocks
        /\ placed' \in [InodePos -> (Files \X Owners) \cup {NoFile}]
    BY <1>1 DEF TypeOK
  <2> QED
    BY <2>1, <2>2, <2>3, <2>4, <2>5, <2>6 DEF TypeOK
<1>7. RunInv'
  BY <1>1, <1>4 DEF RunInv
<1>8. SeparateInv'
  <2>1. Reached' \ {Wild} \subseteq bitmap'
    BY <1>1, <1>3, <1>4 DEF SeparateInv
  <2>2. ASSUME NEW c \in Block \ InodeBlocks, rawdata'[c] # Disk'[c]
        PROVE  c \notin Reached'
    <3>1. CASE c = b
      BY <3>1, <1>4
    <3>2. CASE c # b /\ mid[c] = rawdata[c]
      BY <3>2, <2>2, <1>1, <1>3, <1>4 DEF SeparateInv
    <3>3. CASE \E k \in DOMAIN open : c = open[k].block
      BY <3>3, <1>1, <1>4 DEF SeparateInv, Own
    <3> QED
      BY <3>1, <3>2, <3>3 DEF Entered
  <2>3. \A q \in InodePos \ {job'.pos} : InodeAt(rawdata', q) = InodeAt(Disk', q)
    BY <1>1, <1>3, <1>4 DEF SeparateInv, Entered
  <2>4. \A i \in DOMAIN open' : open'[i].block \in Own'
    BY <1>5
  <2> QED
    BY <2>1, <2>2, <2>3, <2>4 DEF SeparateInv
<1>9. KeptInv'
  <2>1. Placed' = Placed
    BY DEF Placed
  <2>2. FileInv'
    BY <2>1, <1>4 DEF ImageInv, KeptInv, FileInv
  <2>3. BlocksApart'
    BY <2>1, <1>4 DEF ImageInv, KeptInv, BlocksApart, Disk
  <2> QED
    BY <2>1, <2>2, <2>3 DEF ImageInv, KeptInv
<1>10. ExtractReturnsFiles'
  <2>1. Placed' = Placed
    BY DEF Placed
  <2> QED
    BY <2>1 DEF ImageInv, ExtractReturnsFiles
<1> QED
  BY <1>6, <1>7, <1>8, <1>9, <1>10

\* The open blocks lead to the new one.
Links(b, stack) ==
  LET at(k) == IF k <= Len(stack) THEN stack[k].block ELSE b
      n == Len(stack)
  IN  /\ n \in Nat /\ Current'.ptr[pointer' - 1] = at(1)
      /\ \A k \in 1 .. n : /\ stack[k].block # b /\ stack[k].block \in Own
                           /\ rawdata'[stack[k].block].kind = "pointers"
                           /\ rawdata'[stack[k].block].ptr[stack[k].next - 1] = at(k + 1)
      /\ \A i, j \in 1 .. n : stack[i].block = stack[j].block => i = j
      /\ b \in Own' /\ Own \subseteq Own' /\ b \notin Own
      /\ Current'.nlink = 1 /\ Current'.owner = job'.owner

LEMMA EnteredLinks ==
  ASSUME ImageInv, pc = "place", ~eof, NEW b \in Free, NEW mid, NEW level, NEW stack,
         Entered(mid, b, stack), UseBlock(mid, b, level, stack),
         UNCHANGED <<image, pc, job, written, extracted, placed>>
  PROVE  Links(b, stack)
<1> DEFINE n == Len(stack)
           at(k) == IF k <= n THEN stack[k].block ELSE b
<1>1. /\ TypeOK /\ RunInv /\ SeparateInv /\ StateFacts /\ LoopInv /\ ChainInv
  BY StateType DEF ImageInv
<1>2. /\ Current' = InodeAt(mid, job.pos)
      /\ \A k \in DOMAIN open : rawdata'[open[k].block] = mid[open[k].block]
  BY EnteredCopy
<1>3. bitmap' = bitmap \cup {b}
  BY DEF UseBlock
<1>4. /\ Own' = Own \cup {b} /\ b \notin Own
      /\ \A k \in DOMAIN open : open[k].block # b
  BY <1>1, <1>3, OwnGrows
<1>5. /\ stack \in Seq(Entry)
      /\ \A k \in 1 .. n : k \in DOMAIN open /\ stack[k].block = open[k].block
      /\ Current'.ptr[pointer' - 1] = at(1)
      /\ \A k \in 1 .. n : /\ mid[stack[k].block].kind = "pointers"
                           /\ mid[stack[k].block].ptr[stack[k].next - 1] = at(k + 1)
      /\ Current'.nlink = 1 /\ Current'.owner = job.owner
  BY <1>2 DEF Entered
<1> HIDE DEF at
<1>6. n \in Nat
  BY <1>5
<1>7. ASSUME NEW k \in 1 .. n
      PROVE  /\ stack[k].block # b /\ stack[k].block \in Own
             /\ rawdata'[stack[k].block].kind = "pointers"
             /\ rawdata'[stack[k].block].ptr[stack[k].next - 1] = at(k + 1)
  <2>1. k \in DOMAIN open /\ stack[k].block = open[k].block
    BY <1>5
  <2>2. rawdata'[stack[k].block] = mid[stack[k].block]
    BY <2>1, <1>2
  <2> QED
    BY <2>1, <2>2, <1>1, <1>4, <1>5 DEF SeparateInv
<1>8. \A i, j \in 1 .. n : stack[i].block = stack[j].block => i = j
  BY <1>1, <1>5 DEF ChainInv
<1> QED
  BY <1>4, <1>5, <1>6, <1>7, <1>8 DEF at, Links

LEMMA EnteredKeepsOld ==
  ASSUME ImageInv, pc = "place", ~eof, NEW b \in Free, NEW mid, NEW level, NEW stack,
         Entered(mid, b, stack), UseBlock(mid, b, level, stack),
         UNCHANGED <<image, pc, job, written, extracted, placed>>,
         NEW m \in 0 .. Capacity - 1, m < Allocated
  PROVE  Reachable(m)'
<1> DEFINE n == Len(stack)
           new == Append(stack, [block |-> b, next |-> 0])
<1>1. /\ TypeOK /\ RunInv /\ SeparateInv /\ ChainInv /\ PlacedInv /\ StateFacts /\ LoopInv
  BY StateType DEF ImageInv
<1>2. Undisturbed
  BY EnteredCopy
<1>3. Own \subseteq Own' /\ b \notin Own /\ b \in Block
  BY EnteredLinks DEF Links, Free
<1>4. pointer \in Int /\ pointer' \in Int /\ pointer <= pointer'
  BY <1>1, Constants DEF TypeOK, Entered
<1>5. /\ stack \in Seq(Entry)
      /\ \A k \in 1 .. n : /\ k \in DOMAIN open /\ stack[k].block = open[k].block
                           /\ open[k].next <= stack[k].next
  BY DEF Entered
<1>6. n \in Nat /\ \A k \in 1 .. n : stack[k].next \in Int
  <2>1. n \in Nat /\ \A k \in 1 .. n : stack[k].next \in 0 .. Pointers
    BY <1>5, StackType
  <2> QED
    BY <2>1, Constants
<1>7. open' = stack \/ open' = new
  BY DEF UseBlock
<1>8. \A k \in DOMAIN open' :
        \/ open'[k].block \notin Own
        \/ /\ k \in DOMAIN open /\ open'[k].block = open[k].block
           /\ open'[k].next \in Int /\ open[k].next <= open'[k].next
  <2>1. CASE open' = stack
    <3>1. DOMAIN stack = 1 .. n
      BY <1>5
    <3> QED
      BY <2>1, <3>1, <1>5, <1>6
  <2>2. CASE open' = new
    <3>1. /\ new \in Seq(Entry) /\ Len(new) = n + 1
          /\ \A k \in 1 .. n : new[k] = stack[k]
          /\ new[n + 1].block = b
      BY <1>3, <1>5, AppendType
    <3> HIDE DEF new
    <3>2. DOMAIN new = 1 .. n + 1
      BY <3>1
    <3>3. \A k \in DOMAIN new : k \in 1 .. n \/ k = n + 1
      BY <3>2, <1>6
    <3> QED
      BY <2>2, <3>1, <3>3, <1>3, <1>5, <1>6
  <2> QED
    BY <1>7, <2>1, <2>2
<1> QED
  BY <1>1, <1>2, <1>3, <1>4, <1>8, OldStaysReachable

\* A new block of pointers.
LEMMA PointersEntered ==
  ASSUME ImageInv, pc = "place", ~eof, NEW b \in Free, NEW mid, NEW level, NEW stack,
         Entered(mid, b, stack), UseBlock(mid, b, level, stack),
         UNCHANGED <<image, pc, job, written, extracted, placed>>,
         level # 0, Len(stack) <= 2, Len(stack) < Depth(pointer' - 1),
         StandsAt(pointer', Append(stack, [block |-> b, next |-> 0])) = Position
  PROVE  ImageInv'
<1> DEFINE n == Len(stack)
           new == Append(stack, [block |-> b, next |-> 0])
           at(k) == IF k <= n THEN stack[k].block ELSE b
<1>1. (TypeOK /\ RunInv /\ SeparateInv /\ KeptInv /\ ExtractReturnsFiles)'
  <2>1. Len(stack) <= 3
    <3>1. stack \in Seq(Entry)
      BY DEF Entered
    <3> QED
      BY <3>1
  <2> QED
    BY <2>1, EnteredKeepsImage
<1>2. open' = new /\ nbytes' = nbytes /\ eof' = eof
  BY DEF UseBlock
<1>3. /\ stack \in Seq(Entry) /\ n \in Nat /\ b \in Block
      /\ pointer' \in 1 .. N_DBLOCKS + N_IBLOCKS + 2
  BY EnteredLinks DEF Links, Entered, Free
<1>4. /\ new \in Seq(Entry) /\ Len(new) = n + 1
      /\ \A k \in 1 .. n : new[k] = stack[k]
      /\ new[n + 1].block = b /\ new[n + 1].next = 0
  BY <1>3, AppendType
<1>5. /\ Current'.ptr[pointer' - 1] = at(1)
      /\ \A k \in 1 .. n : /\ stack[k].block # b
                           /\ rawdata'[stack[k].block].kind = "pointers"
                           /\ rawdata'[stack[k].block].ptr[stack[k].next - 1] = at(k + 1)
      /\ \A i, j \in 1 .. n : stack[i].block = stack[j].block => i = j
      /\ Current'.nlink = 1 /\ Current'.owner = job'.owner
  BY EnteredLinks DEF Links
<1> HIDE DEF new
<1>6. DOMAIN new = 1 .. n + 1 /\ \A k \in 1 .. n + 1 : k \in 1 .. n \/ k = n + 1
  BY <1>3, <1>4
<1>7. \A k \in 1 .. n + 1 : new[k].block = at(k)
  BY <1>3, <1>4, <1>6
<1> HIDE DEF at
<1>8. LoopInv'
  <2>1. pointer' >= 1 /\ Len(open') <= Depth(pointer' - 1)
    <3>1. pointer' - 1 \in BlockPointer
      BY <1>3, PointerRange
    <3>2. PICK d \in 0 .. 3 : d = Depth(pointer' - 1)
      BY <3>1, DepthCases
    <3>3. n < d
      BY <3>2
    <3>4. n + 1 <= d
      BY <3>3, <1>3
    <3>5. pointer' >= 1
      BY <1>3, Constants
    <3> QED
      BY <3>2, <3>4, <3>5, <1>2, <1>4
  <2>2. Position' = Position
    BY <1>2 DEF Position, new
  <2>3. Allocated' = Allocated
    BY <1>2 DEF Allocated
  <2> QED
    BY <1>2, <1>5, <2>1, <2>2, <2>3 DEF ImageInv, LoopInv
<1>9. ChainInv'
  <2>1. new[1].block = Current'.ptr[pointer' - 1]
    BY <1>3, <1>5, <1>7
  <2>2. \A k \in DOMAIN new : new[k].next >= 1 => rawdata'[new[k].block].kind = "pointers"
    BY <1>4, <1>5, <1>6
  <2>3. ASSUME NEW k \in 1 .. Len(new) - 1
        PROVE  /\ new[k].next >= 1
               /\ rawdata'[new[k].block].ptr[new[k].next - 1] = new[k + 1].block
    <3>1. k \in 1 .. n /\ k + 1 \in 1 .. n + 1
      BY <1>3, <1>4
    <3>2. new[k] = stack[k] /\ new[k + 1].block = at(k + 1)
      BY <3>1, <1>4, <1>7
    <3>3. stack[k].next >= 1
      BY <3>1 DEF Entered
    <3> QED
      BY <3>1, <3>2, <3>3, <1>5
  <2>4. \A i, j \in DOMAIN new : new[i].block = new[j].block => i = j
    BY <1>4, <1>5, <1>6
  <2> QED
    BY <1>2, <2>1, <2>2, <2>3, <2>4 DEF ChainInv
<1>10. PlacedInv'
  <2>1. Allocated' = Allocated
    BY <1>2 DEF Allocated
  <2>2. \A m \in 0 .. Capacity - 1 : m < Allocated => Reachable(m)'
    BY EnteredKeepsOld
  <2> QED
    BY <2>1, <2>2 DEF PlacedInv
<1> QED
  BY <1>1, <1>8, <1>9, <1>10 DEF ImageInv

\* A new block of data.
LEMMA DataReachable ==
  ASSUME ImageInv, pc = "place", ~eof, NEW b \in Free, NEW mid, NEW stack,
         Entered(mid, b, stack), UseBlock(mid, b, 0, stack),
         UNCHANGED <<image, pc, job, written, extracted, placed>>,
         NEW m \in 0 .. Capacity - 1, m = nbytes \div BLOCK_SZ,
         Len(Path(m)) = Len(stack) + 1, Path(m)[1] = pointer' - 1,
         \A k \in 1 .. Len(stack) : Path(m)[k + 1] = stack[k].next - 1
  PROVE  Reachable(m)'
<1> DEFINE n == Len(stack)
           at(k) == IF k <= n THEN stack[k].block ELSE b
           path == Path(m)
           node == Nodes(rawdata', Current', path)
<1>1. /\ n \in Nat /\ Current'.ptr[pointer' - 1] = at(1)
      /\ \A k \in 1 .. n : /\ stack[k].block # b /\ stack[k].block \in Own
                           /\ rawdata'[stack[k].block].kind = "pointers"
                           /\ rawdata'[stack[k].block].ptr[stack[k].next - 1] = at(k + 1)
      /\ \A i, j \in 1 .. n : stack[i].block = stack[j].block => i = j
      /\ b \in Own' /\ Own \subseteq Own'
  BY EnteredLinks DEF Links
<1>2. /\ TypeOK /\ RunInv /\ LoopInv /\ StateFacts
  BY StateType DEF ImageInv
<1>3. mid \in Raw /\ InodesFirst(mid) /\ stack \in Seq(Entry)
      /\ pointer' \in 1 .. N_DBLOCKS + N_IBLOCKS + 2
  BY DEF Entered
<1>4. /\ open' = stack
      /\ nbytes < FileSize[job.file] =>
           rawdata'[b] = DataBlock(job.file, nbytes \div BLOCK_SZ)
  BY <1>2, <1>3, BlockUsed
<1>5. \A c \in Own : c # Wild
  BY <1>2, Constants DEF Own, StateFacts
<1>6. n + 1 \in 1 .. 4 /\ n \in 0 .. 3
  <2>1. n + 1 \in 1 .. 4
    BY PathType
  <2> HIDE DEF n
  <2> QED
    BY <2>1, <1>1
<1>7. /\ node[1] = Current'.ptr[path[1]]
      /\ \A i \in 1 .. n : node[i + 1] = read_int(rawdata', node[i], path[i + 1])
  <2>1. Len(path) - 1 = n /\ Len(path) \in 1 .. 4
    <3>1. Len(path) = n + 1
      OBVIOUS
    <3> HIDE DEF path, n
    <3> QED
      BY <3>1, <1>6
  <2> HIDE DEF path, n
  <2> QED
    BY <2>1, WalkDef
<1>8. \A k \in 1 .. n : at(k) = stack[k].block
  BY <1>1
<1>9. at(n + 1) = b
  BY <1>1
<1> HIDE DEF node, at
<1>10. node[1] = at(1)
  BY <1>1, <1>7
<1>11. ASSUME NEW k \in 1 .. n, node[k] = at(k)
       PROVE  node[k + 1] = at(k + 1)
  <2>1. node[k] = stack[k].block
    BY <1>8, <1>11
  <2>2. node[k + 1] = rawdata'[stack[k].block].ptr[path[k + 1]]
    BY <2>1, <1>1, <1>5, <1>7 DEF read_int
  <2> QED
    BY <2>2, <1>1
<1> HIDE DEF n
<1>12. \A k \in 1 .. n + 1 : node[k] = at(k)
  <2>1. 1 <= n => node[2] = at(2)
    BY <1>6, <1>10, <1>11
  <2>2. 2 <= n => node[3] = at(3)
    BY <1>6, <2>1, <1>11
  <2>3. 3 <= n => node[4] = at(4)
    BY <1>6, <2>2, <1>11
  <2> QED
    BY <1>6, <1>10, <2>1, <2>2, <2>3
<1>13. ASSUME NEW i \in 1 .. n + 1
       PROVE  /\ node[i] \in Own'
              /\ \A k \in DOMAIN open' : node[i] = open'[k].block =>
                   i = k /\ i < n + 1 /\ path[i + 1] < open'[k].next
  <2>1. DOMAIN open' = 1 .. n
    BY <1>3, <1>4 DEF n
  <2>2. CASE i = n + 1
    BY <2>1, <2>2, <1>1, <1>4, <1>9, <1>12
  <2>3. CASE i \in 1 .. n
    <3>1. node[i] = stack[i].block /\ stack[i].block \in Own'
      BY <2>3, <1>1, <1>8, <1>12
    <3>2. path[i + 1] < stack[i].next
      <4>1. path[i + 1] = stack[i].next - 1
        BY <2>3 DEF n
      <4>2. stack[i].next \in 0 .. Pointers
        BY <2>3, <1>3, StackType DEF n
      <4>3. \A x \in Nat : x - 1 < x
        OBVIOUS
      <4> QED
        BY <4>1, <4>2, <4>3, Constants
    <3>3. i < n + 1
      BY <2>3, <1>6
    <3> QED
      BY <2>1, <2>3, <3>1, <3>2, <3>3, <1>1, <1>4
  <2> QED
    BY <2>2, <2>3, <1>6
<1>14. node[n + 1] = b
  BY <1>6, <1>9, <1>12
<1>15. path[1] < pointer'
  <2>1. N_DBLOCKS \in Nat /\ N_IBLOCKS \in Nat
    BY Constants
  <2> QED
    BY <2>1, <1>3
<1>16. m * BLOCK_SZ < FileSize[job'.file] => rawdata'[b] = DataBlock(job'.file, m)
  <2>1. nbytes = BLOCK_SZ * m
    <3>1. /\ nbytes % BLOCK_SZ = 0 /\ nbytes \in Int
          /\ nbytes = BLOCK_SZ * (nbytes \div BLOCK_SZ) + (nbytes % BLOCK_SZ)
      BY <1>2, Division, Constants DEF LoopInv, StateFacts
    <3>2. m \in Int /\ BLOCK_SZ * m \in Int
      BY Constants
    <3> QED
      BY <3>1, <3>2
  <2>2. BLOCK_SZ * m = m * BLOCK_SZ
    BY Constants
  <2> QED
    BY <2>1, <2>2, <1>4
<1>17. Len(path) = n + 1
  BY DEF n
<1> HIDE DEF path
<1> QED
  BY <1>13, <1>14, <1>15, <1>16, <1>17 DEF Reachable, node, path

LEMMA DataChain ==
  ASSUME ImageInv, pc = "place", ~eof, NEW b \in Free, NEW mid, NEW stack,
         Entered(mid, b, stack), UseBlock(mid, b, 0, stack),
         UNCHANGED <<image, pc, job, written, extracted, placed>>, open' = stack
  PROVE  ChainInv'
<1> DEFINE n == Len(stack)
           at(k) == IF k <= n THEN stack[k].block ELSE b
<1>1. /\ n \in Nat /\ Current'.ptr[pointer' - 1] = at(1)
      /\ \A k \in 1 .. n : /\ rawdata'[stack[k].block].kind = "pointers"
                           /\ rawdata'[stack[k].block].ptr[stack[k].next - 1] = at(k + 1)
      /\ \A i, j \in 1 .. n : stack[i].block = stack[j].block => i = j
  <2>1. Links(b, stack)
    BY EnteredLinks
  <2> QED
    BY <2>1 DEF Links
<1>2. stack \in Seq(Entry) /\ \A k \in 1 .. n : stack[k].next >= 1
  BY DEF Entered
<1>3. DOMAIN stack = 1 .. n /\ (stack # <<>> => n >= 1)
  BY <1>2
<1>4. ASSUME NEW k \in 1 .. n - 1
      PROVE  /\ stack[k].next >= 1
             /\ rawdata'[stack[k].block].ptr[stack[k].next - 1] = stack[k + 1].block
  <2>1. k \in 1 .. n /\ k + 1 <= n
    BY <1>1
  <2> QED
    BY <2>1, <1>1, <1>2
<1> QED
  BY <1>1, <1>3, <1>4 DEF ChainInv

LEMMA DataEntered ==
  ASSUME ImageInv, pc = "place", ~eof, NEW b \in Free, NEW mid, NEW stack,
         Entered(mid, b, stack), UseBlock(mid, b, 0, stack),
         UNCHANGED <<image, pc, job, written, extracted, placed>>,
         Len(stack) = Depth(pointer' - 1),
         Position \in 0 .. Capacity - 1, StandsAt(pointer', stack) = Position + 1,
         Len(Path(Position)) = Len(stack) + 1, Path(Position)[1] = pointer' - 1,
         \A k \in 1 .. Len(stack) : Path(Position)[k + 1] = stack[k].next - 1
  PROVE  ImageInv'
<1> DEFINE n == Len(stack)
<1>1. /\ TypeOK /\ RunInv /\ LoopInv /\ StateFacts
  BY StateType DEF ImageInv
<1>2. /\ mid \in Raw /\ InodesFirst(mid) /\ stack \in Seq(Entry) /\ n \in Nat
      /\ pointer' \in 1 .. N_DBLOCKS + N_IBLOCKS + 2
  BY EnteredLinks DEF Links, Entered
<1>3. PICK m \in 0 .. Capacity - 1 : m = Position
  OBVIOUS
<1>4. m = nbytes \div BLOCK_SZ /\ Allocated = m
  <2>1. m = nbytes \div BLOCK_SZ
    BY <1>1, <1>3 DEF LoopInv
  <2> QED
    BY <2>1 DEF Allocated
<1>5. /\ open' = stack
      /\ nbytes' \in Nat /\ nbytes' <= FileSize[job.file] /\ eof' \in BOOLEAN
      /\ eof' => nbytes' = FileSize[job.file] /\ nbytes' \div BLOCK_SZ = m
      /\ ~eof' => nbytes' % BLOCK_SZ = 0 /\ nbytes' \div BLOCK_SZ = m + 1
  BY <1>1, <1>2, <1>4, BlockUsed
<1>6. Allocated' = m + 1
  BY <1>5 DEF Allocated
<1>7. n \in 0 .. 3 /\ pointer' >= 1
  BY <1>2, PointerRange, DepthCases
<1>8. (TypeOK /\ RunInv /\ SeparateInv /\ KeptInv /\ ExtractReturnsFiles)'
  <2>1. n <= 3
    BY <1>7
  <2> QED
    BY <2>1, EnteredKeepsImage
<1>9. LoopInv'
  <2>1. open' # <<>> => pointer' >= 1 /\ Len(open') <= Depth(pointer' - 1)
    BY <1>5, <1>7
  <2>2. ~eof' => nbytes' % BLOCK_SZ = 0 /\ Position' = nbytes' \div BLOCK_SZ
    BY <1>3, <1>5 DEF Position
  <2>3. m + 1 <= Capacity
    BY Constants
  <2>4. Current'.nlink = 1 /\ Current'.owner = job'.owner
    BY EnteredLinks DEF Links
  <2> QED
    BY <2>1, <2>2, <2>3, <2>4, <1>5, <1>6 DEF LoopInv
<1>10. ChainInv'
  BY <1>5, DataChain
<1>11. PlacedInv'
  <2>1. \A k \in 0 .. Capacity - 1 : k < m => Reachable(k)'
    BY <1>4, EnteredKeepsOld
  <2>2. Reachable(m)'
    BY <1>3, <1>4, DataReachable
  <2>3. \A k \in 0 .. Capacity - 1 : k < m + 1 => k < m \/ k = m
    BY Constants
  <2> QED
    BY <2>1, <2>2, <2>3, <1>6 DEF PlacedInv
<1> QED
  BY <1>8, <1>9, <1>10, <1>11 DEF ImageInv

LEMMA FillInodeKeeps ==
  ASSUME ImageInv, FillInode
  PROVE  ImageInv'
<1> DEFINE ip(b) == [Current EXCEPT !.ptr[pointer] = b]
           mid(b) == WithInode(rawdata, job.pos, ip(b))
<1>1. /\ pc = "place" /\ ~eof /\ open = <<>> /\ pointer \in BlockPointer
      /\ \E b \in Free : UseBlock(mid(b), b, Depth(pointer), <<>>)
      /\ pointer' = pointer + 1
      /\ UNCHANGED <<image, pc, job, written, extracted, placed>>
  BY DEF FillInode, Current
<1>2. PICK b \in Free : UseBlock(mid(b), b, Depth(pointer), <<>>)
  BY <1>1
<1>3. TypeOK /\ RunInv /\ LoopInv /\ StateFacts
  BY StateType DEF ImageInv
<1>4. /\ ip(b) \in Inode /\ ip(b).ptr[pointer] = b
      /\ ip(b).nlink = 1 /\ ip(b).owner = job.owner
      /\ \A p \in BlockPointer : p < pointer => ip(b).ptr[p] = Current.ptr[p]
  <2>1. Current \in Inode /\ b \in Block
    BY <1>1, <1>3 DEF StateFacts, Free
  <2>2. Current.nlink = 1 /\ Current.owner = job.owner
    BY <1>1, <1>3 DEF LoopInv
  <2>3. pointer \in Nat
    BY <1>1 DEF BlockPointer
  <2> QED
    BY <2>1, <2>2, <2>3, <1>1 DEF Inode
<1> HIDE DEF ip
<1>5. /\ mid(b) \in Raw /\ InodesFirst(mid(b)) /\ InodeAt(mid(b), job.pos) = ip(b)
      /\ \A q \in InodePos \ {job.pos} : InodeAt(mid(b), q) = InodeAt(rawdata, q)
      /\ \A c \in Block \ InodeBlocks : mid(b)[c] = rawdata[c]
  BY <1>1, <1>3, <1>4, WithInodeType DEF StateFacts
<1> HIDE DEF mid
<1>6. /\ pointer' \in 1 .. N_DBLOCKS + N_IBLOCKS + 2 /\ pointer <= pointer'
      /\ pointer' - 1 = pointer
  <2>1. N_DBLOCKS \in Nat /\ N_IBLOCKS \in Nat
    BY Constants
  <2> QED
    BY <2>1, <1>1 DEF BlockPointer
<1>7. <<>> \in Seq(Entry) /\ Len(<<>>) = 0
  OBVIOUS
<1>8. Entered(mid(b), b, <<>>)
  BY <1>1, <1>4, <1>5, <1>6, <1>7 DEF Entered
<1>9. Depth(pointer) \in 0 .. 3 /\ Position = Base(pointer) /\ Base(pointer) \in Nat
  BY <1>1, <1>7, DepthCases, StandsDef DEF Position
<1>10. CASE Depth(pointer) = 0
  <2>1. UseBlock(mid(b), b, 0, <<>>)
    BY <1>2, <1>10
  <2>2. /\ pointer \in 0 .. N_DBLOCKS - 1 /\ Position = pointer
        /\ Base(pointer + 1) = pointer + 1
    <3>1. pointer \in Nat /\ pointer < N_DBLOCKS
      BY <1>1, <1>10, DepthCases
    <3> QED
      BY <3>1, <1>1, <1>9, <1>10, DepthCases, Constants
  <2>3. Position \in 0 .. Capacity - 1
    BY <2>2, Starts, Constants
  <2>4. Path(Position) = <<pointer>>
    BY <2>2, DirectPath
  <2>5. StandsAt(pointer', <<>>) = Position + 1
    BY <2>2, <1>1, <1>7, StandsDef
  <2>6. /\ Len(Path(Position)) = Len(<<>>) + 1 /\ Path(Position)[1] = pointer' - 1
        /\ \A k \in 1 .. Len(<<>>) : Path(Position)[k + 1] = <<>>[k].next - 1
    BY <2>4, <1>6
  <2>7. Len(<<>>) = Depth(pointer' - 1)
    BY <1>6, <1>7, <1>10
  <2> QED
    BY <2>1, <2>3, <2>5, <2>6, <2>7, <1>1, <1>8, DataEntered
<1>11. CASE Depth(pointer) # 0
  <2> DEFINE new == Append(<<>>, [block |-> b, next |-> 0])
  <2>1. new \in Seq(Entry) /\ Len(new) = 1 /\ new[1].next = 0
    <3>1. b \in Block
      BY DEF Free
    <3>2. new \in Seq(Entry) /\ Len(new) = Len(<<>>) + 1 /\ new[Len(<<>>) + 1].next = 0
      BY <3>1, <1>7, AppendType
    <3> QED
      BY <3>2, <1>7
  <2> HIDE DEF new
  <2>2. StandsAt(pointer + 1, new) = Position
    <3>1. 0 * Pointers = 0 /\ 0 * PointersSquared = 0
      BY Constants
    <3>2. CASE Depth(pointer) = 1
      BY <3>2, <2>1, <1>1, <1>9, StandsDef
    <3>3. CASE Depth(pointer) = 2
      BY <3>1, <3>3, <2>1, <1>1, <1>9, StandsDef
    <3>4. CASE Depth(pointer) = 3
      BY <3>1, <3>4, <2>1, <1>1, <1>9, StandsDef
    <3> QED
      BY <3>2, <3>3, <3>4, <1>9, <1>11
  <2>3. StandsAt(pointer', Append(<<>>, [block |-> b, next |-> 0])) = Position
    BY <2>2, <1>1 DEF new
  <2>4. Len(<<>>) <= 2 /\ Len(<<>>) < Depth(pointer' - 1)
    BY <1>6, <1>7, <1>9, <1>11
  <2> QED
    BY <2>3, <2>4, <1>1, <1>2, <1>8, <1>11, PointersEntered
<1> QED
  BY <1>10, <1>11

LEMMA WriteIntType ==
  ASSUME NEW raw \in Raw, InodesFirst(raw), NEW c \in Block \ InodeBlocks,
         NEW i \in 0 .. Pointers - 1, NEW v \in Block
  PROVE  LET new == write_int(raw, c, i, v)
         IN  /\ new \in Raw /\ InodesFirst(new)
             /\ new[c].kind = "pointers" /\ new[c].ptr[i] = v
             /\ \A d \in Block \ {c} : new[d] = raw[d]
             /\ \A q \in InodePos : InodeAt(new, q) = InodeAt(raw, q)
             /\ raw[c].kind = "pointers" =>
                  \A j \in 0 .. Pointers - 1 : j # i => new[c].ptr[j] = raw[c].ptr[j]
<1> DEFINE old == IF raw[c].kind = "pointers" THEN raw[c].ptr
                  ELSE [j \in 0 .. Pointers - 1 |-> 0]
           ptrs == [old EXCEPT ![i] = v]
           new == write_int(raw, c, i, v)
<1>1. old \in [0 .. Pointers - 1 -> Block]
  <2>1. raw[c] \in Content
    BY DEF Raw
  <2>2. CASE raw[c].kind = "pointers"
    BY <2>1, <2>2, ContentType
  <2>3. CASE raw[c].kind # "pointers"
    <3>1. 0 \in Block
      BY Constants
    <3> QED
      BY <2>3, <3>1
  <2> QED
    BY <2>2, <2>3
<1>2. /\ ptrs \in [0 .. Pointers - 1 -> Block] /\ ptrs[i] = v
      /\ \A j \in 0 .. Pointers - 1 : j # i => ptrs[j] = old[j]
  <2> HIDE DEF old
  <2> QED
    BY <1>1
<1>3. new = [raw EXCEPT ![c] = PointerBlock(ptrs)]
  BY DEF write_int
<1>4. raw[c].kind = "pointers" => old = raw[c].ptr
  OBVIOUS
<1> HIDE DEF ptrs, old, new
<1>5. /\ PointerBlock(ptrs) \in Content /\ PointerBlock(ptrs).kind = "pointers"
      /\ PointerBlock(ptrs).ptr = ptrs
  BY <1>2, ContentBuilt
<1>6. /\ new \in Raw /\ new[c] = PointerBlock(ptrs)
      /\ \A d \in Block \ {c} : new[d] = raw[d]
  BY <1>3, <1>5 DEF Raw
<1>7. InodesFirst(new)
  <2>1. ~(c < iblocks)
    BY Constants DEF Block, InodeBlocks
  <2> QED
    BY <2>1, <1>5, <1>6 DEF InodesFirst
<1>8. \A q \in InodePos : InodeAt(new, q) = InodeAt(raw, q)
  <2>1. \A q \in InodePos : q[1] \in Block /\ q[1] # c
    BY Constants DEF InodePos
  <2> QED
    BY <2>1, <1>6 DEF InodeAt
<1> QED
  BY <1>2, <1>4, <1>5, <1>6, <1>7, <1>8 DEF new

\* Above the innermost block every open block has been written to.
LEMMA FillPointersEnters ==
  ASSUME ImageInv, pc = "place", ~eof, open # <<>>, open[Len(open)].next < Pointers,
         NEW b \in Free, pointer' = pointer
  PROVE  LET top == open[Len(open)]
         IN  Entered(write_int(rawdata, top.block, top.next, b), b, Advanced(open))
<1> DEFINE n == Len(open)
           top == open[n]
           mid == write_int(rawdata, top.block, top.next, b)
           stack == Advanced(open)
<1>1. TypeOK /\ RunInv /\ SeparateInv /\ LoopInv /\ ChainInv /\ StateFacts
  BY StateType DEF ImageInv
<1>2. open \in Seq(Entry)
  BY <1>1 DEF TypeOK, Entry
<1>3. /\ n \in Nat /\ n >= 1 /\ DOMAIN open = 1 .. n /\ n \in 1 .. n
      /\ \A k \in 1 .. n : open[k].next \in 0 .. Pointers
  <2>1. n \in Nat /\ n # 0 /\ DOMAIN open = 1 .. n
    BY <1>2, StackType
  <2>2. \A k \in 1 .. n : open[k].next \in 0 .. Pointers
    BY <1>2, StackType
  <2> HIDE DEF n
  <2> QED
    BY <2>1, <2>2
<1>4. top.next \in 0 .. Pointers - 1
  BY <1>3, Constants
<1>5. top.block \in Own /\ top.block \in Block \ InodeBlocks /\ b \in Block
  BY <1>1, <1>3 DEF SeparateInv, Own, StateFacts, Free
<1>6. /\ mid \in Raw /\ InodesFirst(mid)
      /\ mid[top.block].kind = "pointers" /\ mid[top.block].ptr[top.next] = b
      /\ \A d \in Block \ {top.block} : mid[d] = rawdata[d]
      /\ \A q \in InodePos : InodeAt(mid, q) = InodeAt(rawdata, q)
      /\ rawdata[top.block].kind = "pointers" =>
           \A j \in 0 .. Pointers - 1 : j # top.next =>
             mid[top.block].ptr[j] = rawdata[top.block].ptr[j]
  <2>1. rawdata \in Raw /\ InodesFirst(rawdata)
    BY <1>1 DEF StateFacts
  <2> DEFINE c == top.block
             i == top.next
  <2>2. /\ c \in Block \ InodeBlocks /\ i \in 0 .. Pointers - 1 /\ b \in Block
        /\ mid = write_int(rawdata, c, i, b)
    BY <1>4, <1>5
  <2> HIDE DEF top, c, i, mid
  <2>3. /\ mid \in Raw /\ InodesFirst(mid)
        /\ mid[c].kind = "pointers" /\ mid[c].ptr[i] = b
        /\ \A d \in Block \ {c} : mid[d] = rawdata[d]
        /\ \A q \in InodePos : InodeAt(mid, q) = InodeAt(rawdata, q)
        /\ rawdata[c].kind = "pointers" =>
             \A j \in 0 .. Pointers - 1 : j # i => mid[c].ptr[j] = rawdata[c].ptr[j]
    BY <2>1, <2>2, WriteIntType
  <2> QED
    BY <2>3 DEF c, i
<1>7. /\ stack \in Seq(Entry) /\ Len(stack) = n
      /\ \A k \in 1 .. n - 1 : stack[k] = open[k]
      /\ stack[n].block = top.block /\ stack[n].next = top.next + 1
  BY <1>2, <1>3, AdvancedType
<1> HIDE DEF mid, stack
<1>8. InodeAt(mid, job.pos) = Current
  BY <1>1, <1>6 DEF Current, StateFacts
<1>9. \A c \in Block \ InodeBlocks :
        mid[c] = rawdata[c] \/ \E k \in DOMAIN open : c = open[k].block
  BY <1>3, <1>6
<1>10. ASSUME NEW k \in DOMAIN open
       PROVE  /\ open[k].block \in Block
              /\ k # n => open[k].block # top.block
  BY <1>1, <1>3 DEF SeparateInv, Own, StateFacts, ChainInv
<1>11. ASSUME NEW k \in DOMAIN open, NEW j \in 0 .. open[k].next - 1
       PROVE  /\ mid[open[k].block].kind = "pointers"
              /\ mid[open[k].block].ptr[j] = rawdata[open[k].block].ptr[j]
  <2>1. open[k].next >= 1 /\ j \in 0 .. Pointers - 1
    BY <1>3, Constants
  <2>2. rawdata[open[k].block].kind = "pointers"
    BY <2>1, <1>1 DEF ChainInv
  <2>3. CASE k = n
    <3>1. j # top.next
      BY <2>3, <1>4, Constants
    <3> QED
      BY <2>1, <2>2, <2>3, <3>1, <1>6
  <2>4. CASE k # n
    <3>1. mid[open[k].block] = rawdata[open[k].block]
      BY <2>4, <1>6, <1>10
    <3> QED
      BY <3>1, <2>2
  <2> QED
    BY <2>3, <2>4
<1>12. \A k \in 1 .. n : k = n \/ k \in 1 .. n - 1
  <2> HIDE DEF n
  <2> QED
    BY <1>3
<1>13. ASSUME NEW k \in 1 .. n
       PROVE  /\ k \in DOMAIN open /\ stack[k].block = open[k].block
              /\ open[k].next <= stack[k].next /\ stack[k].next >= 1
  <2>1. CASE k = n
    <3>1. stack[k].next = top.next + 1 /\ open[k].next = top.next
      BY <2>1, <1>7
    <3>2. top.next \in Nat
      BY <1>4, Constants
    <3>3. stack[k].next >= 1 /\ open[k].next <= stack[k].next
      BY <3>1, <3>2
    <3> QED
      BY <2>1, <3>3, <1>3, <1>7
  <2>2. CASE k \in 1 .. n - 1
    <3>1. stack[k] = open[k] /\ open[k].next >= 1
      BY <2>2, <1>1, <1>7 DEF ChainInv
    <3>2. open[k].next \in Int
      BY <1>3, Constants
    <3> QED
      BY <3>1, <3>2, <1>3
  <2> QED
    BY <2>1, <2>2, <1>12
<1>14. /\ pointer' \in 1 .. N_DBLOCKS + N_IBLOCKS + 2 /\ pointer <= pointer'
       /\ Current.ptr[pointer' - 1] = open[1].block
       /\ stack[1].block = open[1].block
  <2>1. N_DBLOCKS \in Nat /\ N_IBLOCKS \in Nat
    BY Constants
  <2>2. pointer >= 1 /\ pointer \in 0 .. N_DBLOCKS + N_IBLOCKS + 2
    BY <1>1 DEF LoopInv, TypeOK
  <2>3. pointer' \in 1 .. N_DBLOCKS + N_IBLOCKS + 2 /\ pointer <= pointer'
    BY <2>1, <2>2
  <2>4. Current.ptr[pointer' - 1] = open[1].block
    BY <1>1 DEF ChainInv
  <2>5. stack[1].block = open[1].block
    BY <1>3, <1>13
  <2> QED
    BY <2>3, <2>4, <2>5
<1>15. ASSUME NEW k \in 1 .. n
       PROVE  /\ mid[stack[k].block].kind = "pointers"
              /\ mid[stack[k].block].ptr[stack[k].next - 1]
                   = (IF k + 1 <= n THEN stack[k + 1].block ELSE b)
  <2>1. CASE k = n
    <3>1. ~(k + 1 <= n)
      BY <2>1, <1>3
    <3>2. stack[k].next - 1 = top.next
      BY <2>1, <1>4, <1>7, Constants
    <3> QED
      BY <2>1, <3>1, <3>2, <1>6, <1>7
  <2>2. CASE k \in 1 .. n - 1
    <3>1. k + 1 <= n /\ k + 1 \in 1 .. n
      BY <2>2, <1>3
    <3>2. stack[k] = open[k] /\ stack[k + 1].block = open[k + 1].block
      BY <2>2, <3>1, <1>7, <1>13
    <3>3. /\ open[k].next >= 1
          /\ rawdata[open[k].block].kind = "pointers"
          /\ rawdata[open[k].block].ptr[open[k].next - 1] = open[k + 1].block
      BY <2>2, <1>1, <1>3 DEF ChainInv
    <3>4. k # n /\ k \in DOMAIN open
      <4> HIDE DEF n
      <4> QED
        BY <2>2, <1>3
    <3>5. mid[open[k].block] = rawdata[open[k].block]
      BY <3>4, <1>6, <1>10
    <3> QED
      BY <3>1, <3>2, <3>3, <3>5
  <2> QED
    BY <2>1, <2>2, <1>12
<1>16. Current.nlink = 1 /\ Current.owner = job.owner
  BY <1>1 DEF LoopInv
<1>17. 1 <= Len(stack)
  BY <1>3, <1>7
<1>18. Entered(mid, b, stack)
  BY <1>1, <1>6, <1>7, <1>8, <1>9, <1>11, <1>13, <1>14, <1>15, <1>16, <1>17
     DEF Entered, StateFacts
<1> QED
  BY <1>18 DEF mid, stack

LEMMA FillPointersKeeps ==
  ASSUME ImageInv, FillPointers
  PROVE  ImageInv'
<1> DEFINE n == Len(open)
           top == open[n]
           mid(b) == write_int(rawdata, top.block, top.next, b)
           stack == Advanced(open)
           p == pointer - 1
           level == Depth(p) - n
<1>1. /\ pc = "place" /\ ~eof /\ open # <<>> /\ top.next < Pointers
      /\ \E b \in Free : UseBlock(mid(b), b, level, stack)
      /\ pointer' = pointer
      /\ UNCHANGED <<image, pc, job, written, extracted, placed>>
  BY DEF FillPointers, Advanced
<1>2. PICK b \in Free : UseBlock(mid(b), b, level, stack)
  BY <1>1
<1>3. Entered(mid(b), b, stack)
  BY <1>1, FillPointersEnters
<1>4. TypeOK /\ LoopInv /\ ChainInv /\ open \in Seq(Entry)
  BY DEF ImageInv, TypeOK, Entry
<1>5. /\ n \in Nat /\ n >= 1 /\ n <= Depth(p)
      /\ \A k \in 1 .. n - 1 : open[k].next >= 1
  <2>1. n \in Nat /\ n # 0 /\ n <= Depth(p)
    BY <1>1, <1>4, StackType DEF LoopInv
  <2> QED
    BY <2>1, <1>1, <1>4 DEF ChainInv
<1>6. p \in BlockPointer /\ p + 1 = pointer /\ pointer' - 1 = p
  <2>1. pointer \in 1 .. N_DBLOCKS + N_IBLOCKS + 2
    BY <1>1, <1>4, Constants DEF LoopInv, TypeOK
  <2> QED
    BY <2>1, <1>1, PointerRange
<1>7. /\ stack \in Seq(Entry) /\ Len(stack) = n
      /\ \A k \in 1 .. n - 1 : stack[k] = open[k]
      /\ stack[n].next = top.next + 1
  BY <1>1, <1>4, <1>5, AdvancedType
<1>8. Depth(p) \in 0 .. 3 /\ Position = StandsAt(p + 1, open)
  BY <1>6, DepthCases DEF Position
<1> HIDE DEF mid, stack, p
<1>9. CASE n = Depth(p)
  <2>1. UseBlock(mid(b), b, 0, stack)
    <3>1. level = 0
      BY <1>8, <1>9
    <3> QED
      BY <3>1, <1>2
  <2>2. /\ Position \in 0 .. Capacity - 1
        /\ StandsAt(p + 1, stack) = Position + 1
        /\ Len(Path(Position)) = n + 1 /\ Path(Position)[1] = p
        /\ Path(Position)[n + 1] = top.next
        /\ \A k \in 1 .. n - 1 : Path(Position)[k + 1] = open[k].next - 1
    BY <1>1, <1>4, <1>5, <1>6, <1>8, <1>9, StandsNext DEF stack
  <2>3. ASSUME NEW k \in 1 .. Len(stack)
        PROVE  Path(Position)[k + 1] = stack[k].next - 1
    <3>1. CASE k = n
      <4>1. top.next \in Nat
        <5>1. n \in 1 .. n
          BY <1>5
        <5>2. top.next \in 0 .. Pointers
          BY <5>1, <1>4, StackType
        <5> QED
          BY <5>2, Constants
      <4>2. stack[k].next - 1 = top.next
        BY <3>1, <4>1, <1>7
      <4> QED
        BY <3>1, <4>2, <2>2
    <3>2. CASE k # n
      <4>1. k \in 1 .. n - 1
        BY <3>2, <1>5, <1>7
      <4> QED
        BY <4>1, <2>2, <1>7
    <3> QED
      BY <3>1, <3>2
  <2>4. StandsAt(pointer', stack) = Position + 1
    BY <2>2, <1>1, <1>6
  <2>5. Len(stack) = Depth(pointer' - 1)
    BY <1>6, <1>7, <1>9
  <2>6. Len(Path(Position)) = Len(stack) + 1 /\ Path(Position)[1] = pointer' - 1
    BY <2>2, <1>6, <1>7
  <2> QED
    BY <2>1, <2>2, <2>3, <2>4, <2>5, <2>6, <1>1, <1>3, DataEntered
<1>10. CASE n # Depth(p)
  <2>1. n < Depth(p) /\ n <= 2 /\ level # 0
    <3> HIDE DEF n
    <3> QED
      BY <1>5, <1>8, <1>10
  <2>2. StandsAt(p + 1, Append(stack, [block |-> b, next |-> 0])) = Position
    <3>1. b \in Block
      BY DEF Free
    <3> QED
      BY <3>1, <2>1, <1>1, <1>4, <1>5, <1>6, <1>8, StandsDown DEF stack
  <2>3. StandsAt(pointer', Append(stack, [block |-> b, next |-> 0])) = Position
    BY <2>2, <1>1, <1>6
  <2>4. Len(stack) <= 2 /\ Len(stack) < Depth(pointer' - 1)
    BY <2>1, <1>6, <1>7
  <2> QED
    BY <2>1, <2>3, <2>4, <1>1, <1>2, <1>3, PointersEntered
<1> QED
  BY <1>9, <1>10

LEMMA CloseBlockKeeps ==
  ASSUME ImageInv, CloseBlock
  PROVE  ImageInv'
<1> DEFINE n == Len(open)
           rest == SubSeq(open, 1, n - 1)
           p == pointer - 1
<1>1. /\ pc = "place" /\ ~eof /\ open # <<>> /\ open[n].next = Pointers
      /\ open' = rest
      /\ UNCHANGED <<image, pc, job, rawdata, bitmap, nbytes, eof, pointer,
                     written, extracted, placed>>
  BY DEF CloseBlock
<1>2. /\ TypeOK /\ RunInv /\ SeparateInv /\ LoopInv /\ ChainInv /\ PlacedInv /\ KeptInv
      /\ open \in Seq(Entry) /\ ExtractReturnsFiles
  BY DEF ImageInv, TypeOK, Entry
<1>3. n \in Nat /\ n >= 1 /\ n <= 3 /\ n <= Depth(p)
  <2>1. n \in Nat /\ n # 0 /\ n <= 3 /\ n <= Depth(p)
    BY <1>1, <1>2, StackType DEF TypeOK, LoopInv
  <2> HIDE DEF n
  <2> QED
    BY <2>1
<1>4. /\ rest \in Seq(Entry) /\ Len(rest) = n - 1
      /\ \A k \in 1 .. Len(rest) : rest[k] = open[k]
      /\ DOMAIN rest = 1 .. n - 1
  <2>1. \A i \in 1 .. n - 1 : open[i] \in Entry
    BY <1>2, <1>3, StackType
  <2> HIDE DEF Entry
  <2>2. rest \in Seq(Entry)
    BY <1>3, <2>1
  <2>3. Len(rest) = n - 1 /\ DOMAIN rest = 1 .. n - 1
    <3>1. Len(rest) = n - 1
      <4> HIDE DEF n
      <4> QED
        BY <1>3
    <3>2. DOMAIN rest = 1 .. Len(rest)
      BY <2>2
    <3> QED
      BY <3>1, <3>2
  <2>4. \A k \in 1 .. n - 1 : rest[k] = open[k]
    BY <1>3
  <2> QED
    BY <2>2, <2>3, <2>4
<1>5. DOMAIN open = 1 .. n /\ \A k \in 1 .. n - 1 : k \in 1 .. n
  BY <1>2, <1>3
<1> HIDE DEF rest
<1>6. TypeOK'
  <2>1. open' \in Seq([block : Block, next : 0 .. Pointers]) /\ Len(open') <= 3
    BY <1>1, <1>3, <1>4 DEF Entry
  <2> QED
    BY <2>1, <1>1, <1>2 DEF TypeOK
<1>7. /\ Disk' = Disk /\ Reached' = Reached /\ Own' = Own /\ Current' = Current
      /\ Placed' = Placed
  <2>1. Disk' = Disk /\ Others' = Others
    BY <1>1 DEF Disk, Others
  <2> QED
    BY <2>1, <1>1 DEF Reached, Own, Current, Placed
<1>8. RunInv'
  BY <1>1, <1>2, <1>7 DEF RunInv
<1>9. SeparateInv'
  BY <1>1, <1>2, <1>4, <1>5, <1>7 DEF SeparateInv
<1>10. LoopInv'
  <2>1. p \in BlockPointer /\ p + 1 = pointer
    <3>1. pointer \in 1 .. N_DBLOCKS + N_IBLOCKS + 2
      BY <1>1, <1>2, Constants DEF LoopInv, TypeOK
    <3> QED
      BY <3>1, PointerRange
  <2>2. StandsAt(p + 1, rest) = StandsAt(p + 1, open)
    <3>1. \A k \in 1 .. Len(rest) : rest[k] = open[k]
      BY <1>4
    <3> HIDE DEF p
    <3> QED
      BY <2>1, <3>1, <1>1, <1>2, <1>3, <1>4, StandsUp
  <2>3. Position' = Position
    BY <2>1, <2>2, <1>1 DEF Position
  <2>4. Allocated' = Allocated
    BY <1>1 DEF Allocated
  <2>5. pointer >= 1 /\ Len(rest) <= Depth(pointer - 1)
    <3>1. PICK d \in 0 .. 3 : d = Depth(p)
      BY <2>1, DepthCases
    <3>2. n - 1 <= d
      <4>1. n <= d
        BY <3>1, <1>3
      <4> HIDE DEF n
      <4> QED
        BY <4>1, <1>3
    <3> QED
      BY <3>1, <3>2, <1>1, <1>2, <1>4 DEF LoopInv
  <2> QED
    BY <2>3, <2>4, <2>5, <1>1, <1>2, <1>7 DEF LoopInv
<1>11. ChainInv'
  <2>1. rest # <<>> => rest[1] = open[1]
    BY <1>3, <1>4
  <2>2. ASSUME NEW k \in 1 .. Len(rest) - 1
        PROVE  /\ k \in 1 .. n - 1 /\ rest[k] = open[k] /\ rest[k + 1] = open[k + 1]
    <3>1. k \in 1 .. n - 1 /\ k \in 1 .. Len(rest) /\ k + 1 \in 1 .. Len(rest)
      BY <1>3, <1>4
    <3> QED
      BY <3>1, <1>4
  <2>3. \A k \in DOMAIN rest : k \in DOMAIN open /\ rest[k] = open[k]
    BY <1>4, <1>5
  <2> QED
    BY <2>1, <2>2, <2>3, <1>1, <1>2, <1>7 DEF ChainInv
<1>12. PlacedInv'
  <2>1. Allocated' = Allocated
    BY <1>1 DEF Allocated
  <2>2. Undisturbed
    <3>1. \A k \in DOMAIN open : \A j \in 0 .. open[k].next - 1 :
            rawdata[open[k].block].kind = "pointers"
      <4> SUFFICES ASSUME NEW k \in DOMAIN open, NEW j \in 0 .. open[k].next - 1
                   PROVE  rawdata[open[k].block].kind = "pointers"
        OBVIOUS
      <4>1. open[k].next \in 0 .. Pointers
        BY <1>2, <1>5, StackType
      <4>2. open[k].next >= 1
        BY <4>1, Constants
      <4> QED
        BY <4>2, <1>1, <1>2 DEF ChainInv
    <3> QED
      BY <3>1, <1>1, <1>7 DEF Undisturbed
  <2>3. \A k \in DOMAIN rest :
          /\ k \in DOMAIN open /\ rest[k].block = open[k].block
          /\ rest[k].next \in Int /\ open[k].next <= rest[k].next
    <3>1. \A k \in DOMAIN rest : k \in 1 .. n /\ rest[k] = open[k]
      BY <1>4, <1>5
    <3>2. \A k \in 1 .. n : open[k].next \in 0 .. Pointers
      BY <1>2, StackType
    <3>3. \A k \in 1 .. n : open[k].next \in Int /\ open[k].next <= open[k].next
      BY <3>2, Constants
    <3> QED
      BY <3>1, <3>3, <1>5
  <2>4. pointer \in Int
    BY <1>2, Constants DEF TypeOK
  <2>5. \A m \in 0 .. Capacity - 1 : m < Allocated => Reachable(m)'
    BY <2>2, <2>3, <2>4, <1>1, <1>2, <1>7, OldStaysReachable
  <2> QED
    BY <2>1, <2>5 DEF PlacedInv
<1>13. KeptInv'
  <2>1. BlocksApart'
    BY <1>1, <1>2, <1>7 DEF KeptInv, BlocksApart
  <2> QED
    BY <2>1, <1>1, <1>2, <1>7 DEF KeptInv, FileInv
<1>14. ExtractReturnsFiles'
  BY <1>1, <1>2, <1>7 DEF ExtractReturnsFiles
<1> QED
  BY <1>6, <1>8, <1>9, <1>10, <1>11, <1>12, <1>13, <1>14 DEF ImageInv

-----------------------------------------------------------------------------
(* The end of the loops *)

\* What has been read is what an inode can hold.
LEMMA EverythingRead ==
  ASSUME TypeOK, RunInv, LoopInv, pc = "place",
         eof \/ (open = <<>> /\ pointer \notin BlockPointer)
  PROVE  nbytes = Stored(job.file)
<1> DEFINE size == FileSize[job.file]
           d == nbytes \div BLOCK_SZ
<1>1. /\ nbytes \in Nat /\ size \in Nat /\ nbytes <= size
      /\ eof => nbytes = size /\ Allocated <= Capacity
      /\ ~eof => nbytes % BLOCK_SZ = 0 /\ Position = d
  BY StateType DEF StateFacts, LoopInv
<1>2. d \in Int /\ nbytes % BLOCK_SZ \in 0 .. BLOCK_SZ - 1
      /\ nbytes = BLOCK_SZ * d + (nbytes % BLOCK_SZ)
  <2>1. nbytes \in Int /\ BLOCK_SZ \in Nat /\ BLOCK_SZ > 0
    BY <1>1, Constants
  <2> QED
    BY <2>1, Division
<1>3. BLOCK_SZ * Capacity = Capacity * BLOCK_SZ /\ Capacity * BLOCK_SZ \in Nat
  BY Constants
<1> HIDE DEF d, size
<1>4. CASE eof
  <2>1. nbytes = size /\ d + 1 <= Capacity
    <3>1. Allocated = d + 1
      BY <1>4 DEF Allocated, d
    <3> QED
      BY <3>1, <1>1, <1>4
  <2>2. BLOCK_SZ * (d + 1) <= BLOCK_SZ * Capacity
    BY <2>1, <1>2, Product, Constants
  <2>3. BLOCK_SZ * (d + 1) = BLOCK_SZ * d + BLOCK_SZ /\ BLOCK_SZ * d \in Int
    BY <1>2, Constants
  <2>4. size < Capacity * BLOCK_SZ
    BY <2>1, <2>2, <2>3, <1>1, <1>2, <1>3, Constants
  <2> QED
    BY <2>1, <2>4 DEF Stored, size
<1>5. CASE ~eof
  <2>1. open = <<>> /\ pointer = N_DBLOCKS + N_IBLOCKS + 2
    <3>1. pointer \in 0 .. N_DBLOCKS + N_IBLOCKS + 2 /\ pointer \notin BlockPointer
      BY <1>5 DEF TypeOK
    <3>2. N_DBLOCKS \in Nat /\ N_IBLOCKS \in Nat
      BY Constants
    <3> QED
      BY <3>1, <3>2, <1>5 DEF BlockPointer
  <2>2. Position = Capacity
    <3> DEFINE p == N_DBLOCKS + N_IBLOCKS + 1
    <3>1. p \in BlockPointer /\ p + 1 = pointer /\ Depth(p) = 3
      BY <2>1, Constants DEF BlockPointer, Depth
    <3>2. Base(pointer) = Base(p) + Pointers * PointersSquared /\ Base(p) = TripleStart
      <4> HIDE DEF p
      <4> QED
        BY <3>1, DepthCases
    <3>3. Position = Base(pointer)
      BY <2>1 DEF Position, StandsAt
    <3> QED
      BY <3>2, <3>3, Starts
  <2>3. nbytes = Capacity * BLOCK_SZ
    BY <2>2, <1>1, <1>2, <1>3, <1>5, Constants
  <2>4. ~(size < Capacity * BLOCK_SZ)
    BY <2>3, <1>1, <1>3
  <2> QED
    BY <2>3, <2>4 DEF Stored, size
<1> QED
  BY <1>4, <1>5

LEMMA FinishPlacingKeeps ==
  ASSUME ImageInv, FinishPlacing
  PROVE  ImageInv'
<1> DEFINE ip == [Current EXCEPT !.size = nbytes]
<1>1. /\ pc = "place" /\ pc' = "write"
      /\ eof \/ (open = <<>> /\ pointer \notin BlockPointer)
      /\ rawdata' = WithInode(rawdata, job.pos, ip)
      /\ UNCHANGED <<image, job, bitmap, nbytes, eof, pointer, open, written,
                     extracted, placed>>
  BY DEF FinishPlacing, Current
<1>2. /\ TypeOK /\ RunInv /\ SeparateInv /\ LoopInv /\ ChainInv /\ PlacedInv /\ KeptInv
      /\ ExtractReturnsFiles /\ StateFacts
  BY StateType DEF ImageInv
<1>3. /\ ip \in Inode /\ ip.ptr = Current.ptr /\ ip.size = nbytes
      /\ ip.nlink = Current.nlink /\ ip.owner = Current.owner
  <2>1. Current \in Inode /\ nbytes \in Nat
    BY <1>1, <1>2 DEF StateFacts
  <2> QED
    BY <2>1 DEF Inode
<1> HIDE DEF ip
<1>4. /\ rawdata' \in Raw /\ InodesFirst(rawdata') /\ InodeAt(rawdata', job.pos) = ip
      /\ \A q \in InodePos \ {job.pos} : InodeAt(rawdata', q) = InodeAt(rawdata, q)
      /\ \A c \in Block \ InodeBlocks : rawdata'[c] = rawdata[c]
  BY <1>1, <1>2, <1>3, WithInodeType DEF StateFacts
<1>5. /\ Disk' = Disk /\ Reached' = Reached /\ Own' = Own /\ Current' = ip
      /\ Placed' = Placed
  <2>1. Disk' = Disk /\ Others' = Others
    BY <1>1 DEF Disk, Others
  <2> QED
    BY <2>1, <1>1, <1>4 DEF Reached, Own, Current, Placed
<1>6. TypeOK'
  <2>1. rawdata' \in [Block -> Content] /\ \A c \in Block : c < iblocks <=> rawdata'[c].kind = "inodes"
    BY <1>4 DEF Raw, InodesFirst
  <2> QED
    BY <2>1, <1>1, <1>2 DEF TypeOK
<1>7. RunInv'
  <2>1. 0 .. written - 1 = {}
    BY <1>1, <1>2 DEF RunInv
  <2> QED
    BY <2>1, <1>1, <1>2, <1>5 DEF RunInv
<1>8. SeparateInv'
  BY <1>1, <1>2, <1>4, <1>5 DEF SeparateInv
<1>9. \A k \in DOMAIN open : rawdata'[open[k].block] = rawdata[open[k].block]
  BY <1>1, <1>2, <1>4 DEF SeparateInv, Own, StateFacts
<1>10. Allocated' = Allocated /\ Position' = Position
  BY <1>1 DEF Allocated, Position
<1>11. LoopInv'
  <2>1. nbytes = Stored(job.file)
    BY <1>1, <1>2, EverythingRead
  <2> QED
    BY <2>1, <1>1, <1>2, <1>3, <1>5, <1>10 DEF LoopInv
<1>12. ChainInv'
  BY <1>1, <1>2, <1>3, <1>5, <1>9 DEF ChainInv
<1>13. PlacedInv'
  <2>1. Undisturbed
    <3>1. \A c \in Own : rawdata'[c] = rawdata[c]
      BY <1>2, <1>4 DEF Own, StateFacts
    <3>2. ASSUME NEW k \in DOMAIN open, NEW j \in 0 .. open[k].next - 1
          PROVE  rawdata[open[k].block].kind = "pointers"
      <4>1. open[k].next \in 0 .. Pointers
        BY <1>2, OpenType
      <4>2. open[k].next >= 1
        BY <4>1, Constants
      <4> QED
        BY <4>2, <1>1, <1>2 DEF ChainInv
    <3> QED
      BY <3>1, <3>2, <1>1, <1>3, <1>5, <1>9 DEF Undisturbed
  <2>2. \A k \in DOMAIN open : open[k].next \in Int /\ open[k].next <= open[k].next
    <3>1. \A k \in DOMAIN open : open[k].next \in 0 .. Pointers
      BY <1>2, OpenType
    <3> QED
      BY <3>1, Constants
  <2>3. pointer \in Int
    BY <1>2, Constants DEF TypeOK
  <2>4. \A m \in 0 .. Capacity - 1 : m < Allocated => Reachable(m)'
    BY <2>1, <2>2, <2>3, <1>1, <1>2, <1>5, OldStaysReachable
  <2> QED
    BY <2>4, <1>10 DEF PlacedInv
<1>14. KeptInv'
  <2>1. BlocksApart'
    BY <1>1, <1>2, <1>5 DEF KeptInv, BlocksApart
  <2> QED
    BY <2>1, <1>1, <1>2, <1>5 DEF KeptInv, FileInv
<1>15. ExtractReturnsFiles'
  BY <1>1, <1>2, <1>5 DEF ExtractReturnsFiles
<1> QED
  BY <1>6, <1>7, <1>8, <1>11, <1>12, <1>13, <1>14, <1>15 DEF ImageInv

-----------------------------------------------------------------------------
(* Writing the image back *)

\* What one fwrite does to the image.
LEMMA BlockWritten ==
  ASSUME TypeOK, RunInv, WriteBlock
  PROVE  /\ image' \in Seq(Content) /\ Len(image') <= nblocks /\ written \in Block
         /\ written + 1 <= Len(image') /\ Len(image) <= Len(image')
         /\ Disk' = [Disk EXCEPT ![written] = rawdata[written]]
         /\ Disk' \in Raw /\ InodesFirst(Disk')
<1> DEFINE new == IF written < Len(image)
                  THEN [image EXCEPT ![written + 1] = rawdata[written]]
                  ELSE Append(image, rawdata[written])
<1>1. /\ pc = "write" /\ written \in 0 .. nblocks /\ written < nblocks
      /\ written <= Len(image) /\ image' = new
      /\ image \in Seq(Content) /\ Len(image) <= nblocks /\ Len(image) \in Nat
  BY DEF WriteBlock, TypeOK, RunInv
<1>2. written \in Block /\ rawdata[written] \in Content /\ written \in Nat /\ nblocks \in Nat
  BY <1>1, Constants DEF TypeOK, Block
<1>3. /\ new \in Seq(Content) /\ Len(new) <= nblocks
      /\ written + 1 <= Len(new) /\ Len(image) <= Len(new)
      /\ new[written + 1] = rawdata[written]
      /\ \A i \in 1 .. Len(image) : i # written + 1 => new[i] = image[i]
      /\ Len(new) <= Len(image) \/ Len(new) = written + 1
  <2>1. CASE written < Len(image)
    BY <2>1, <1>1, <1>2
  <2>2. CASE ~(written < Len(image))
    <3>1. written = Len(image)
      BY <2>2, <1>1, <1>2
    <3> QED
      BY <2>2, <3>1, <1>1, <1>2
  <2> QED
    BY <2>1, <2>2
<1> HIDE DEF new
<1>4. Disk' = [b \in Block |-> IF b < Len(new) THEN new[b + 1] ELSE ZeroRaw[b]]
  BY <1>1 DEF Disk, Loaded
<1>5. Len(new) \in Nat
  BY <1>3
<1>6. \A b \in Block : b # written => Disk'[b] = Disk[b]
  <2> SUFFICES ASSUME NEW b \in Block, b # written PROVE Disk'[b] = Disk[b]
    OBVIOUS
  <2>1. b \in Nat
    BY DEF Block
  <2>2. b < Len(new) <=> b < Len(image)
    BY <2>1, <1>1, <1>2, <1>3, <1>5
  <2>3. CASE b < Len(image)
    <3>1. b + 1 \in 1 .. Len(image) /\ b + 1 # written + 1
      BY <2>1, <2>3, <1>1, <1>2
    <3> QED
      BY <3>1, <2>2, <2>3, <1>3, <1>4 DEF Disk, Loaded
  <2>4. CASE ~(b < Len(image))
    BY <2>2, <2>4, <1>4 DEF Disk, Loaded
  <2> QED
    BY <2>3, <2>4
<1>7. Disk'[written] = rawdata[written]
  BY <1>2, <1>3, <1>4, <1>5
<1>8. Disk \in Raw /\ InodesFirst(Disk) /\ InodesFirst(rawdata)
  BY StateType DEF StateFacts
<1>9. Disk' = [Disk EXCEPT ![written] = rawdata[written]]
  <2>1. Disk' = [b \in Block |-> Disk'[b]]
    BY <1>4
  <2> QED
    BY <2>1, <1>2, <1>6, <1>7, <1>8 DEF Raw
<1>10. Disk' \in Raw
  BY <1>2, <1>8, <1>9 DEF Raw
<1>11. InodesFirst(Disk')
  BY <1>6, <1>7, <1>8 DEF InodesFirst
<1> QED
  BY <1>1, <1>2, <1>3, <1>9, <1>10, <1>11

\* What others reach is not what the run writes.
LEMMA WrittenBesideOthers ==
  ASSUME ImageInv, WriteBlock
  PROVE  /\ \A q \in InodePos \ {job.pos} : InodeAt(Disk', q) = InodeAt(Disk, q)
         /\ \A b \in Block \ InodeBlocks : b \in Reached => Disk'[b] = Disk[b]
         /\ \A q \in Others :
              LET ip == InodeAt(Disk, q)
              IN  /\ \A m \in Visited(ip) : Nodes(Disk', ip, Path(m)) = Nodes(Disk, ip, Path(m))
                  /\ Marks(Disk', ip) = Marks(Disk, ip)
         /\ Others' = Others /\ Reached' = Reached
<1>1. /\ TypeOK /\ RunInv /\ SeparateInv /\ StateFacts /\ pc # "idle"
  BY StateType DEF ImageInv, WriteBlock
<1>2. job' = job
  BY DEF WriteBlock
<1>3. /\ written \in Block /\ Disk' \in Raw /\ InodesFirst(Disk')
      /\ Disk' = [Disk EXCEPT ![written] = rawdata[written]]
  BY <1>1, BlockWritten
<1>4. /\ Disk'[written] = rawdata[written]
      /\ \A b \in Block : b # written => Disk'[b] = Disk[b]
  BY <1>1, <1>3 DEF StateFacts, Raw
<1>5. ASSUME NEW q \in InodePos \ {job.pos}
      PROVE  InodeAt(Disk', q) = InodeAt(Disk, q)
  <2>1. q[1] \in Block /\ InodeAt(rawdata, q) = InodeAt(Disk, q)
    BY <1>1, InodeAtType DEF SeparateInv, StateFacts
  <2>2. CASE q[1] = written
    BY <2>1, <2>2, <1>4 DEF InodeAt
  <2>3. CASE q[1] # written
    BY <2>1, <2>3, <1>4 DEF InodeAt
  <2> QED
    BY <2>2, <2>3
<1>6. Others' = Others
  BY <1>2, <1>5 DEF Others
<1>7. \A b \in Block \ InodeBlocks : b \in Reached => Disk'[b] = Disk[b]
  BY <1>1, <1>4 DEF SeparateInv
<1>8. ASSUME NEW q \in Others
      PROVE  LET ip == InodeAt(Disk, q)
             IN  /\ \A m \in Visited(ip) :
                      Nodes(Disk', ip, Path(m)) = Nodes(Disk, ip, Path(m))
                 /\ Marks(Disk', ip) = Marks(Disk, ip)
  <2> DEFINE ip == InodeAt(Disk, q)
  <2>1. ip \in Inode /\ Disk \in Raw /\ InodesFirst(Disk)
    BY <1>1, InodeAtType DEF Others, StateFacts
  <2>2. Marks(Disk, ip) \subseteq Reached
    BY DEF Reached
  <2> HIDE DEF ip
  <2>3. ASSUME NEW m \in Visited(ip)
        PROVE  Nodes(Disk', ip, Path(m)) = Nodes(Disk, ip, Path(m))
    <3>1. m \in 0 .. Capacity - 1
      BY DEF Visited
    <3>2. \A i \in 1 .. Len(Path(m)) : Nodes(Disk, ip, Path(m))[i] \in Reached
      BY <2>2, MarksDef
    <3>3. \A i \in 1 .. Len(Path(m)) :
            LET b == Nodes(Disk, ip, Path(m))[i]
            IN  b \in Block \ InodeBlocks => Disk'[b] = Disk[b]
      BY <3>2, <1>7
    <3> QED
      BY <3>1, <3>3, <2>1, <1>3, WalkFramed
  <2>4. Marks(Disk', ip) = Marks(Disk, ip)
    <3>1. \A b : b \in Marks(Disk', ip) <=> b \in Marks(Disk, ip)
      BY <2>3, MarksDef
    <3> QED
      BY <3>1
  <2> QED
    BY <2>3, <2>4 DEF ip
<1>9. Reached' = Reached
  <2>1. \A q \in Others : Marks(Disk', InodeAt(Disk', q)) = Marks(Disk, InodeAt(Disk, q))
    BY <1>5, <1>8 DEF Others
  <2>2. Reached' = UNION {Marks(Disk', InodeAt(Disk', q)) : q \in Others}
    BY <1>6 DEF Reached
  <2> QED
    BY <2>1, <2>2 DEF Reached
<1> QED
  BY <1>5, <1>6, <1>7, <1>8, <1>9

LEMMA WriteBlockKeeps ==
  ASSUME ImageInv, WriteBlock
  PROVE  ImageInv'
<1>1. /\ TypeOK /\ RunInv /\ SeparateInv /\ LoopInv /\ ChainInv /\ PlacedInv /\ KeptInv
      /\ FileInv /\ StateFacts
  BY StateType DEF ImageInv, KeptInv
<1>2. /\ pc = "write" /\ written < nblocks /\ written' = written + 1
      /\ UNCHANGED <<pc, job, rawdata, bitmap, nbytes, eof, pointer, open,
                     extracted, placed>>
  BY DEF WriteBlock, memory
<1>3. /\ image' \in Seq(Content) /\ Len(image') <= nblocks /\ written \in Block
      /\ written + 1 <= Len(image') /\ Len(image) <= Len(image')
      /\ Disk' = [Disk EXCEPT ![written] = rawdata[written]]
      /\ Disk' \in Raw /\ InodesFirst(Disk')
  BY <1>1, BlockWritten
<1>4. /\ Disk'[written] = rawdata[written]
      /\ \A b \in Block : b # written => Disk'[b] = Disk[b]
  BY <1>1, <1>3 DEF StateFacts, Raw
<1>5. /\ \A q \in InodePos \ {job.pos} : InodeAt(Disk', q) = InodeAt(Disk, q)
      /\ \A b \in Block \ InodeBlocks : b \in Reached => Disk'[b] = Disk[b]
      /\ \A q \in Others :
           LET ip == InodeAt(Disk, q)
           IN  /\ \A m \in Visited(ip) : Nodes(Disk', ip, Path(m)) = Nodes(Disk, ip, Path(m))
               /\ Marks(Disk', ip) = Marks(Disk, ip)
      /\ Others' = Others /\ Reached' = Reached
  BY WrittenBesideOthers
<1>6. Own' = Own /\ Current' = Current /\ Allocated' = Allocated /\ Position' = Position
      /\ Placed' = Placed
  BY <1>2, <1>5 DEF Own, Current, Allocated, Position, Placed
<1>7. TypeOK'
  <2>1. written' \in 0 .. nblocks
    BY <1>2, <1>3, Constants DEF Block
  <2> QED
    BY <2>1, <1>1, <1>2, <1>3 DEF TypeOK
<1>8. RunInv'
  <2>1. \A b \in Block : Disk'[b].kind = "inodes" <=> b < iblocks
    BY <1>3 DEF InodesFirst
  <2>2. \A b \in 0 .. written : Disk'[b] = rawdata[b]
    <3> SUFFICES ASSUME NEW b \in 0 .. written PROVE Disk'[b] = rawdata[b]
      OBVIOUS
    <3>1. CASE b = written
      BY <3>1, <1>4
    <3>2. CASE b # written
      <4>1. b \in 0 .. written - 1 /\ b \in Block
        BY <3>2, <1>3, Constants DEF Block
      <4> QED
        BY <3>2, <4>1, <1>1, <1>2, <1>4 DEF RunInv
    <3> QED
      BY <3>1, <3>2
  <2>3. written' - 1 = written
    BY <1>2, <1>3, Constants DEF Block
  <2> QED
    BY <2>1, <2>2, <2>3, <1>1, <1>2, <1>3 DEF RunInv
<1>9. SeparateInv'
  <2>1. \A b \in Block \ InodeBlocks : rawdata[b] # Disk'[b] => b \notin Reached
    BY <1>1, <1>2, <1>4 DEF SeparateInv
  <2> QED
    BY <2>1, <1>1, <1>2, <1>5, <1>6 DEF SeparateInv
<1>10. LoopInv' /\ ChainInv'
  BY <1>1, <1>2, <1>6 DEF LoopInv, ChainInv
<1>11. PlacedInv'
  BY <1>1, <1>2, <1>6 DEF PlacedInv, Reachable
<1>12. Placed \subseteq Others /\ Placed \subseteq InodePos \ {job.pos}
  BY <1>1, <1>2 DEF Placed, Others, FileInv, KeptInv
<1>13. FileInv'
  <2> SUFFICES ASSUME NEW pos \in Placed
               PROVE  LET ip == InodeAt(Disk', pos)
                          f == placed[pos][1]
                      IN  /\ ip.nlink = 1 /\ ip.owner = placed[pos][2]
                          /\ ip.size = Stored(f)
                          /\ \A m \in Visited(ip) :
                               LET node == Nodes(Disk', ip, Path(m))
                                   n == Len(Path(m))
                               IN  /\ \A i \in 1 .. n : node[i] \in Block \ InodeBlocks
                                   /\ Disk'[node[n]] = DataBlock(f, m)
    BY <1>2, <1>6 DEF FileInv
  <2> DEFINE ip == InodeAt(Disk, pos)
             f == placed[pos][1]
  <2>1. InodeAt(Disk', pos) = ip /\ pos \in Others
    BY <1>5, <1>12
  <2>2. /\ ip.nlink = 1 /\ ip.owner = placed[pos][2] /\ ip.size = Stored(f)
        /\ \A m \in Visited(ip) :
             LET node == Nodes(Disk, ip, Path(m))
                 n == Len(Path(m))
             IN  /\ \A i \in 1 .. n : node[i] \in Block \ InodeBlocks
                 /\ Disk[node[n]] = DataBlock(f, m)
    BY <1>1 DEF FileInv
  <2>3. /\ \A m \in Visited(ip) : Nodes(Disk', ip, Path(m)) = Nodes(Disk, ip, Path(m))
        /\ Marks(Disk, ip) \subseteq Reached
    BY <2>1, <1>5 DEF Reached
  <2> HIDE DEF ip
  <2>4. ASSUME NEW m \in Visited(ip)
        PROVE  LET node == Nodes(Disk', ip, Path(m))
                   n == Len(Path(m))
               IN  /\ \A i \in 1 .. n : node[i] \in Block \ InodeBlocks
                   /\ Disk'[node[n]] = DataBlock(f, m)
    <3> DEFINE node == Nodes(Disk, ip, Path(m))
               n == Len(Path(m))
    <3>1. n \in 1 .. n
      BY PathType DEF Visited
    <3>2. node[n] \in Reached
      BY <3>1, <2>3, MarksDef
    <3>3. node[n] \in Block \ InodeBlocks /\ Disk[node[n]] = DataBlock(f, m)
      BY <3>1, <2>2
    <3>4. Disk'[node[n]] = DataBlock(f, m)
      BY <3>2, <3>3, <1>5
    <3> QED
      BY <3>4, <2>2, <2>3
  <2> QED
    BY <2>1, <2>2, <2>4
<1>14. BlocksApart'
  <2>1. \A pos \in Placed :
          Marks(Disk', InodeAt(Disk', pos)) = Marks(Disk, InodeAt(Disk, pos))
    BY <1>5, <1>12
  <2> QED
    BY <2>1, <1>1, <1>2, <1>6 DEF KeptInv, BlocksApart, Disk
<1>15. KeptInv'
  <2>1. Placed # {} => Len(image') = nblocks
    BY <1>1, <1>3, Constants DEF KeptInv
  <2> QED
    BY <2>1, <1>1, <1>2, <1>6, <1>13, <1>14 DEF KeptInv
<1>16. ExtractReturnsFiles'
  BY <1>1, <1>2 DEF RunInv, ExtractReturnsFiles
<1> QED
  BY <1>7, <1>8, <1>9, <1>10, <1>11, <1>15, <1>16 DEF ImageInv

-----------------------------------------------------------------------------
(* The end of a run, and extractions *)

\* The blocks a walk visits are those that hold bytes of the file.
LEMMA RemainingBlocks ==
  ASSUME NEW ip, ip.size \in Nat, NEW m \in Nat
  PROVE  /\ remaining_blocks(ip) \in Int
         /\ m < remaining_blocks(ip) <=> m * BLOCK_SZ < ip.size
<1> DEFINE x == ip.size
           q == x \div BLOCK_SZ
           r == x % BLOCK_SZ
<1>1. q \in Int /\ r \in 0 .. BLOCK_SZ - 1 /\ x = BLOCK_SZ * q + r /\ x \in Int
  <2>1. x \in Int /\ BLOCK_SZ \in Nat /\ BLOCK_SZ > 0
    BY Constants
  <2> HIDE DEF x
  <2> QED
    BY <2>1, Division
<1>2. remaining_blocks(ip) = IF r = 0 THEN q ELSE q + 1
  BY DEF remaining_blocks
<1> HIDE DEF x, q, r
<1>3. m * BLOCK_SZ = BLOCK_SZ * m /\ BLOCK_SZ * m \in Int /\ BLOCK_SZ * q \in Int
  BY <1>1, Constants
<1>4. m + 1 <= q => BLOCK_SZ * m + BLOCK_SZ <= BLOCK_SZ * q
  <2> SUFFICES ASSUME m + 1 <= q PROVE BLOCK_SZ * m + BLOCK_SZ <= BLOCK_SZ * q
    OBVIOUS
  <2>1. BLOCK_SZ * (m + 1) <= BLOCK_SZ * q
    BY <1>1, Product, Constants
  <2>2. BLOCK_SZ * (m + 1) = BLOCK_SZ * m + BLOCK_SZ
    BY Constants
  <2> QED
    BY <2>1, <2>2
<1>5. m <= q => BLOCK_SZ * m <= BLOCK_SZ * q
  BY <1>1, Product, Constants
<1>6. q <= m => BLOCK_SZ * q <= BLOCK_SZ * m
  BY <1>1, Product, Constants
<1>7. q + 1 <= m => BLOCK_SZ * q + BLOCK_SZ <= BLOCK_SZ * m
  <2> SUFFICES ASSUME q + 1 <= m PROVE BLOCK_SZ * q + BLOCK_SZ <= BLOCK_SZ * m
    OBVIOUS
  <2>1. BLOCK_SZ * (q + 1) <= BLOCK_SZ * m
    BY <1>1, Product, Constants
  <2>2. BLOCK_SZ * (q + 1) = BLOCK_SZ * q + BLOCK_SZ
    BY <1>1, Constants
  <2> QED
    BY <2>1, <2>2
<1> DEFINE bm == BLOCK_SZ * m
           bq == BLOCK_SZ * q
<1>8. bm \in Int /\ bq \in Int /\ x = bq + r /\ m * BLOCK_SZ = bm /\ BLOCK_SZ \in Nat
      /\ BLOCK_SZ > 0
  BY <1>1, <1>3, Constants
<1>9. /\ m + 1 <= q => bm + BLOCK_SZ <= bq
      /\ m <= q => bm <= bq
      /\ q <= m => bq <= bm
      /\ q + 1 <= m => bq + BLOCK_SZ <= bm
  BY <1>4, <1>5, <1>6, <1>7
<1> HIDE DEF bm, bq
<1>10. m < remaining_blocks(ip) <=> bm < x
  <2>1. CASE r = 0
    BY <2>1, <1>1, <1>2, <1>8, <1>9
  <2>2. CASE r # 0
    BY <2>2, <1>1, <1>2, <1>8, <1>9
  <2> QED
    BY <2>1, <2>2
<1>11. remaining_blocks(ip) \in Int
  BY <1>1, <1>2
<1> QED
  BY <1>8, <1>10, <1>11 DEF x

\* The loops of extract_files and those of recreate_bitmap agree on where each
\* level ends.
LEMMA WalksAlike ==
  ASSUME NEW m \in 0 .. Capacity - 1
  PROVE  ReadPath(m) = Path(m)
<1> DEFINE a == N_IBLOCKS * Pointers
           s == PointersSquared
           below == m - N_DBLOCKS
           direct == <<m>>
           single == <<N_DBLOCKS + below \div Pointers, below % Pointers>>
           double(k) == <<N_DBLOCKS + N_IBLOCKS, k \div Pointers, k % Pointers>>
           triple(k) == <<N_DBLOCKS + N_IBLOCKS + 1, k \div s,
                          (k \div Pointers) % Pointers, k % Pointers>>
<1>1. /\ m \in Int /\ N_DBLOCKS \in Int /\ a \in Int /\ s \in Int /\ 0 <= s
      /\ 0 <= a /\ below \in Int
  BY Constants
<1>2. ReadPath(m) = CASE below < 0 -> direct
                      [] 0 <= below /\ below < a -> single
                      [] a <= below /\ below < a + s -> double(below - a)
                      [] OTHER -> triple(below - (a + s))
  BY Zenon DEF ReadPath
<1>3. Path(m) = IF below < 0 THEN direct
                ELSE IF below - a < 0 THEN single
                ELSE IF (below - a) - s < 0 THEN double(below - a)
                ELSE triple((below - a) - s)
  BY Zenon DEF Path
<1> HIDE DEF a, s, below, direct, single, double, triple
<1>4. (below - a) - s = below - (a + s)
  BY <1>1
<1>5. CASE below < 0
  <2>1. ~(0 <= below) /\ ~(a <= below)
    BY <1>1, <1>5
  <2>2. ReadPath(m) = direct
    BY <1>2, <1>5, <2>1, Zenon
  <2>3. Path(m) = direct
    BY <1>3, <1>5, Zenon
  <2> QED
    BY <2>2, <2>3
<1>6. CASE ~(below < 0) /\ below - a < 0
  <2>1. 0 <= below /\ below < a /\ ~(a <= below)
    BY <1>1, <1>6
  <2> QED
    BY <1>2, <1>3, <1>6, <2>1
<1>7. CASE ~(below < 0) /\ ~(below - a < 0) /\ (below - a) - s < 0
  <2>1. ~(below < a) /\ a <= below /\ below < a + s
    BY <1>1, <1>7
  <2> QED
    BY <1>2, <1>3, <1>7, <2>1
<1>8. CASE ~(below < 0) /\ ~(below - a < 0) /\ ~((below - a) - s < 0)
  <2>1. ~(below < a) /\ ~(below < a + s)
    BY <1>1, <1>8
  <2> QED
    BY <1>2, <1>3, <1>4, <1>8, <2>1
<1> QED
  BY <1>5, <1>6, <1>7, <1>8

LEMMA FilesReadable ==
  StateFacts /\ FileInv => FilesSurvive
<1> SUFFICES ASSUME StateFacts, FileInv, NEW pos \in Placed
             PROVE  LET ip == InodeAt(Disk, pos)
                    IN  /\ Disk[pos[1]].kind = "inodes"
                        /\ ip.size = Stored(placed[pos][1])
                        /\ DataOf(Disk, ip) = PartsOf(placed[pos][1])
  BY DEF FilesSurvive, Disk
<1> DEFINE ip == InodeAt(Disk, pos)
           f == placed[pos][1]
<1>1. /\ ip.size = Stored(f)
      /\ \A m \in Visited(ip) :
           LET node == Nodes(Disk, ip, Path(m))
               n == Len(Path(m))
           IN  /\ \A i \in 1 .. n : node[i] \in Block \ InodeBlocks
               /\ Disk[node[n]] = DataBlock(f, m)
  BY DEF FileInv
<1>2. ip \in Inode /\ Disk[pos[1]].kind = "inodes"
  BY InodeAtType DEF StateFacts, Placed
<1>3. ip.size \in Nat
  BY <1>2 DEF Inode
<1> HIDE DEF ip, f
<1>4. Visited(ip) = {m \in 0 .. Capacity - 1 : m * BLOCK_SZ < Stored(f)}
  <2>1. \A m \in 0 .. Capacity - 1 : m \in Nat
    OBVIOUS
  <2> QED
    BY <2>1, <1>1, <1>3, RemainingBlocks DEF Visited
<1>5. \A m \in Visited(ip) :
        LET b == Nodes(Disk, ip, Path(m))[Len(Path(m))]
        IN  b # Wild /\ Disk[b] = DataBlock(f, m)
  <2> SUFFICES ASSUME NEW m \in Visited(ip)
               PROVE  LET b == Nodes(Disk, ip, Path(m))[Len(Path(m))]
                      IN  b # Wild /\ Disk[b] = DataBlock(f, m)
    OBVIOUS
  <2>1. Len(Path(m)) \in 1 .. Len(Path(m))
    BY PathType DEF Visited
  <2>2. Nodes(Disk, ip, Path(m))[Len(Path(m))] \in Block
    BY <2>1, <1>1
  <2> QED
    BY <2>2, <1>1, Constants
<1>6. DataOf(Disk, ip) = [m \in Visited(ip) |-> DataBlock(f, m)]
  <2>1. \A m \in Visited(ip) : ReadPath(m) = Path(m)
    BY WalksAlike DEF Visited
  <2> QED
    BY <1>5, <2>1 DEF DataOf
<1>7. PartsOf(f) = [m \in {i \in 0 .. Capacity - 1 : i * BLOCK_SZ < Stored(f)} |-> DataBlock(f, m)]
  BY DEF PartsOf
<1> QED
  BY <1>1, <1>2, <1>4, <1>6, <1>7 DEF ip, f

LEMMA DoneKeeps ==
  ASSUME ImageInv, Done
  PROVE  ImageInv'
<1> DEFINE f == job.file
           file == <<job.file, job.owner>>
<1>1. /\ pc = "write" /\ written = nblocks /\ pc' = "idle"
      /\ placed' = [placed EXCEPT ![job.pos] = file]
      /\ UNCHANGED <<image, job, rawdata, bitmap, nbytes, eof, pointer, open,
                     written, extracted>>
  BY DEF Done, memory
<1>2. /\ TypeOK /\ RunInv /\ SeparateInv /\ LoopInv /\ ChainInv /\ PlacedInv /\ KeptInv
      /\ FileInv /\ StateFacts
  BY StateType DEF ImageInv, KeptInv
<1>3. job.pos \in InodePos /\ f \in Files /\ job.owner \in Owners /\ Current \in Inode
  BY <1>1, <1>2 DEF StateFacts
<1>4. Disk = rawdata
  <2>1. \A b \in Block : Disk[b] = rawdata[b]
    BY <1>1, <1>2 DEF RunInv, Block
  <2> QED
    BY <2>1, <1>2 DEF StateFacts, Raw
<1>5. Disk' = Disk
  BY <1>1 DEF Disk
<1>6. /\ placed'[job.pos] = file /\ file # NoFile
      /\ placed' \in [InodePos -> (Files \X Owners) \cup {NoFile}]
      /\ \A q \in InodePos \ {job.pos} : placed'[q] = placed[q]
      /\ Placed' = Placed \cup {job.pos} /\ job.pos \notin Placed
  <2>1. file \in Files \X Owners /\ placed \in [InodePos -> (Files \X Owners) \cup {NoFile}]
    BY <1>2, <1>3 DEF TypeOK
  <2>2. /\ placed'[job.pos] = file
        /\ placed' \in [InodePos -> (Files \X Owners) \cup {NoFile}]
        /\ \A q \in InodePos \ {job.pos} : placed'[q] = placed[q]
    BY <2>1, <1>1, <1>3
  <2>3. job.pos \notin Placed
    BY <1>1, <1>2 DEF KeptInv, Placed
  <2>4. file # NoFile => Placed' = Placed \cup {job.pos}
    BY <2>2, <1>3 DEF Placed
  <2>5. file # NoFile
    BY <2>1, ImageAssumption
  <2> QED
    BY <2>2, <2>3, <2>4, <2>5
<1>7. TypeOK'
  BY <1>1, <1>2, <1>6 DEF TypeOK
<1>8. (RunInv /\ SeparateInv /\ LoopInv /\ ChainInv /\ PlacedInv)'
  BY <1>1, <1>2, <1>5 DEF RunInv, SeparateInv, LoopInv, ChainInv, PlacedInv
<1>9. InodeAt(Disk, job.pos) = Current
  BY <1>4 DEF Current
<1>10. /\ Current.nlink = 1 /\ Current.owner = job.owner
       /\ Current.size = nbytes /\ nbytes = Stored(f) /\ nbytes \in Nat
       /\ nbytes <= FileSize[f] /\ FileSize[f] \in Nat
  BY <1>1, <1>2 DEF LoopInv, StateFacts
<1>11. \A m \in Visited(Current) : /\ m \in 0 .. Capacity - 1 /\ m < Allocated
                                  /\ m * BLOCK_SZ < FileSize[f]
  <2> SUFFICES ASSUME NEW m \in Visited(Current)
               PROVE  m < Allocated /\ m * BLOCK_SZ < FileSize[f]
    BY DEF Visited
  <2>1. m \in Nat /\ m < remaining_blocks(Current)
    BY DEF Visited
  <2>2. m * BLOCK_SZ < nbytes /\ remaining_blocks(Current) \in Int
    BY <2>1, <1>10, RemainingBlocks
  <2>3. m * BLOCK_SZ \in Int
    BY <2>1, Constants
  <2>4. nbytes \div BLOCK_SZ \in Int
    BY <1>10, Division, Constants
  <2>5. remaining_blocks(Current) <= Allocated
    <3>1. CASE eof
      BY <3>1, <2>4, <1>10 DEF remaining_blocks, Allocated
    <3>2. CASE ~eof
      <4>1. nbytes % BLOCK_SZ = 0
        BY <3>2, <1>1, <1>2 DEF LoopInv
      <4> QED
        BY <3>2, <4>1, <2>4, <1>10 DEF remaining_blocks, Allocated
    <3> QED
      BY <3>1, <3>2
  <2>6. Allocated \in Int
    BY <2>4 DEF Allocated
  <2> QED
    BY <2>1, <2>2, <2>3, <2>5, <2>6, <1>10
<1>12. \A m \in Visited(Current) :
         LET node == Nodes(Disk, Current, Path(m))
             n == Len(Path(m))
         IN  /\ \A i \in 1 .. n : node[i] \in Own
             /\ Disk[node[n]] = DataBlock(f, m)
  BY <1>1, <1>2, <1>4, <1>11 DEF PlacedInv, Reachable
<1>13. Own \subseteq Block \ InodeBlocks /\ Own \cap Reached = {}
  BY <1>2 DEF Own, StateFacts
<1>14. Marks(Disk, Current) \subseteq Own
  BY <1>12, MarksDef
<1>15. \A q \in Placed : q \in Others /\ Marks(Disk, InodeAt(Disk, q)) \subseteq Reached
  <2>1. \A q \in Placed : q \in Others
    BY <1>2, <1>6 DEF Placed, Others, FileInv
  <2> QED
    BY <2>1 DEF Reached
<1>16. FileInv'
  <2> SUFFICES ASSUME NEW pos \in Placed \cup {job.pos}
               PROVE  LET ip == InodeAt(Disk, pos)
                          g == placed'[pos][1]
                      IN  /\ ip.nlink = 1 /\ ip.owner = placed'[pos][2]
                          /\ ip.size = Stored(g)
                          /\ \A m \in Visited(ip) :
                               LET node == Nodes(Disk, ip, Path(m))
                                   n == Len(Path(m))
                               IN  /\ \A i \in 1 .. n : node[i] \in Block \ InodeBlocks
                                   /\ Disk[node[n]] = DataBlock(g, m)
    BY <1>5, <1>6 DEF FileInv
  <2>1. CASE pos \in Placed
    <3>1. placed'[pos] = placed[pos]
      BY <2>1, <1>6 DEF Placed
    <3> QED
      BY <2>1, <3>1, <1>2 DEF FileInv
  <2>2. CASE pos = job.pos
    <3>1. placed'[pos][1] = f /\ placed'[pos][2] = job.owner
      BY <2>2, <1>6
    <3>2. InodeAt(Disk, pos) = Current
      BY <2>2, <1>9
    <3> QED
      BY <3>1, <3>2, <1>10, <1>12, <1>13
  <2> QED
    BY <2>1, <2>2
<1>17. BlocksApart'
  <2> DEFINE Of(pos) == Marks(Disk, InodeAt(Disk, pos))
  <2>1. \A p \in Placed : /\ Of(p) \cap InodeBlocks = {}
                          /\ \A q \in Placed \ {p} : Of(p) \cap Of(q) = {}
    BY <1>2 DEF KeptInv, BlocksApart, Disk
  <2>2. Of(job.pos) \subseteq Own
    BY <1>9, <1>14
  <2>3. \A q \in Placed : Of(q) \subseteq Reached
    BY <1>15
  <2> HIDE DEF Of
  <2>4. \A p \in Placed \cup {job.pos} :
          /\ Of(p) \cap InodeBlocks = {}
          /\ \A q \in (Placed \cup {job.pos}) \ {p} : Of(p) \cap Of(q) = {}
    BY <2>1, <2>2, <2>3, <1>13
  <2>5. \A p \in Placed' :
          /\ Of(p) \cap InodeBlocks = {}
          /\ \A q \in Placed' \ {p} : Of(p) \cap Of(q) = {}
    BY <2>4, <1>6
  <2> QED
    BY <2>5, <1>1 DEF BlocksApart, Of, Disk
<1>18. KeptInv'
  <2>1. Len(image) = nblocks
    <3>1. written <= Len(image) /\ Len(image) <= nblocks /\ Len(image) \in Nat
      BY <1>1, <1>2 DEF RunInv, TypeOK
    <3> QED
      BY <3>1, <1>1, Constants
  <2> QED
    BY <2>1, <1>1, <1>16, <1>17 DEF KeptInv
<1>19. ExtractReturnsFiles'
  BY <1>1, <1>2 DEF RunInv, ExtractReturnsFiles
<1> QED
  BY <1>7, <1>8, <1>18, <1>19 DEF ImageInv

LEMMA AbortKeeps ==
  ASSUME ImageInv, Abort
  PROVE  ImageInv'
<1>1. /\ pc \in {"place", "write"} /\ pc' = "idle"
      /\ UNCHANGED <<image, job, rawdata, bitmap, nbytes, eof, pointer, open,
                     written, extracted, placed>>
  BY DEF Abort, memory
<1>2. Disk' = Disk /\ Placed' = Placed
  BY <1>1 DEF Disk, Placed
<1>3. TypeOK' /\ RunInv'
  BY <1>1, <1>2 DEF ImageInv, TypeOK, RunInv
<1>4. (SeparateInv /\ LoopInv /\ ChainInv /\ PlacedInv)'
  BY <1>1 DEF SeparateInv, LoopInv, ChainInv, PlacedInv
<1>5. BlocksApart'
  BY <1>1, <1>2 DEF ImageInv, KeptInv, BlocksApart
<1>6. KeptInv'
  BY <1>1, <1>2, <1>5 DEF ImageInv, KeptInv, FileInv
<1>7. ExtractReturnsFiles'
  BY <1>1, <1>2 DEF ImageInv, ExtractReturnsFiles
<1> QED
  BY <1>3, <1>4, <1>6, <1>7 DEF ImageInv

LEMMA ExtractKeeps ==
  ASSUME ImageInv, NEW owner \in Owners, Extract(owner)
  PROVE  ImageInv'
<1> DEFINE ip(q) == Slots(Disk, q[1])[q[2]]
           file(q) == [pos |-> q, content |-> DataOf(Disk, ip(q))]
           files == {file(q) : q \in Found(Disk, owner)}
<1>1. /\ pc = "idle"
      /\ \/ extracted' = {[owner |-> owner, astray |-> FALSE, files |-> files]}
         \/ extracted' = {[owner |-> owner, astray |-> TRUE, files |-> {}]}
      /\ UNCHANGED <<image, pc, job, rawdata, bitmap, nbytes, eof, pointer, open,
                     written, placed>>
  BY DEF Extract, Disk, memory
<1>2. TypeOK /\ RunInv /\ KeptInv /\ FileInv /\ StateFacts
  BY StateType DEF ImageInv, KeptInv
<1>3. Disk' = Disk /\ Placed' = Placed
  BY <1>1 DEF Disk, Placed
<1>4. TypeOK' /\ RunInv'
  BY <1>1, <1>2, <1>3 DEF TypeOK, RunInv
<1>5. (SeparateInv /\ LoopInv /\ ChainInv /\ PlacedInv)'
  BY <1>1 DEF SeparateInv, LoopInv, ChainInv, PlacedInv
<1>6. BlocksApart'
  BY <1>1, <1>2, <1>3 DEF KeptInv, BlocksApart
<1>7. KeptInv'
  BY <1>1, <1>2, <1>3, <1>6 DEF KeptInv, FileInv
<1>8. ASSUME NEW pos \in Placed, placed[pos][2] = owner
      PROVE  \E r \in files : r.pos = pos /\ r.content = PartsOf(placed[pos][1])
  <2>1. /\ pos \in InodePos /\ pos[1] \in Block /\ pos[2] \in 0 .. InodesPer - 1
        /\ pos = <<pos[1], pos[2]>> /\ Disk[pos[1]].kind = "inodes"
        /\ Disk[pos[1]].slot \in [0 .. InodesPer - 1 -> Inode]
    BY <1>2, InodeAtType DEF Placed, StateFacts
  <2>2. Slots(Disk, pos[1]) = Disk[pos[1]].slot
    BY <2>1 DEF Slots
  <2>3. ip(pos) = InodeAt(Disk, pos)
    BY <2>2 DEF InodeAt
  <2>4. pos[2] \in DOMAIN Slots(Disk, pos[1]) /\ ip(pos).owner = owner
    BY <2>1, <2>2, <2>3, <1>2, <1>8 DEF FileInv
  <2>5. pos \in (0 .. Len(image) - 1) \X (0 .. InodesPer - 1)
    <3>1. Len(image) = nblocks
      BY <1>2 DEF KeptInv
    <3> QED
      BY <2>1, <3>1 DEF Block
  <2>6. pos \in Found(Disk, owner)
    BY <2>4, <2>5 DEF Found
  <2>7. DataOf(Disk, InodeAt(Disk, pos)) = PartsOf(placed[pos][1])
    BY <1>2, FilesReadable DEF FilesSurvive, Disk
  <2>8. file(pos) \in files /\ file(pos).pos = pos /\ file(pos).content = DataOf(Disk, ip(pos))
    BY <2>6
  <2> QED
    BY <2>3, <2>7, <2>8
<1> HIDE DEF files
<1>9. ExtractReturnsFiles'
  <2>1. CASE extracted' = {[owner |-> owner, astray |-> FALSE, files |-> files]}
    BY <2>1, <1>1, <1>3, <1>8 DEF ExtractReturnsFiles
  <2>2. CASE extracted' = {[owner |-> owner, astray |-> TRUE, files |-> {}]}
    BY <2>2 DEF ExtractReturnsFiles
  <2> QED
    BY <1>1, <2>1, <2>2
<1> QED
  BY <1>4, <1>5, <1>7, <1>9 DEF ImageInv

\* A run that goes astray, and what is known from then on.
AstrayInv == IF pc = "astray" THEN TypeOK /\ extracted = {} ELSE ImageInv

LEMMA AstrayKeeps ==
  ASSUME AstrayInv, InsertAstray \/ WriteAstray
  PROVE  AstrayInv'
<1>1. TypeOK
  BY DEF AstrayInv, ImageInv
<1>2. /\ pc' = "astray" /\ extracted' = {}
      /\ UNCHANGED <<job, rawdata, bitmap, nbytes, eof, pointer, open, written, placed>>
  BY DEF InsertAstray, WriteAstray, AstrayInv, memory
<1>3. image' \in Seq(Content) /\ Len(image') <= nblocks
  <2>1. CASE image' = image
    BY <2>1, <1>1 DEF TypeOK
  <2>2. CASE \E b \in Block : b < Len(image) /\ image' = [image EXCEPT ![b + 1] = SpoiltBlock]
    <3>1. PICK b \in Block : b < Len(image) /\ image' = [image EXCEPT ![b + 1] = SpoiltBlock]
      BY <2>2
    <3>2. SpoiltBlock \in Content /\ image \in Seq(Content) /\ Len(image) <= nblocks
      BY <1>1, ContentBuilt DEF TypeOK
    <3>3. b + 1 \in 1 .. Len(image)
      BY <3>1, <3>2 DEF Block
    <3> QED
      BY <3>1, <3>2, <3>3
  <2> QED
    BY <2>1, <2>2 DEF InsertAstray, WriteAstray
<1>4. TypeOK'
  BY <1>1, <1>2, <1>3 DEF TypeOK
<1> QED
  BY <1>2, <1>4 DEF AstrayInv

LEMMA NothingElseAstray ==
  ASSUME pc = "astray", Next
  PROVE  WriteAstray
BY DEF Next, Create, Insert, InsertAstray, FillInode, FillPointers, CloseBlock,
       FinishPlacing, WriteBlock, Done, Abort, Extract

LEMMA ImageStep == ImageInv /\ [Next]_vars => AstrayInv'
<1> SUFFICES ASSUME ImageInv, [Next]_vars PROVE AstrayInv'
  OBVIOUS
<1>0. pc # "astray" /\ AstrayInv
  BY DEF ImageInv, RunInv, AstrayInv
<1> SUFFICES ASSUME ~(InsertAstray \/ WriteAstray) PROVE ImageInv'
  <2>1. ImageInv' => pc' # "astray"
    BY DEF ImageInv, RunInv
  <2> QED
    BY <1>0, <2>1, AstrayKeeps DEF AstrayInv
<1>1. CASE \E in \in Inputs, pos \in InodePos :
             Create(in[1], in[2], pos) \/ Insert(in[1], in[2], pos)
  <2>1. PICK in \in Inputs, pos \in InodePos :
          Create(in[1], in[2], pos) \/ Insert(in[1], in[2], pos)
    BY <1>1
  <2>2. in[1] \in Files /\ in[2] \in Owners
    BY ImageAssumption
  <2> QED
    BY <2>1, <2>2, CreateKeeps, InsertKeeps
<1>2. CASE FillInode
  BY <1>2, FillInodeKeeps
<1>3. CASE FillPointers
  BY <1>3, FillPointersKeeps
<1>4. CASE CloseBlock
  BY <1>4, CloseBlockKeeps
<1>5. CASE FinishPlacing
  BY <1>5, FinishPlacingKeeps
<1>6. CASE WriteBlock
  BY <1>6, WriteBlockKeeps
<1>7. CASE Done
  BY <1>7, DoneKeeps
<1>8. CASE Abort
  BY <1>8, AbortKeeps
<1>9. CASE \E owner \in Owners : Extract(owner)
  BY <1>9, ExtractKeeps
<1>10. CASE UNCHANGED vars
  <2>1. UNCHANGED <<image, pc, job, rawdata, bitmap, nbytes, eof, pointer, open,
                    written, extracted, placed>>
    BY <1>10 DEF vars, memory
  <2>2. /\ Disk' = Disk /\ Others' = Others /\ Current' = Current /\ Placed' = Placed
        /\ Allocated' = Allocated /\ Position' = Position
    BY <2>1 DEF Disk, Others, Current, Placed, Allocated, Position
  <2>3. Reached' = Reached /\ Own' = Own
    BY <2>1, <2>2 DEF Reached, Own
  <2>4. (TypeOK /\ RunInv /\ SeparateInv /\ LoopInv /\ ChainInv)'
    BY <2>1, <2>2, <2>3 DEF ImageInv, TypeOK, RunInv, SeparateInv, LoopInv, ChainInv
  <2>5. PlacedInv'
    BY <2>1, <2>2, <2>3 DEF ImageInv, PlacedInv, Reachable
  <2>6. (BlocksApart /\ ExtractReturnsFiles)'
    BY <2>1, <2>2 DEF ImageInv, KeptInv, BlocksApart, ExtractReturnsFiles
  <2>7. KeptInv'
    BY <2>1, <2>2, <2>6 DEF ImageInv, KeptInv, FileInv
  <2> QED
    BY <2>4, <2>5, <2>6, <2>7 DEF ImageInv
<1> QED
  BY <1>1, <1>2, <1>3, <1>4, <1>5, <1>6, <1>7, <1>8, <1>9, <1>10 DEF Next

LEMMA ImageAlways == Spec => []AstrayInv
<1>1. Init => AstrayInv
  BY ImageInit DEF AstrayInv, ImageInv, RunInv
<1>2. AstrayInv /\ [Next]_vars => AstrayInv'
  <2> SUFFICES ASSUME AstrayInv, [Next]_vars PROVE AstrayInv'
    OBVIOUS
  <2>1. CASE pc # "astray"
    BY <2>1, ImageStep DEF AstrayInv
  <2>2. CASE pc = "astray" /\ Next
    BY <2>2, NothingElseAstray, AstrayKeeps
  <2>3. CASE UNCHANGED vars /\ pc = "astray"
    <3>1. /\ UNCHANGED <<image, pc, job, rawdata, bitmap, nbytes, eof, pointer, open,
                         written, extracted, placed>>
      BY <2>3 DEF vars, memory
    <3> QED
      BY <2>3, <3>1 DEF AstrayInv, TypeOK
  <2> QED
    BY <2>1, <2>2, <2>3
<1> QED
  BY <1>1, <1>2, PTL DEF Spec

-----------------------------------------------------------------------------
(* Theorems *)

\* The variables keep their types: every block of the image and of the copy in
\* memory is of one kind, inodes are where they belong, and the loops of
\* place_file have at most three pointer blocks open.
THEOREM TypeCorrect == Spec => []TypeOK
<1>1. AstrayInv => TypeOK
  BY DEF AstrayInv, ImageInv
<1> QED
  BY <1>1, ImageAlways, PTL

\* Whatever runs follow, and wherever they are killed, a file whose placement
\* was completed reads back from the image, as long as no recreate_bitmap has
\* stored outside of the bitmap.
THEOREM FilesAreKept == Spec => []FilesReadBack
<1>1. AstrayInv => FilesReadBack
  BY StateType, FilesReadable DEF AstrayInv, ImageInv, KeptInv, FilesReadBack
<1> QED
  BY <1>1, ImageAlways, PTL

\* The bitmap that recreate_bitmap rebuilds and the allocations from it never
\* give a block to two files, nor a block of inodes to a file, with the same
\* exception.
THEOREM BlocksAreNotShared == Spec => []NoBlockShared
<1>1. AstrayInv => NoBlockShared
  BY DEF AstrayInv, ImageInv, KeptInv, BlocksApart, NoBlockShared, Disk
<1> QED
  BY <1>1, ImageAlways, PTL

\* extract_files returns every file of the owner, whole and in order, if it does
\* not store outside of the bitmap itself.
THEOREM ExtractionsReturnFiles == Spec => []ExtractReturnsFiles
<1>1. AstrayInv => ExtractReturnsFiles
  BY DEF AstrayInv, ImageInv, ExtractReturnsFiles
<1> QED
  BY <1>1, ImageAlways, PTL

\* A run of insert that has not gone astray writes its inode and blocks no other
\* inode reaches, and nothing else.
THEOREM InsertionsOnlyAdd == Spec => InsertOnlyAdds
<1> DEFINE Adds ==
      job'.command = "insert" /\ pc # "astray" =>
       LET before == Loaded(image)
           after == Loaded(image')
           others == {q \in InodePos \ {job'.pos} : InodeAt(before, q).nlink # 0}
       IN  \A b \in Block : before[b] # after[b] =>
             IF b \in InodeBlocks
             THEN \A i \in 0 .. InodesPer - 1 : <<b, i>> # job'.pos =>
                    after[b].slot[i] = before[b].slot[i]
             ELSE \A q \in others : b \notin Marks(before, InodeAt(before, q))
<1>1. AstrayInv /\ [Next]_vars => [Adds]_vars
  <2> SUFFICES ASSUME ImageInv, Next, job'.command = "insert", pc # "astray" PROVE Adds
    BY DEF AstrayInv
  <2>1. CASE image' = image
    BY <2>1
  <2>2. CASE \E in \in Inputs, pos \in InodePos : Create(in[1], in[2], pos)
    BY <2>2 DEF Create, StartPlacing
  <2>3. CASE WriteBlock
    <3>1. /\ TypeOK /\ RunInv /\ SeparateInv /\ StateFacts /\ pc # "idle" /\ job' = job
      BY <2>3, StateType DEF ImageInv, WriteBlock
    <3>2. written \in Block /\ Disk' = [Disk EXCEPT ![written] = rawdata[written]]
      BY <3>1, <2>3, BlockWritten
    <3>3. /\ Disk'[written] = rawdata[written]
          /\ \A b \in Block : b # written => Disk'[b] = Disk[b]
      BY <3>1, <3>2 DEF StateFacts, Raw
    <3>4. ASSUME NEW b \in InodeBlocks, Disk[b] # Disk'[b], NEW i \in 0 .. InodesPer - 1,
                 <<b, i>> # job.pos
          PROVE  Disk'[b].slot[i] = Disk[b].slot[i]
      <4>1. b = written
        BY <3>3, <3>4, Constants
      <4>2. <<b, i>> \in InodePos \ {job.pos}
        BY <3>4 DEF InodePos
      <4>3. InodeAt(rawdata, <<b, i>>) = InodeAt(Disk, <<b, i>>)
        BY <4>2, <3>1 DEF SeparateInv
      <4> QED
        BY <4>1, <4>3, <3>3 DEF InodeAt
    <3>5. ASSUME NEW b \in Block \ InodeBlocks, Disk[b] # Disk'[b], NEW q \in Others
          PROVE  b \notin Marks(Disk, InodeAt(Disk, q))
      <4>1. b = written
        BY <3>3, <3>5
      <4>2. b \notin Reached
        BY <4>1, <3>1, <3>3, <3>5 DEF SeparateInv
      <4> QED
        BY <4>2 DEF Reached
    <3>6. Others = {q \in InodePos \ {job'.pos} : InodeAt(Loaded(image), q).nlink # 0}
      BY <3>1 DEF Others, Disk
    <3>7. Disk = Loaded(image) /\ Disk' = Loaded(image')
      BY DEF Disk
    <3> QED
      BY <3>1, <3>4, <3>5, <3>6, <3>7
  <2>4. \/ image' = image
        \/ \E in \in Inputs, pos \in InodePos : Create(in[1], in[2], pos)
        \/ WriteBlock
    BY DEF Next, Insert, Opened, FillInode, FillPointers, CloseBlock, FinishPlacing,
           Done, Abort, Extract, InsertAstray, WriteAstray
  <2> QED
    BY <2>1, <2>2, <2>3, <2>4
<1>2. Spec => [][Adds]_vars
  BY <1>1, ImageAlways, PTL DEF Spec
<1> QED
  BY <1>2 DEF InsertOnlyAdds

=============================================================================
