------------------------------- MODULE DiskImage -------------------------------
(***************************************************************************)
(* The disk image tool of src/outodes: disk_image.c and inode.h.  A run of *)
(* the program creates an image with one file, inserts a file into an      *)
(* image, or extracts the files of a user.  A run that writes works on a   *)
(* copy in memory (rawdata) and writes the copy back at its end, block by  *)
(* block; it can be killed, or give up, at any point.  The inode of such a *)
(* run can lead a later one to store outside of the bitmap.                *)
(*                                                                         *)
(* A block is one of: inodes, pointers, a part of a file, all zero.  The   *)
(* pair of uid and gid is one owner, and the owner 0 is the pair of zeros. *)
(* Bytes are counted, not represented: part i of file f is the i-th run of *)
(* BLOCK_SZ bytes of f.                                                    *)
(***************************************************************************)
EXTENDS Integers, Sequences, FiniteSets

CONSTANTS
  BLOCK_SZ,    \* bytes per block
  Pointers,    \* block numbers per block: BLOCK_SZ / sizeof(int)
  InodesPer,   \* inodes per block: BLOCK_SZ / sizeof(struct inode)
  N_DBLOCKS, N_IBLOCKS,
  nblocks,     \* blocks of the image
  iblocks,     \* blocks at its beginning that hold inodes
  Files,       \* the input files
  FileSize,    \* their sizes in bytes
  Owners,      \* the pairs of uid and gid
  Inputs,      \* the files and owners that runs of create and insert are given
  StrayMarks,  \* the sets of blocks that numbers read from no pointer may mark
  NoFile

\* Runs on one image pass the same nblocks and iblocks, within the assertions
\* at the start of main.
ASSUME ImageAssumption ==
  /\ BLOCK_SZ \in Nat \ {0} /\ Pointers \in Nat \ {0} /\ InodesPer \in Nat \ {0}
  /\ N_DBLOCKS \in Nat /\ N_IBLOCKS \in Nat
  /\ iblocks \in Nat \ {0} /\ nblocks \in Nat /\ iblocks < nblocks
  /\ FileSize \in [Files -> Nat]
  /\ Owners \subseteq Nat
  /\ Inputs \subseteq Files \X Owners
  /\ StrayMarks \subseteq SUBSET (0 .. nblocks - 1)
  /\ NoFile \notin Files \X Owners

VARIABLES
  image,    \* the image file: its blocks, fewer than nblocks if cut short
  pc,       \* what the running program does: idle, place, write, astray
  job,      \* its arguments: command, file, owner, inode block and position
  rawdata,  \* the copy in memory
  bitmap,   \* the blocks marked as used
  nbytes,   \* bytes of the input file read so far
  eof,      \* feof(fpr)
  pointer,  \* the next of the inode's block pointers
  open,     \* the pointer blocks being filled, outermost first
  written,  \* blocks written back so far
  extracted, \* what an extraction has just written, {} if none has
  placed    \* history: file and owner of each inode, once the run has ended

memory == <<rawdata, bitmap, nbytes, eof, pointer, open>>
vars == <<image, pc, job, memory, written, extracted, placed>>

Block == 0 .. nblocks - 1
InodeBlocks == 0 .. iblocks - 1
InodePos == InodeBlocks \X (0 .. InodesPer - 1)

-----------------------------------------------------------------------------
(* Blocks and inodes (inode.h) *)

\* dblocks, iblocks, i2block and i3block, in the order they lie in memory.
BlockPointer == 0 .. N_DBLOCKS + N_IBLOCKS + 1

\* How many pointer blocks lie between inode pointer p and a data block.
Depth(p) == IF p < N_DBLOCKS THEN 0
            ELSE IF p < N_DBLOCKS + N_IBLOCKS THEN 1
            ELSE IF p = N_DBLOCKS + N_IBLOCKS THEN 2 ELSE 3

Inode == [nlink : {0, 1}, owner : Owners \cup {0}, size : Nat,
          ptr : [BlockPointer -> Block]]
ZeroInode == [nlink |-> 0, owner |-> 0, size |-> 0,
              ptr |-> [p \in BlockPointer |-> 0]]

ZeroBlock == [kind |-> "zero"]
InodeBlock(slots) == [kind |-> "inodes", slot |-> slots]
PointerBlock(ptrs) == [kind |-> "pointers", ptr |-> ptrs]
DataBlock(f, i) == [kind |-> "data", file |-> f, part |-> i]

\* Not what the tool has put there.
SpoiltBlock == [kind |-> "spoilt"]

ZeroInodes == InodeBlock([i \in 0 .. InodesPer - 1 |-> ZeroInode])

Content == {ZeroBlock, SpoiltBlock}
  \cup [kind : {"inodes"}, slot : [0 .. InodesPer - 1 -> Inode]]
  \cup [kind : {"pointers"}, ptr : [0 .. Pointers - 1 -> Block]]
  \cup [kind : {"data"}, file : Files, part : Nat]

\* memset(rawdata, 0, ...), and rawdata after reading image file i over it.
ZeroRaw == [b \in Block |-> IF b < iblocks THEN ZeroInodes ELSE ZeroBlock]
Loaded(i) == [b \in Block |-> IF b < Len(i) THEN i[b + 1] ELSE ZeroRaw[b]]

InodeAt(raw, pos) == raw[pos[1]].slot[pos[2]]
WithInode(raw, pos, ip) ==
  [raw EXCEPT ![pos[1]] = InodeBlock([raw[pos[1]].slot EXCEPT ![pos[2]] = ip])]

-----------------------------------------------------------------------------
(* The walks over the blocks of a file: recreate_bitmap with check_dblocks,  *)
(* check_iblocks and check_i2blocks marks them in the bitmap, extract_files  *)
(* with the loops called check_write_... copies them.                        *)

\* The data blocks below a full block of pointers to pointer blocks.
PointersSquared == Pointers * Pointers

\* The most blocks an inode can reach.
Capacity == N_DBLOCKS + N_IBLOCKS * Pointers + PointersSquared
              + Pointers * PointersSquared

\* remaining_blocks at the start: size in blocks, rounded up.
remaining_blocks(ip) ==
  IF ip.size % BLOCK_SZ = 0 THEN ip.size \div BLOCK_SZ
                            ELSE ip.size \div BLOCK_SZ + 1
Visited(ip) ==
  {m \in 0 .. Capacity - 1 : m < remaining_blocks(ip)}

\* The pointer of the inode and the indices in pointer blocks that lead
\* recreate_bitmap to its m-th data block.
Path(m) ==
  LET single == m - N_DBLOCKS
      double == single - N_IBLOCKS * Pointers
      triple == double - PointersSquared
  IN  IF single < 0 THEN <<m>>
      ELSE IF double < 0
        THEN <<N_DBLOCKS + single \div Pointers, single % Pointers>>
      ELSE IF triple < 0
        THEN <<N_DBLOCKS + N_IBLOCKS, double \div Pointers, double % Pointers>>
      ELSE <<N_DBLOCKS + N_IBLOCKS + 1, triple \div PointersSquared,
             (triple \div Pointers) % Pointers, triple % Pointers>>

\* The same for the loops of extract_files; in a variant the loop over the
\* indirect blocks goes on to the i2block.
ReadPathPastSingle(m) ==
  IF m < N_DBLOCKS THEN <<m>>
  ELSE IF m <= N_DBLOCKS + N_IBLOCKS * Pointers
    THEN <<N_DBLOCKS + (m - N_DBLOCKS) \div Pointers, (m - N_DBLOCKS) % Pointers>>
  ELSE Path(m)
ReadPath(m) ==
  LET below == m - N_DBLOCKS
      inSingle == N_IBLOCKS * Pointers
      inDouble == inSingle + PointersSquared
  IN  CASE below < 0 -> <<m>>
        [] 0 <= below /\ below < inSingle ->
             <<N_DBLOCKS + below \div Pointers, below % Pointers>>
        [] inSingle <= below /\ below < inDouble ->
             <<N_DBLOCKS + N_IBLOCKS, (below - inSingle) \div Pointers,
               (below - inSingle) % Pointers>>
        [] OTHER ->
             <<N_DBLOCKS + N_IBLOCKS + 1, (below - inDouble) \div PointersSquared,
               ((below - inDouble) \div Pointers) % Pointers,
               (below - inDouble) % Pointers>>

\* What a walk reads from a block that holds no pointers is a number of which
\* nothing is known.
Wild == nblocks

\* read_int: entry i of block b.
read_int(raw, b, i) ==
  IF b = Wild THEN Wild
  ELSE IF raw[b].kind = "pointers" THEN raw[b].ptr[i]
  ELSE IF raw[b].kind = "zero" THEN 0
  ELSE Wild

\* The blocks on a path, the data block last.
Nodes(raw, ip, path) ==
  LET first == ip.ptr[path[1]]
      second == read_int(raw, first, path[2])
      third == read_int(raw, second, path[3])
      fourth == read_int(raw, third, path[4])
  IN  [i \in 1 .. Len(path) |->
         CASE i = 1 -> first [] i = 2 -> second [] i = 3 -> third [] i = 4 -> fourth]

\* The blocks a walk marks in the bitmap, and a variant that marks only the
\* data blocks.
DataMarks(raw, ip) ==
  {Nodes(raw, ip, Path(m))[Len(Path(m))] : m \in Visited(ip)}
Marks(raw, ip) ==
  UNION {{Nodes(raw, ip, Path(m))[i] : i \in DOMAIN Path(m)} :
         m \in Visited(ip)}

\* What a walk finds in the blocks of data, in order.
DataOf(raw, ip) ==
  [m \in Visited(ip) |->
     LET b == Nodes(raw, ip, ReadPath(m))[Len(ReadPath(m))]
     IN  IF b = Wild THEN [kind |-> "garbage"] ELSE raw[b]]

\* recreate_bitmap, for which the inode blocks are marked already; a variant
\* starts from an empty bitmap, another looks at the first inode block only.
RecreateFromEmpty(raw) ==
  UNION {Marks(raw, InodeAt(raw, pos)) :
         pos \in {q \in InodePos : InodeAt(raw, q).nlink # 0}}
RecreateFromFirst(raw) ==
  InodeBlocks \cup UNION {Marks(raw, InodeAt(raw, pos)) :
                          pos \in {q \in InodePos : q[1] = 0 /\ InodeAt(raw, q).nlink # 0}}
recreate_bitmap(raw) ==
  InodeBlocks \cup UNION {Marks(raw, InodeAt(raw, pos)) :
                          pos \in {q \in InodePos : InodeAt(raw, q).nlink # 0}}

-----------------------------------------------------------------------------

TypeOK ==
  /\ image \in Seq(Content) /\ Len(image) <= nblocks
  /\ pc \in {"idle", "place", "write", "astray"}
  /\ job \in [command : {"none"}]
            \cup [command : {"create", "insert"}, file : Files, owner : Owners,
                  pos : InodePos]
  /\ rawdata \in [Block -> Content]
  /\ \A b \in Block : b < iblocks <=> rawdata[b].kind = "inodes"
  /\ bitmap \subseteq Block /\ InodeBlocks \subseteq bitmap
  /\ nbytes \in Nat /\ eof \in BOOLEAN
  /\ pointer \in 0 .. N_DBLOCKS + N_IBLOCKS + 2
  /\ open \in Seq([block : Block, next : 0 .. Pointers]) /\ Len(open) <= 3
  /\ written \in 0 .. nblocks
  /\ placed \in [InodePos -> (Files \X Owners) \cup {NoFile}]

Init ==
  /\ image = <<>>
  /\ pc = "idle"
  /\ job = [command |-> "none"]
  /\ rawdata = ZeroRaw /\ bitmap = InodeBlocks
  /\ nbytes = 0 /\ eof = FALSE /\ pointer = 0 /\ open = <<>>
  /\ written = 0
  /\ extracted = {}
  /\ placed = [pos \in InodePos |-> NoFile]

\* place_file up to the loops: the inode is filled in, the input is open.  The
\* bitmap is b.  An occupied inode ends the program, as does an input file that
\* is missing.
StartPlacing(command, f, owner, pos, raw, b) ==
  /\ pc' = "place"
  /\ job' = [command |-> command, file |-> f, owner |-> owner, pos |-> pos]
  /\ rawdata' = WithInode(raw, pos, [InodeAt(raw, pos) EXCEPT !.nlink = 1,
                                                             !.owner = owner])
  /\ bitmap' = b
  /\ nbytes' = 0 /\ eof' = FALSE /\ pointer' = 0 /\ open' = <<>>
  /\ written' = 0 /\ extracted' = {}

\* The image file is opened with "wb", which empties it, before anything is
\* placed.
Create(f, owner, pos) ==
  /\ pc = "idle"
  /\ image' = <<>>
  /\ placed' = [q \in InodePos |-> NoFile]
  /\ StartPlacing("create", f, owner, pos, ZeroRaw, InodeBlocks)

\* The image file is opened with "rb+", which keeps it; a variant with "wb+".
EmptyImage == <<>>
Opened == image

\* Where recreate_bitmap marks a number of which nothing is known, the store
\* bitmap[v] = 1 may fall on the mark of any block of the image, or on one of
\* those behind them, which nobody reads.
Insert(f, owner, pos) ==
  /\ pc = "idle"
  /\ image # <<>>
  /\ InodeAt(Loaded(image), pos) = ZeroInode
  /\ image' = Opened
  /\ LET raw == Loaded(image)
         marks == recreate_bitmap(raw)
     IN  \E stray \in IF Wild \in marks THEN StrayMarks ELSE {{}} :
           StartPlacing("insert", f, owner, pos, raw,
                        (marks \ {Wild}) \cup stray)
  /\ UNCHANGED placed

\* It may also fall outside of bitmap.  Then the program ends there, as after
\* an Abort, or goes on with a memory of which nothing is known: the inode may
\* be free or not, the marks may be right or not, whatever it was to insert.
InsertAstray ==
  /\ pc = "idle"
  /\ image # <<>>
  /\ Wild \in recreate_bitmap(Loaded(image))
  /\ pc' = "astray"
  /\ extracted' = {}
  /\ UNCHANGED <<image, job, memory, written, placed>>

-----------------------------------------------------------------------------
(* The loops of place_file, allocate_dblocks and allocate_iblocks.  They go   *)
(* on until fread has come back short: a file that fills its last block gets *)
(* one block more, for which nothing is read.                                *)

\* get_free_block returns b, the lowest block that is not marked.
Free == Block \ bitmap
get_free_block(b) == b \in Free /\ \A c \in Free : b <= c

\* The bytes fread returns, and what block b of raw holds afterwards.
Got == IF FileSize[job.file] - nbytes < BLOCK_SZ
       THEN FileSize[job.file] - nbytes ELSE BLOCK_SZ
Filled(raw, b) ==
  IF Got = 0 THEN raw
  ELSE [raw EXCEPT ![b] = DataBlock(job.file, nbytes \div BLOCK_SZ)]

\* write_int: entry i of block b becomes v; what else a reused pointer block
\* held stays.
write_int(raw, b, i, v) ==
  LET old == IF raw[b].kind = "pointers" THEN raw[b].ptr
             ELSE [j \in 0 .. Pointers - 1 |-> 0]
  IN  [raw EXCEPT ![b] = PointerBlock([old EXCEPT ![i] = v])]

\* What becomes of the block b just allocated, level pointer blocks below the
\* inode: it is read into, or it is a pointer block to be filled.
UseBlock(raw, b, level, stack) ==
  /\ bitmap' = bitmap \cup {b}
  /\ IF level = 0
     THEN /\ rawdata' = Filled(raw, b)
          /\ nbytes' = nbytes + Got
          /\ eof' = (Got < BLOCK_SZ)
          /\ open' = stack
     ELSE /\ rawdata' = raw
          /\ open' = Append(stack, [block |-> b, next |-> 0])
          /\ UNCHANGED <<nbytes, eof>>

\* The next pointer of the inode.
FillInode ==
  /\ pc = "place" /\ ~eof /\ open = <<>>
  /\ pointer \in BlockPointer
  /\ \E b \in Free :
       /\ get_free_block(b)
       /\ UseBlock(WithInode(rawdata, job.pos,
                             [InodeAt(rawdata, job.pos) EXCEPT !.ptr[pointer] = b]),
                   b, Depth(pointer), <<>>)
  /\ pointer' = pointer + 1
  /\ UNCHANGED <<image, pc, job, written, extracted, placed>>

\* The next entry of the innermost pointer block.
FillPointers ==
  /\ pc = "place" /\ ~eof /\ open # <<>>
  /\ LET n == Len(open)
         top == open[n]
     IN  /\ top.next < Pointers
         /\ \E b \in Free :
              /\ get_free_block(b)
              /\ UseBlock(write_int(rawdata, top.block, top.next, b), b,
                          Depth(pointer - 1) - n,
                          [open EXCEPT ![n].next = @ + 1])
  /\ UNCHANGED <<image, pc, job, pointer, written, extracted, placed>>

\* The innermost pointer block is full.
CloseBlock ==
  /\ pc = "place" /\ ~eof /\ open # <<>>
  /\ open[Len(open)].next = Pointers
  /\ open' = SubSeq(open, 1, Len(open) - 1)
  /\ UNCHANGED <<image, pc, job, rawdata, bitmap, nbytes, eof, pointer,
                 written, extracted, placed>>

\* The end of the file, or of what an inode can hold.
FinishPlacing ==
  /\ pc = "place"
  /\ eof \/ (open = <<>> /\ pointer \notin BlockPointer)
  /\ rawdata' = WithInode(rawdata, job.pos,
                          [InodeAt(rawdata, job.pos) EXCEPT !.size = nbytes])
  /\ pc' = "write"
  /\ UNCHANGED <<image, job, bitmap, nbytes, eof, pointer, open, written,
                 extracted, placed>>

-----------------------------------------------------------------------------

\* fwrite of rawdata over the image file.
WriteBlock ==
  /\ pc = "write" /\ written < nblocks
  /\ image' = IF written < Len(image)
              THEN [image EXCEPT ![written + 1] = rawdata[written]]
              ELSE Append(image, rawdata[written])
  /\ written' = written + 1
  /\ UNCHANGED <<pc, job, memory, extracted, placed>>

Done ==
  /\ pc = "write" /\ written = nblocks
  /\ placed' = [placed EXCEPT ![job.pos] = <<job.file, job.owner>>]
  /\ pc' = "idle"
  /\ UNCHANGED <<image, job, memory, written, extracted>>

\* A run that went astray writes its memory back, any block of which a store may
\* have hit: bitmap and rawdata lie side by side.  One block is spoilt here, and
\* the image is not followed any further.
WriteAstray ==
  /\ pc = "astray"
  /\ \A b \in DOMAIN image : image[b] # SpoiltBlock
  /\ \E b \in Block :
       /\ b < Len(image)
       /\ image' = [image EXCEPT ![b + 1] = SpoiltBlock]
  /\ UNCHANGED <<pc, job, memory, written, extracted, placed>>

\* The program ends early: the input is missing, get_free_block finds no block,
\* a write fails, a signal kills it.
Abort ==
  /\ pc \in {"place", "write"}
  /\ pc' = "idle"
  /\ UNCHANGED <<image, job, memory, written, extracted, placed>>

-----------------------------------------------------------------------------
(* extract_files: every block is searched for inodes of the owner.  A block   *)
(* of zeros is as good as inodes of owner 0; parts of files and pointers that *)
(* happen to look like an inode are left out, as is the list UNUSED_BLOCKS.   *)

Slots(raw, b) == IF raw[b].kind = "inodes" THEN raw[b].slot
                 ELSE IF raw[b].kind = "zero" THEN ZeroInodes.slot ELSE <<>>

\* The inodes that belong to the owner, by place; a variant looks into the
\* first block only.
FoundInFirst(raw, owner) ==
  {q \in {0} \X (0 .. InodesPer - 1) :
     q[2] \in DOMAIN Slots(raw, q[1]) /\ Slots(raw, q[1])[q[2]].owner = owner}
Found(raw, owner) ==
  {q \in (0 .. Len(image) - 1) \X (0 .. InodesPer - 1) :
     q[2] \in DOMAIN Slots(raw, q[1]) /\ Slots(raw, q[1])[q[2]].owner = owner}

\* These loops mark what they walk over, too, so that an extraction may go astray
\* in the same way; it never writes to the image.
Extract(owner) ==
  /\ pc = "idle"
  /\ image # <<>>
  /\ LET raw == Loaded(image)
         found == Found(raw, owner)
         ip(q) == Slots(raw, q[1])[q[2]]
         reads == UNION {Marks(raw, ip(q)) : q \in found}
     IN  \/ extracted' =
              {[owner |-> owner, astray |-> FALSE,
                files |-> {[pos |-> q, content |-> DataOf(raw, ip(q))] : q \in found}]}
         \/ /\ Wild \in reads
            /\ extracted' = {[owner |-> owner, astray |-> TRUE, files |-> {}]}
  /\ UNCHANGED <<image, pc, job, memory, written, placed>>

Next ==
  \/ \E in \in Inputs, pos \in InodePos :
       Create(in[1], in[2], pos) \/ Insert(in[1], in[2], pos)
  \/ FillInode \/ FillPointers \/ CloseBlock \/ FinishPlacing
  \/ WriteBlock \/ Done \/ Abort
  \/ InsertAstray \/ WriteAstray
  \/ \E owner \in Owners : Extract(owner)

Spec == Init /\ [][Next]_vars

-----------------------------------------------------------------------------
(* Properties *)

\* What an inode can hold of file f, and its parts.
Stored(f) == IF FileSize[f] < Capacity * BLOCK_SZ
             THEN FileSize[f] ELSE Capacity * BLOCK_SZ
PartsOf(f) ==
  [m \in {i \in 0 .. Capacity - 1 : i * BLOCK_SZ < Stored(f)} |->
     DataBlock(f, m)]

Placed == {pos \in InodePos : placed[pos] # NoFile}

\* The files whose placement was completed can be read back from the image file,
\* as far as an inode can hold them.  disk_image.c:147 has said of each of them
\* "successfully wrote %d bytes of file %s".
FilesSurvive ==
  \A pos \in Placed :
    LET raw == Loaded(image)
        ip == InodeAt(raw, pos)
    IN  /\ raw[pos[1]].kind = "inodes"
        /\ ip.size = Stored(placed[pos][1])
        /\ DataOf(raw, ip) = PartsOf(placed[pos][1])

\* At any moment, in the middle of writing the image back and after a run that
\* was killed there, the completed files read back: no later run overwrites
\* their blocks, their pointer blocks or their inodes, unless recreate_bitmap
\* has led it to store outside of the bitmap.
FilesReadBack == pc # "astray" => FilesSurvive

\* No block belongs to two files, nor to a file and the inodes, with the same
\* exception.
NoBlockShared ==
  LET Of(pos) == Marks(Loaded(image), InodeAt(Loaded(image), pos))
  IN  pc # "astray" =>
        \A p \in Placed : /\ Of(p) \cap InodeBlocks = {}
                          /\ \A q \in Placed \ {p} : Of(p) \cap Of(q) = {}

\* An insertion that stays within the bitmap changes nothing on the image but the
\* inode it was given and blocks that no other inode reaches, those of
\* half-written files included.
InsertOnlyAdds ==
  [][job'.command = "insert" /\ pc # "astray" =>
       LET before == Loaded(image)
           after == Loaded(image')
           others == {q \in InodePos \ {job'.pos} : InodeAt(before, q).nlink # 0}
       IN  \A b \in Block : before[b] # after[b] =>
             IF b \in InodeBlocks
             THEN \A i \in 0 .. InodesPer - 1 : <<b, i>> # job'.pos =>
                    after[b].slot[i] = before[b].slot[i]
             ELSE \A q \in others : b \notin Marks(before, InodeAt(before, q))]_vars

\* An extraction returns every file of the owner, whole and in order, unless a
\* half-written file of that owner leads it to store outside of the bitmap.
ExtractReturnsFiles ==
  \A e \in extracted : ~e.astray =>
    \A pos \in Placed : placed[pos][2] = e.owner =>
      \E r \in e.files : r.pos = pos /\ r.content = PartsOf(placed[pos][1])
=============================================================================
