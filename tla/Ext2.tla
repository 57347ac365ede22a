-------------------------------- MODULE Ext2 --------------------------------
(***************************************************************************)
(* The ext2 driver's view of one open file or directory                    *)
(* (kernel/fs/fs_ext2.c): the walk over direct, singly, doubly and triply  *)
(* indirect block pointers, the block buffer, read and seek on a file      *)
(* descriptor (Init, Next), and readdir and resolve_path (DirInit,         *)
(* DirNext).                                                               *)
(*                                                                         *)
(* The disk holds one file without holes of `size' bytes.  A byte of it is *)
(* named by its position, so what a read returned can be compared with     *)
(* what it should have returned; a block that is not the file's is         *)
(* Foreign.  `layout' gives the disk address of every block of the file.   *)
(*                                                                         *)
(* A directory is a file whose bytes are variable-length entries, read     *)
(* through the same block walk and buffer.  An entry is [ino, name,        *)
(* namelen, entrysize]; ino 0 marks an unused one, which keeps the name of *)
(* the file it used to be.  Its bytes are known by their position, so      *)
(* reading a header anywhere but at the start of an entry shows up as      *)
(* Garbage.                                                                *)
(***************************************************************************)
EXTENDS Integers, Sequences

CONSTANTS
    DIRECT_BLOCK_POINTER_COUNT, \* 12 in the code
    PerTable,                   \* block pointers in one table (blocksize / 4)
    blocksize,                  \* bytes in a block
    Sizes,                      \* file sizes
    Layouts,                    \* possible values of layout
    Lengths,                    \* lengths a caller reads
    MaySeek,                    \* whether the caller seeks
    IoBudgets,                  \* disk accesses that succeed in one call
    Directories,                \* directory contents: sequences of entries
    Names,                      \* names looked up
    HeaderSize                  \* bytes of an entry before its name: 8 in the code

Ext2Assumption ==
    /\ {DIRECT_BLOCK_POINTER_COUNT, PerTable, blocksize} \subseteq Nat \ {0}
    /\ Sizes \subseteq Nat /\ Lengths \subseteq Nat /\ IoBudgets \subseteq Nat
    /\ MaySeek \in BOOLEAN
    /\ HeaderSize \in Nat \ {0}
    /\ \A d \in Directories : \A k \in DOMAIN d :
           HeaderSize + d[k].namelen <= d[k].entrysize

VARIABLES
    size,      \* inode.size
    layout,
    ino,       \* struct ino_context
    cursorpos, \* openfdcontext.cursorpos
    position,  \* where the caller's reads and seeks have put the file offset
    last,      \* the latest operation and its outcome
    entries,   \* the directory on disk
    listed     \* entries readdir has returned since opendir

vars == <<size, layout, ino, cursorpos, position, last>>
dirVars == <<vars, entries, listed>>

Foreign == -1
NoTable == -1

(***************************************************************************)
(* The file on disk.                                                       *)
(***************************************************************************)
BlockCount == (size + blocksize - 1) \div blocksize

BlocksAt(addr) == {b \in 0..(BlockCount - 1) : layout[b] = addr}

\* The bytes of the block at a disk address.
BlockData(addr) ==
    LET here == BlocksAt(addr)
    IN  [k \in 1..blocksize |->
            IF here = {} THEN Foreign
            ELSE (CHOOSE b \in here : TRUE) * blocksize + k - 1]

RECURSIVE DiskData(_, _)
DiskData(addr, count) ==
    IF count = 0 THEN << >>
    ELSE BlockData(addr) \o DiskData(addr + 1, count - 1)

\* The first logical block under singly table s (s = 0 hangs off the inode,
\* 1..PerTable off the inode's doubly table, the rest off the triply table).
UnderSingly(s) == DIRECT_BLOCK_POINTER_COUNT + s * PerTable
UnderDoubly(d) == UnderSingly(1 + d * PerTable)

PtrTo(block) == IF block < BlockCount THEN layout[block] ELSE 0

SinglyEntry(table, k) == PtrTo(UnderSingly(table - 1) + k)

\* Table 0 is block 0 of the disk, which holds zeros where it is read.
DoublyEntry(table, k) ==
    LET s == 1 + (table - 1) * PerTable + k
    IN  IF table # 0 /\ UnderSingly(s) < BlockCount THEN s + 1 ELSE 0

TriplyEntry(k) == IF UnderDoubly(1 + k) < BlockCount THEN 2 + k ELSE 0

singly_indirect_table == IF UnderSingly(0) < BlockCount THEN 1 ELSE 0
doublyindirecttable == IF UnderDoubly(0) < BlockCount THEN 1 ELSE 0
triplyindirecttable == IF UnderDoubly(1) < BlockCount THEN 1 ELSE 0

(***************************************************************************)
(* Pointer tables.  Every walk returns [i, ret, addr]; i.io counts the     *)
(* disk accesses (and buffer allocations) that will still succeed.         *)
(***************************************************************************)
EmptyBuf == [table |-> NoTable, off |-> 0]
Done(i, addr) == [i |-> i, ret |-> "ok", addr |-> addr]
Fail(i, ret) == [i |-> i, ret |-> ret, addr |-> 0]

readblocks_alloc(i, level, table) ==
    IF i.io = 0 THEN Fail(i, "EIO")
    ELSE Done([i EXCEPT ![level] = [table |-> table, off |-> 0],
                        !.io = @ - 1], 0)

Exhausted(buf) == buf.table = NoTable \/ PerTable <= buf.off

next_direct_block_ptr(i) ==
    LET addr == PtrTo(i.next_direct_ptr_index)
    IN  IF addr = 0 THEN Fail(i, "ENOENT")
        ELSE Done([i EXCEPT !.next_direct_ptr_index = @ + 1], addr)

next_triply_indirect_table(i) ==
    IF i.triply_used THEN Fail(i, "ENOENT")
    ELSE IF triplyindirecttable = 0
    THEN Fail([i EXCEPT !.triply = EmptyBuf], "ENOENT")
    ELSE readblocks_alloc(i, "triply", triplyindirecttable)

\* The next entry of the triply indirect table, once it is loaded (t).
TakeTriply(t) ==
    IF t.ret # "ok" THEN t
    ELSE Done([t.i EXCEPT !.triply_used = TRUE, !.triply.off = @ + 1],
              TriplyEntry(t.i.triply.off))

next_triply_block_ptr(i) ==
    TakeTriply(IF Exhausted(i.triply)
               THEN next_triply_indirect_table(i) ELSE Done(i, 0))

LoadDoubly(t) ==
    IF t.ret # "ok" THEN Fail([t.i EXCEPT !.doubly = EmptyBuf], t.ret)
    ELSE readblocks_alloc(t.i, "doubly", t.addr)

next_doubly_indirect_table(i) ==
    LET first == [i EXCEPT !.doubly_used = TRUE]
    IN  LoadDoubly(IF i.doubly_used THEN next_triply_block_ptr(i)
                   ELSE IF doublyindirecttable = 0 THEN Fail(first, "ENOENT")
                   ELSE Done(first, doublyindirecttable))

\* The table entry is consumed even when it is zero.
TakeDoubly(t) ==
    LET addr == DoublyEntry(t.i.doubly.table, t.i.doubly.off)
        used == [t.i EXCEPT !.doubly.off = @ + 1]
    IN  IF t.ret # "ok" THEN t
        ELSE IF addr = 0 THEN Fail(used, "ENOENT") ELSE Done(used, addr)

next_doubly_block_ptr(i) ==
    TakeDoubly(IF Exhausted(i.doubly)
               THEN next_doubly_indirect_table(i) ELSE Done(i, 0))

\* Whatever kept the table from being found is reported as ENOENT.
LoadSingly(t) ==
    LET loaded == readblocks_alloc(t.i, "singly", t.addr)
    IN  IF t.ret # "ok"
        THEN Fail([t.i EXCEPT !.singly = EmptyBuf], "ENOENT")
        ELSE IF loaded.ret # "ok" THEN loaded
        ELSE Done([loaded.i EXCEPT !.singly_used = TRUE], 0)

next_singly_indirect_table(i) ==
    LoadSingly(IF i.singly_used THEN next_doubly_block_ptr(i)
               ELSE IF singly_indirect_table = 0 THEN Fail(i, "ENOENT")
               ELSE Done(i, singly_indirect_table))

\* A zero first entry of a table that was just loaded comes back as
\* "success" with address 0; a file without holes has none.
TakeSingly(t, fresh) ==
    LET addr == SinglyEntry(t.i.singly.table, t.i.singly.off)
    IN  IF t.ret # "ok" THEN t
        ELSE IF addr # 0 THEN Done([t.i EXCEPT !.singly.off = @ + 1], addr)
        ELSE IF fresh THEN Done(t.i, 0) ELSE Fail(t.i, "ENOENT")

next_singly_block_ptr(i) ==
    TakeSingly(IF Exhausted(i.singly)
               THEN next_singly_indirect_table(i) ELSE Done(i, 0),
               Exhausted(i.singly))

MoveTo(t) == IF t.ret # "ok" THEN t ELSE [t EXCEPT !.i.current_block_addr = t.addr]

next_inode_block(i) ==
    MoveTo(IF i.next_direct_ptr_index < DIRECT_BLOCK_POINTER_COUNT
           THEN next_direct_block_ptr(i) ELSE next_singly_block_ptr(i))

ResetBlockbuf(t) ==
    IF t.ret # "ok" THEN t ELSE [t EXCEPT !.i.blockbuf = 0, !.i.offset_in_buf = 0]

next_inode_block_and_reset_blockbuf(i) == ResetBlockbuf(next_inode_block(i))

(***************************************************************************)
(* Reading.  R is [i, ret, data]: data is what has reached the caller's    *)
(* buffer, so len - Len(data) is the code's remaining_len.                 *)
(***************************************************************************)
read_blocks(r, base, count) ==
    IF r.i.io = 0 THEN [r EXCEPT !.ret = "EIO"]
    ELSE [r EXCEPT !.i.io = @ - 1, !.data = @ \o DiskData(base, count)]

\* Fault: only that the address grows is checked.
IsContiguous_ascending(addr, base, count) == addr > base

IsContiguous(addr, base, count) == addr = base + count

\* After the last block of the request; the end of the file is no error.
AtNext(read, next, len) ==
    [read EXCEPT !.i = next.i,
                 !.ret = IF next.ret = "ENOENT" /\ Len(read.data) = len
                         THEN "ok" ELSE next.ret]

\* The blocks of the last run, after which the stream is on the block that
\* follows the request.
LastRun(read, len) ==
    IF read.ret # "ok" THEN read
    ELSE AtNext(read, next_inode_block([read.i EXCEPT !.blockbuf = 0]), len)

\* `left' more blocks after the run of `count' blocks starting at `base';
\* t is the stream on the first of them.
RECURSIVE read_inode_blocks(_, _, _, _, _)
GoOn(r, t, left, base, count, len) ==
    LET moved == [r EXCEPT !.i = t.i]
        read == read_blocks(moved, base, count)
        addr == t.i.current_block_addr
    IN  IF t.ret # "ok" THEN [moved EXCEPT !.ret = t.ret]
        ELSE IF IsContiguous(addr, base, count)
        THEN read_inode_blocks(moved, left - 1, base, count + 1, len)
        ELSE IF read.ret # "ok" THEN read
        ELSE read_inode_blocks(read, left - 1, addr, 1, len)

read_inode_blocks(r, left, base, count, len) ==
    IF left = 0 THEN LastRun(read_blocks(r, base, count), len)
    ELSE GoOn(r, next_inode_block(r.i), left, base, count, len)

FillBlockbuf(r) ==
    IF r.i.blockbuf # 0 THEN r
    ELSE IF r.i.io = 0 THEN [r EXCEPT !.ret = "EIO"]
    ELSE [r EXCEPT !.i.io = @ - 1, !.i.blockbuf = r.i.current_block_addr]

RECURSIVE read_inode(_, _)

\* Bytes of the buffered block, then what is left of the request.
FromBlockbuf(r, len) ==
    LET off == r.i.offset_in_buf
        room == blocksize - off
        rest == len - Len(r.data)
        n == IF room < rest THEN room ELSE rest
    IN  IF r.ret # "ok" THEN r
        ELSE read_inode([r EXCEPT !.i.offset_in_buf = @ + n,
                 !.data = @ \o SubSeq(BlockData(r.i.blockbuf), off + 1, off + n)], len)

AfterDirect(r, len) ==
    IF r.ret # "ok" \/ Len(r.data) = len THEN r ELSE FromBlockbuf(FillBlockbuf(r), len)

\* Whole blocks go to the caller's buffer directly.
AtBlock(r, len) ==
    LET whole == (len - Len(r.data)) \div blocksize
    IN  IF r.ret # "ok" THEN r
        ELSE AfterDirect(IF r.i.offset_in_buf = 0 /\ whole > 0
                         THEN read_inode_blocks(r, whole - 1, r.i.current_block_addr, 1, len)
                         ELSE r, len)

WithStream(r, t) == [r EXCEPT !.i = t.i, !.ret = t.ret]

read_inode(r, len) ==
    IF Len(r.data) = len THEN r
    ELSE AtBlock(IF blocksize <= r.i.offset_in_buf
                 THEN WithStream(r, next_inode_block_and_reset_blockbuf(r.i))
                 ELSE r, len)

(***************************************************************************)
(* Skipping and seeking.                                                   *)
(***************************************************************************)
RECURSIVE SkipBlocks(_, _)
SkipBlocks(t, count) ==
    IF t.ret # "ok" THEN t
    ELSE IF count = 0 THEN Done([t.i EXCEPT !.blockbuf = 0], 0)
    ELSE SkipBlocks(next_inode_block(t.i), count - 1)

RECURSIVE skipread_inode(_, _)
SkipInBlock(s, rest) ==
    LET room == blocksize - s.i.offset_in_buf
        n == IF room < rest THEN room ELSE rest
    IN  IF s.ret # "ok" \/ rest = 0 THEN s
        ELSE skipread_inode([s.i EXCEPT !.offset_in_buf = @ + n], rest - n)

SkipFrom(t, len) ==
    LET whole == IF t.i.offset_in_buf = 0 THEN len \div blocksize ELSE 0
    IN  IF t.ret # "ok" THEN t
        ELSE SkipInBlock(IF whole = 0 THEN t ELSE SkipBlocks(t, whole),
                         len - whole * blocksize)

skipread_inode(i, len) ==
    IF len = 0 THEN Done(i, 0)
    ELSE SkipFrom(IF blocksize <= i.offset_in_buf
                  THEN next_inode_block_and_reset_blockbuf(i) ELSE Done(i, 0), len)

FreshInode(io) ==
    [current_block_addr |-> 0, next_direct_ptr_index |-> 0,
     blockbuf |-> 0, offset_in_buf |-> 0,
     singly |-> EmptyBuf, doubly |-> EmptyBuf, triply |-> EmptyBuf,
     singly_used |-> FALSE, doubly_used |-> FALSE, triply_used |-> FALSE,
     io |-> io]

\* Fault: the doubly indirect table is not forgotten.
rewindinode_keeping_doubly(i) ==
    next_inode_block([FreshInode(i.io) EXCEPT !.doubly = i.doubly,
                                              !.doubly_used = i.doubly_used])

rewindinode(i) == next_inode_block(FreshInode(i.io))

\* SEEK_SET, the only direction that does not stop at assert(!"TODO").
SkipIfRewound(t, offset) == IF t.ret # "ok" THEN t ELSE skipread_inode(t.i, offset)
seek_inode(i, offset) == SkipIfRewound(rewindinode(i), offset)

(***************************************************************************)
(* The file descriptor's operations.                                       *)
(***************************************************************************)
\* A failed assertion stops the kernel.
Running == last.ret \notin {"panic", "ENOENT"}

Outcome(op, ret, from, len, data) ==
    [op |-> op, ret |-> ret, from |-> from, len |-> len, data |-> data]

\* The descriptor does not survive the budget of the call that changed it.
Settle(i) == [i EXCEPT !.io = 0]

Init ==
    /\ size \in Sizes
    /\ layout \in Layouts
    /\ ino = FreshInode(0)
    /\ cursorpos = 0 /\ position = 0
    /\ last = Outcome("none", "ok", 0, 0, << >>)

\* openinode, once the inode has been located and its block read.
openinode ==
    /\ last.op = "none"
    /\ LET t == next_inode_block(FreshInode(0))
       IN  /\ ino' = t.i
           /\ last' = Outcome("open", IF t.ret = "ok" THEN "ok" ELSE "panic",
                              0, 0, << >>)
    /\ UNCHANGED <<size, layout, cursorpos, position>>

ReadLen(len) == IF size - cursorpos < len THEN size - cursorpos ELSE len

fd_op_read(len, io) ==
    /\ last.op # "none" /\ Running
    /\ LET n == ReadLen(len)
           r == read_inode([i |-> [ino EXCEPT !.io = io], ret |-> "ok",
                            data |-> << >>], n)
       IN  /\ ino' = Settle(r.i)
           /\ last' = Outcome("read", r.ret, position, len, r.data)
           /\ cursorpos' = IF r.ret = "ok" THEN cursorpos + n ELSE cursorpos
           /\ position' = IF r.ret = "ok" THEN position + n ELSE position
    /\ UNCHANGED <<size, layout>>

fd_op_seek(offset, io) ==
    /\ MaySeek /\ last.op # "none" /\ Running
    /\ LET t == seek_inode([ino EXCEPT !.io = io], offset)
       IN  /\ ino' = Settle(t.i)
           /\ last' = Outcome("seek", t.ret, offset, 0, << >>)
           /\ position' = IF t.ret = "ok" THEN offset ELSE position
    /\ UNCHANGED <<size, layout, cursorpos>>

Next ==
    \/ openinode
    \/ \E len \in Lengths, io \in IoBudgets : fd_op_read(len, io)
    \/ \E offset \in 0..size, io \in IoBudgets : fd_op_seek(offset, io)

Spec == Init /\ [][Next]_vars

-----------------------------------------------------------------------------
(***************************************************************************)
(* Directories.                                                            *)
(***************************************************************************)
\* The bytes of a file are their positions.
Expected(from, n) == [k \in 1..n |-> from + k - 1]

RECURSIVE StartOf(_, _)
StartOf(d, k) == IF k = 1 THEN 0 ELSE StartOf(d, k - 1) + d[k - 1].entrysize

SizeOf(d) == StartOf(d, Len(d) + 1)

Garbage == [ino |-> -1, name |-> "garbage", namelen |-> 0,
            entrysize |-> HeaderSize]

\* What the driver decodes from the header and name bytes it has read.
Decode(header, name) ==
    LET here == {k \in DOMAIN entries : header[1] = StartOf(entries, k)}
        e == entries[CHOOSE k \in here : TRUE]
    IN  IF here # {}
           /\ header = Expected(header[1], HeaderSize)
           /\ name = Expected(header[1] + HeaderSize, Len(name))
        THEN e ELSE Garbage

DecodeHeader(header) == Decode(header, << >>)

Reading(i) == [i |-> i, ret |-> "ok", data |-> << >>]
NoEntry(i, ret) == [i |-> i, ret |-> ret, ent |-> Garbage]

\* Fault: the padding after the name is taken to be part of the name's length.
SkipLen_header_only(ent) == ent.entrysize - HeaderSize

SkipLen(ent) == ent.entrysize - (ent.namelen + HeaderSize)

IsLive(ent) == ent.ino # 0

RECURSIVE read_directory(_)

\* ent has been read; the rest of it is skipped (s), and so is an unused one.
AfterEntry(ent, s) ==
    IF s.ret # "ok" THEN NoEntry(s.i, s.ret)
    ELSE IF IsLive(ent) THEN [i |-> s.i, ret |-> "ok", ent |-> ent]
    ELSE read_directory(s.i)

AfterName(head, header, n) ==
    IF n.ret # "ok" THEN NoEntry(n.i, n.ret)
    ELSE AfterEntry(Decode(header, n.data), skipread_inode(n.i, SkipLen(head)))

AfterHeader(h) ==
    LET head == DecodeHeader(h.data)
    IN  IF h.ret # "ok" THEN NoEntry(h.i, h.ret)
        ELSE AfterName(head, h.data, read_inode(Reading(h.i), head.namelen))

read_directory(i) == AfterHeader(read_inode(Reading(i), HeaderSize))

\* One component of resolve_path: scan the directory for a name.
RECURSIVE FindName(_, _)
Compare(r, name) ==
    IF r.ret # "ok" THEN [i |-> r.i, ret |-> r.ret, ino |-> 0]
    ELSE IF r.ent.name = name
    THEN [i |-> r.i, ret |-> "ok", ino |-> r.ent.ino]
    ELSE FindName(r.i, name)

FindName(i, name) == Compare(read_directory(i), name)

DirInit ==
    /\ entries \in Directories
    /\ size = SizeOf(entries)
    /\ layout \in Layouts
    /\ ino = FreshInode(0)
    /\ cursorpos = 0 /\ position = 0
    /\ last = Outcome("none", "ok", 0, 0, << >>)
    /\ listed = << >>

Rest == UNCHANGED <<size, layout, cursorpos, position, entries>>

\* open_directory: an inode whose first block is not there stops the kernel.
open_directory ==
    /\ last.op \in {"none", "closedir", "resolve"}
    /\ LET t == next_inode_block(FreshInode(0))
       IN  /\ ino' = t.i
           /\ last' = Outcome("opendir", IF t.ret = "ok" THEN "ok" ELSE "panic",
                              0, 0, << >>)
    /\ listed' = << >>
    /\ Rest

vfs_op_readdir(io) ==
    /\ last.op \in {"opendir", "readdir"} /\ last.ret = "ok"
    /\ LET r == read_directory([ino EXCEPT !.io = io])
       IN  /\ ino' = Settle(r.i)
           /\ last' = Outcome("readdir", r.ret, 0, 0, << >>)
           /\ listed' = IF r.ret = "ok" THEN Append(listed, r.ent) ELSE listed
    /\ Rest

vfs_op_closedir ==
    /\ last.op \in {"opendir", "readdir"} /\ last.ret # "panic"
    /\ ino' = FreshInode(0)
    /\ listed' = << >>
    /\ last' = Outcome("closedir", "ok", 0, 0, << >>)
    /\ Rest

\* resolve_path for one name: open the directory, scan it, close it.  The
\* inode found is recorded as the outcome's `from'.
resolve_path(name, io) ==
    /\ last.op \in {"none", "closedir", "resolve"}
    /\ LET t == next_inode_block(FreshInode(io))
           r == FindName(t.i, name)
       IN  /\ t.ret = "ok"
           /\ last' = Outcome("resolve", r.ret, r.ino, 0, <<name>>)
    /\ ino' = FreshInode(0)
    /\ listed' = << >>
    /\ Rest

DirNext ==
    \/ open_directory
    \/ \E io \in IoBudgets : vfs_op_readdir(io)
    \/ vfs_op_closedir
    \/ \E name \in Names, io \in IoBudgets : resolve_path(name, io)

DirSpec == DirInit /\ [][DirNext]_dirVars

-----------------------------------------------------------------------------
MinOf(a, b) == IF a < b THEN a ELSE b

\* The byte of the file the next buffered read would copy.
StreamPosition ==
    {b * blocksize + ino.offset_in_buf : b \in BlocksAt(ino.current_block_addr)}

\* A caller that reads a file from its start gets every byte once, in order,
\* and a short read only at the end of the file, whatever mix of lengths it
\* asks for and wherever the direct pointers and the tables of each level
\* end (read_inode, read_inode_blocks and the next_* walk).
SequentialReadExact ==
    last.op = "read" /\ last.ret = "ok" =>
        last.data = Expected(last.from, MinOf(last.len, size - last.from))

\* A seek to any byte of the file leaves the stream on that byte, from
\* whatever position, table and buffer it started: rewinding forgets all
\* three tables and skipping counts blocks as reading does (seek_inode).
SeekLandsExactly ==
    last.op = "seek" /\ last.ret = "ok" => StreamPosition = {last.from}

\* The buffered block is the current one whenever bytes would be copied out
\* of it, also after a read that stopped half way on a disk error.
BufferIsCurrentBlock ==
    ino.blockbuf # 0 /\ ino.offset_in_buf < blocksize =>
        ino.blockbuf = ino.current_block_addr

\* fs_ext2.c:723: "Above should only access the first direct block pointer,
\* which cannot fail."
FirstBlockCannotFail == last.op = "open" => last.ret = "ok"

\* fs_ext2.c:916: assert(ret != -ENOENT) after read_inode.
ReadNeverHitsTheEnd == last.op = "read" => last.ret # "ENOENT"
LiveEntries == SelectSeq(entries, LAMBDA e : e.ino # 0)

\* fs_ext2.c:748: "Returns -ENOENT when it reaches end of the directory."
EnoentMeansEnd ==
    last.op = "readdir" /\ last.ret = "ENOENT" => listed = LiveEntries

\* Listing a directory returns its live entries in order and nothing else,
\* and reports the end exactly when all have been returned, wherever entries,
\* blocks and pointer tables end (read_directory).
ListsLiveEntries ==
    /\ Len(listed) <= Len(LiveEntries)
    /\ listed = SubSeq(LiveEntries, 1, Len(listed))
    /\ EnoentMeansEnd

\* A name resolves to the inode of the live entry that carries it; a name
\* only an unused entry still carries is not found (resolve_path).
ResolvesLiveNames ==
    last.op = "resolve" =>
        LET live == {k \in DOMAIN entries :
                        entries[k].ino # 0 /\ entries[k].name = last.data[1]}
        IN  /\ last.ret = "ok" => \E k \in live : entries[k].ino = last.from
            /\ last.ret = "ENOENT" => live = {}
=============================================================================
