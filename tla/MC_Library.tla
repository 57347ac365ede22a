----------------------------- MODULE MC_Library -----------------------------
(* The data structures of kernel/lib, and the file systems.  LibrarySpec    *)
(* drives one of RingQueue, List, Bitmap, Bst or Kobject, chosen by part,   *)
(* with every sequence of calls.  FilesSpec reads a file of the ext2 driver *)
(* from its start ("read"), reads and seeks in one ("seek"), lists and      *)
(* searches a directory ("dir"), or mounts file systems and opens files on  *)
(* them ("paths", and "heap" with failing allocations and unmounting).      *)
(* What part does not name stays as it is initialised.  Two direct pointers *)
(* and two pointers per table make the largest file 16 blocks, so every     *)
(* level of indirection starts, ends and is left within a few reads.        *)
EXTENDS RingQueue

VARIABLES
    part,
    prev, next, front, back, elems,
    words, bits,
    tree, members,
    live, freed, parent, child_list, ref_count, id, held, result,
    size, layout, ino, cursorpos, position, last, entries, listed,
    disks, s_mounts, files, vfs_last

Lists == INSTANCE List WITH Nodes <- {"n1", "n2", "n3", "n4"}, NULL <- "null"
Bitmaps == INSTANCE Bitmap WITH BITS_PER_WORD <- 3, word_count <- 3, MaxLen <- 8
Trees == INSTANCE Bst WITH Keys <- 1..7
Objects == INSTANCE Kobject WITH Objects <- {"o1", "o2", "o3"}, Names <- {"a"},
               MaxRefs <- 2, MaxCount <- 3, CreateOutcomes <- {TRUE}, NULL <- "null"

ASSUME Lists!ListAssumption /\ Bitmaps!SizeAssumption /\ Trees!KeysAssumption
ASSUME Objects!KobjectAssumption

-----------------------------------------------------------------------------
Contiguous == [b \in 0..15 |-> 1 + b]
Scattered == [b \in 0..15 |-> 1 + 2 * b]
Mixed == [b \in 0..15 |->
             IF b = 0 THEN 9 ELSE IF b < 4 THEN b ELSE IF b < 9 THEN 8 + b
             ELSE 60 - b]

ReadPart == INSTANCE Ext2 WITH
    DIRECT_BLOCK_POINTER_COUNT <- 2, PerTable <- 2, blocksize <- 2,
    Sizes <- 1..32, Layouts <- {Contiguous, Scattered, Mixed},
    Lengths <- {1, 2, 3, 5, 8}, MaySeek <- FALSE, IoBudgets <- {99},
    Directories <- {}, Names <- {}, HeaderSize <- 3
SeekPart == INSTANCE Ext2 WITH
    DIRECT_BLOCK_POINTER_COUNT <- 2, PerTable <- 2, blocksize <- 2,
    Sizes <- {4, 9, 26}, Layouts <- {Mixed},
    Lengths <- {5}, MaySeek <- TRUE, IoBudgets <- {2, 99},
    Directories <- {}, Names <- {}, HeaderSize <- 3

\* Directories of three-byte headers in blocks of eight bytes: every block is
\* filled either by one entry or by two, live or unused, and the blocks reach
\* into the doubly indirect table.
Entry(i, n, l, s) == [ino |-> i, name |-> n, namelen |-> l, entrysize |-> s]

OneBlock ==
    {<<Entry(i, "a", 1, 8)>> : i \in {0, 11}}
    \cup {<<Entry(i, "b", 1, 4), Entry(j, "a", 1, 4)>> :
             i \in {0, 12}, j \in {0, 13}}

MCDirectories ==
    {x \o y \o z \o u \o v : x \in OneBlock,
        y \in {<<Entry(21, "c", 5, 8)>>, <<Entry(0, "c", 1, 4), Entry(22, "d", 1, 4)>>},
        z \in {<<Entry(31, "c", 2, 5), Entry(0, "a", 0, 3)>>},
        u \in {<<Entry(41, "e", 1, 8)>>}, v \in OneBlock}

DirPart == INSTANCE Ext2 WITH
    DIRECT_BLOCK_POINTER_COUNT <- 2, PerTable <- 2, blocksize <- 8,
    Sizes <- {}, Layouts <- {Scattered}, Lengths <- {}, MaySeek <- FALSE, IoBudgets <- {99},
    Directories <- MCDirectories, Names <- {"a", "d", "z"}, HeaderSize <- 3

\* Up to two disks of every kind, mount points one inside the other, and paths
\* with "." and "..".
PathsPart == INSTANCE Vfs WITH
    DiskLists <- UNION {[1..n -> {"ext2", "other", "unreadable"}] : n \in 0..2},
    Paths <- {<< >>, <<"m">>, <<"m", "n">>, <<"m", "n", "f">>, <<"x", "..", "m">>,
              <<".", "m", "n", ".", "..">>},
    NamePrefixes <- {}, HeapMayFail <- FALSE, HeapHasSlash <- FALSE, MayUmount <- FALSE,
    MaxMounts <- 3, MaxFiles <- 1, last <- vfs_last
HeapPart == INSTANCE Vfs WITH
    DiskLists <- {<<"ext2", "other">>}, Paths <- {<<"m">>, <<"m", "..", "n">>},
    NamePrefixes <- {}, HeapMayFail <- TRUE, HeapHasSlash <- FALSE, MayUmount <- TRUE,
    MaxMounts <- 3, MaxFiles <- 2, last <- vfs_last

ASSUME ReadPart!Ext2Assumption /\ SeekPart!Ext2Assumption /\ DirPart!Ext2Assumption
ASSUME PathsPart!VfsAssumption /\ HeapPart!VfsAssumption

listVars == <<prev, next, front, back, elems>>
bitmapVars == <<words, bits>>
treeVars == <<tree, members>>
objectVars == <<live, freed, parent, child_list, ref_count, id, held, result>>
ext2Vars == <<size, layout, ino, cursorpos, position, last, entries, listed>>
vfsVars == <<disks, s_mounts, files, vfs_last>>

libraryVars == <<vars, listVars, bitmapVars, treeVars, objectVars>>
filesVars == <<ext2Vars, vfsVars>>

StructuresInit == Init /\ Lists!Init /\ Bitmaps!Init /\ Trees!Init /\ Objects!Init
QueueOff == buf = [k \in 0 .. Cap - 1 |-> CHOOSE x \in Item : TRUE]
Ext2Off == SeekPart!Init /\ size = 4 /\ entries = << >> /\ listed = << >>

-----------------------------------------------------------------------------
LibraryInit ==
    /\ part \in {"queue", "list", "bitmap", "tree", "objects"}
    /\ StructuresInit /\ (part # "queue" => QueueOff)
    /\ Ext2Off /\ HeapPart!Init

QueueStep ==
    /\ part = "queue" /\ Next
    /\ UNCHANGED <<part, listVars, bitmapVars, treeVars, objectVars, filesVars>>
ListStep ==
    /\ part = "list" /\ Lists!Next
    /\ UNCHANGED <<part, vars, bitmapVars, treeVars, objectVars, filesVars>>
BitmapStep ==
    /\ part = "bitmap" /\ Bitmaps!Next
    /\ UNCHANGED <<part, vars, listVars, treeVars, objectVars, filesVars>>
TreeStep ==
    /\ part = "tree" /\ Trees!Next
    /\ UNCHANGED <<part, vars, listVars, bitmapVars, objectVars, filesVars>>
ObjectStep ==
    /\ part = "objects" /\ Objects!Next
    /\ UNCHANGED <<part, vars, listVars, bitmapVars, treeVars, filesVars>>

LibraryNext == QueueStep \/ ListStep \/ BitmapStep \/ TreeStep \/ ObjectStep

LibrarySpec == LibraryInit /\ [][LibraryNext]_<<part, libraryVars, filesVars>>

-----------------------------------------------------------------------------
FilesInit ==
    /\ StructuresInit /\ QueueOff
    /\ \/ /\ \/ part = "read" /\ ReadPart!Init /\ entries = << >> /\ listed = << >>
             \/ part = "seek" /\ SeekPart!Init /\ entries = << >> /\ listed = << >>
             \/ part = "dir" /\ DirPart!DirInit
          /\ HeapPart!Init
       \/ /\ \/ part = "paths" /\ PathsPart!Init
             \/ part = "heap" /\ HeapPart!Init
          /\ Ext2Off

ReadStep ==
    /\ \/ part = "read" /\ ReadPart!Next
       \/ part = "seek" /\ SeekPart!Next
    /\ UNCHANGED <<part, libraryVars, entries, listed, vfsVars>>
DirStep == part = "dir" /\ DirPart!DirNext /\ UNCHANGED <<part, libraryVars, vfsVars>>
VfsStep ==
    /\ \/ part = "paths" /\ PathsPart!Next
       \/ part = "heap" /\ HeapPart!Next
    /\ UNCHANGED <<part, libraryVars, ext2Vars>>

FilesNext == ReadStep \/ DirStep \/ VfsStep

FilesSpec == FilesInit /\ [][FilesNext]_<<part, libraryVars, filesVars>>

-----------------------------------------------------------------------------
\* list.c: walking the links forwards and backwards visits what was inserted and
\* not removed, in order.
LinksMatch == part = "list" => Lists!LinksMatch

\* bitmap.c: the words hold exactly the bits that were set and not cleared,
\* bitmap_find_set_bits finds the first run of the wanted length, and
\* bitmap_are_bits_set is true exactly for ranges of set bits.
BitmapExact ==
    part = "bitmap" =>
        Bitmaps!WordsHoldBits /\ Bitmaps!FindsFirstRun /\ Bitmaps!TestsWholeRange

\* bst.c: no integrity check fails after any step of any operation; searches,
\* successors and predecessors are those of the set of keys; inserting adds
\* the key and keeps a balanced tree balanced; removing a node loses no other,
\* but for the left child of a node that replaces it.  kobject.c: in the tree of
\* objects no reference leads to freed memory, and an object is in the child list
\* of its parent only, and once.
TreeExact ==
    /\ [](part = "tree" => Trees!ChecksPass /\ Trees!SearchesExact)
    /\ [](part = "objects" => Objects!NoDangling /\ Objects!OneParentList)
    /\ Trees!InsertKeepsBalance
    /\ Trees!RemoveTakesOne

\* fs_ext2.c: a file read from its start gives every byte once, in order, and
\* the assertion of line 916, that its blocks are found, holds; a seek leaves the
\* stream on the byte that was asked for, and the buffered block is the current
\* one, also after a disk error.
FileReadExact ==
    /\ part = "read" => ReadPart!SequentialReadExact /\ ReadPart!ReadNeverHitsTheEnd
    /\ part = "seek" => SeekPart!SeekLandsExactly /\ SeekPart!BufferIsCurrentBlock

\* fs_ext2.c: a directory is listed completely and in order, and a name
\* resolves to the inode of its live entry.
DirectoryExact ==
    part = "dir" => DirPart!ListsLiveEntries /\ DirPart!ResolvesLiveNames

\* vfs.c: every mount point is a path without "." and "..", the root is the
\* first disk on which mounting does not fail, a path is opened on the deepest
\* mount above it, and the open-file counts are exact, also when calls fail.
MountsExact ==
    /\ part = "paths" =>
          /\ PathsPart!MountPathsCanonical /\ PathsPart!RootIsFirstMountable
          /\ PathsPart!DeepestMountWins /\ PathsPart!OpenCountExact
    /\ part = "heap" => HeapPart!OpenCountExact
=============================================================================
