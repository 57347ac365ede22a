--------------------------------- MODULE Vfs ---------------------------------
(***************************************************************************)
(* The virtual file system (kernel/fs/vfs.c) with the two file system      *)
(* types the kernel registers (fsinit.c): mounting the root at boot,       *)
(* further mounts, unmounting, path resolution, opening and closing files. *)
(*                                                                         *)
(* A path is the sequence of its components; a name only matters for       *)
(* equality, for being "." or "..", and for being a proper prefix of       *)
(* another name (NamePrefixes), because resolve_path compares characters.  *)
(* The contents of a file system are not modelled: ext2 has or has not the *)
(* file asked for.                                                         *)
(***************************************************************************)
EXTENDS Integers, Sequences

CONSTANTS
    DiskLists,    \* logical disks at boot: sequences over DiskKinds
    Paths,        \* paths given to mount, umount and open
    NamePrefixes, \* pairs <<a, b>>: name a is a proper prefix of name b
    HeapMayFail,  \* whether heap_alloc may return nullptr
    HeapHasSlash, \* whether a '/' may follow what was written to a buffer
    MayUmount,    \* whether vfs_umount is called
    MaxMounts, MaxFiles

DiskKinds == {"ext2", "other", "unreadable"}

VfsAssumption ==
    /\ \A d \in DiskLists : \A k \in DOMAIN d : d[k] \in DiskKinds
    /\ {HeapMayFail, HeapHasSlash, MayUmount} \subseteq BOOLEAN
    /\ MaxMounts \in Nat /\ MaxFiles \in Nat

VARIABLES
    disks,    \* the logical disks found at boot
    s_mounts, \* [path, fstype, disk, freed, open_file_count]
    files,    \* open files: [mount, rest]
    last      \* the latest call and its outcome

vars == <<disks, s_mounts, files, last>>

(***************************************************************************)
(* Paths.                                                                  *)
(***************************************************************************)

\* A ".." cuts the path at its last '/'.
DropLast(path) ==
    IF path = << >> THEN << >> ELSE SubSeq(path, 1, Len(path) - 1)

\* remove_rel_path on a clean buffer.
RECURSIVE RemoveRel(_, _)
RemoveRel(path, done) ==
    IF path = << >> THEN done
    ELSE RemoveRel(Tail(path),
             IF Head(path) = "." THEN done
             ELSE IF Head(path) = ".." THEN DropLast(done)
             ELSE Append(done, Head(path)))

\* ".." looks for the last '/' before the next zero byte of a buffer that has
\* not been terminated.  The heap fills the buffer and poisons its end, but
\* the header of the next allocation follows: a '/' among the bytes of its
\* pointers is taken for one of the path.
Unresolved == <<"left in the heap">>
remove_rel_path(path) ==
    {RemoveRel(path, << >>)}
    \cup IF HeapHasSlash /\ \E k \in DOMAIN path : path[k] = ".."
         THEN {Unresolved} ELSE {}

\* kstrncmp(prefix, path, kstrlen(prefix)) == 0
StartsWith(path, prefix) ==
    LET n == Len(prefix)
    IN  n = 0 \/
        /\ n <= Len(path)
        /\ SubSeq(path, 1, n - 1) = SubSeq(prefix, 1, n - 1)
        /\ prefix[n] = path[n] \/ <<prefix[n], path[n]>> \in NamePrefixes

\* What follows the first kstrlen(prefix) characters of a path: it need not
\* start at a component, and may lie behind the end of the path.
NotAPath == <<"not a path">>
Rest(path, prefix) ==
    IF Len(prefix) <= Len(path) /\ SubSeq(path, 1, Len(prefix)) = prefix
    THEN SubSeq(path, Len(prefix) + 1, Len(path)) ELSE NotAPath

(***************************************************************************)
(* Mounting.                                                               *)
(***************************************************************************)
fstypes == <<"ext2", "dummyfs">>

Sometimes(outcomes) == IF HeapMayFail THEN outcomes ELSE {}

\* ext2's mount: EINVAL for a wrong signature or unsupported features; its
\* context is written to without having been checked.
Ext2Mount(disk) ==
    {CASE disks[disk] = "ext2" -> "ok"
       [] disks[disk] = "other" -> "EINVAL"
       [] disks[disk] = "unreadable" -> "EIO"} \cup Sometimes({"panic"})

DummyfsMount == {"ok"} \cup Sometimes({"ENOMEM"})

\* mount: when the path cannot be allocated, an uninitialized pointer is
\* freed, which heap_free may or may not notice.
mount(fstype, disk) ==
    (IF fstype = "ext2" THEN Ext2Mount(disk) ELSE DummyfsMount)
    \cup Sometimes({"ENOMEM", "panic"})

Mounted(fstype) == [ret |-> "ok", fstype |-> fstype]
NotMounted(ret) == [ret |-> ret, fstype |-> "none"]

\* EINVAL is probably a wrong type; other errors are reported.
StopsSearch(ret) == ret # "EINVAL"

\* vfs_mount with no type: the registered types in turn, from the k-th.
RECURSIVE MountAny(_, _)
MountAny(disk, k) ==
    UNION {IF r = "ok" THEN {Mounted(fstypes[k])}
           ELSE IF StopsSearch(r) THEN {NotMounted(r)}
           ELSE IF k = Len(fstypes) THEN {NotMounted("ok")}
           ELSE MountAny(disk, k + 1) : r \in mount(fstypes[k], disk)}

MountNamed(fstype, disk) ==
    {IF r = "ok" THEN Mounted(fstype) ELSE NotMounted(r) :
        r \in mount(fstype, disk)}

Context(path, fstype, disk) ==
    [path |-> path, fstype |-> fstype, disk |-> disk, freed |-> FALSE,
     open_file_count |-> 0]

WithMount(path, disk, result) ==
    IF result.fstype = "none" THEN s_mounts
    ELSE Append(s_mounts, Context(path, result.fstype, disk))

Outcome(op, ret, path) ==
    [op |-> op, ret |-> ret, path |-> path, mount |-> 0, rest |-> << >>]

Running == last.ret \notin {"panic", "crash"}

Init ==
    /\ disks \in DiskLists
    /\ s_mounts = << >>
    /\ files = << >>
    /\ last = Outcome("none", "ok", << >>)

\* vfs_mount_root from the k-th disk on: [ret, fstype, disk].
RECURSIVE RootFrom(_)
RootFrom(k) ==
    IF k > Len(disks) THEN {[ret |-> "ok", fstype |-> "none", disk |-> 0]}
    ELSE UNION {IF r.ret \in {"ok", "panic"}
                THEN {[ret |-> r.ret, fstype |-> r.fstype, disk |-> k]}
                ELSE RootFrom(k + 1) : r \in MountAny(k, 1)}

vfs_mount_root ==
    /\ last.op = "none"
    /\ \E r \in IF disks = << >>
                THEN {[ret |-> IF m.ret = "ok" THEN "ok" ELSE "panic",
                       fstype |-> m.fstype, disk |-> 0] :
                         m \in MountNamed("dummyfs", 0)}
                ELSE RootFrom(1) :
          /\ s_mounts' = WithMount(<< >>, r.disk, r)
          /\ last' = Outcome("mount_root", r.ret, << >>)
    /\ UNCHANGED <<disks, files>>

vfs_mount(fstype, disk, path) ==
    /\ last.op # "none" /\ Running /\ Len(s_mounts) < MaxMounts
    /\ \E p \in remove_rel_path(path),
          r \in IF fstype = "any" THEN MountAny(disk, 1)
                ELSE MountNamed(fstype, disk) :
          /\ s_mounts' = WithMount(p, disk, r)
          /\ last' = Outcome("mount", r.ret, path)
    /\ UNCHANGED <<disks, files>>

(***************************************************************************)
(* Using mounts.  An unmounted context stays in the list although it has   *)
(* been freed: walking the list over it is an access to freed memory.      *)
(***************************************************************************)
FreedBefore(k) == \E j \in 1..k : s_mounts[j].freed

\* The first mount on exactly this path.
FindMount(path) ==
    LET found == {k \in DOMAIN s_mounts :
                     ~s_mounts[k].freed /\ s_mounts[k].path = path}
    IN  IF found = {} THEN 0 ELSE CHOOSE k \in found : \A j \in found : k <= j

vfs_umount(path) ==
    /\ MayUmount /\ last.op # "none" /\ Running
    /\ \E p \in remove_rel_path(path) :
          LET k == FindMount(p)
              walked == IF k = 0 THEN Len(s_mounts) ELSE k
          IN  IF s_mounts = << >>
              THEN /\ last' = Outcome("umount", "panic", path)
                   /\ UNCHANGED s_mounts
              ELSE IF FreedBefore(walked)
              THEN /\ last' = Outcome("umount", "crash", path)
                   /\ UNCHANGED s_mounts
              ELSE IF k = 0
              THEN /\ last' = Outcome("umount", "EINVAL", path)
                   /\ UNCHANGED s_mounts
              ELSE /\ last' = Outcome("umount", "ok", path)
                   /\ s_mounts' = [s_mounts EXCEPT ![k].freed = TRUE]
    /\ UNCHANGED <<disks, files>>

\* Fault: the shortest match wins.
Better_shorter(len, bestLen) == len <= bestLen

\* A later or longer mount wins over the best so far.
Better(len, bestLen) == bestLen <= len

\* The mount resolve_path chooses, from the k-th on.
RECURSIVE BestMount(_, _, _)
BestMount(path, k, best) ==
    IF k > Len(s_mounts) THEN best
    ELSE LET bestLen == IF best = 0 THEN 0 ELSE Len(s_mounts[best].path)
             wins == /\ best = 0 \/ Better(Len(s_mounts[k].path), bestLen)
                     /\ StartsWith(path, s_mounts[k].path)
         IN  BestMount(path, k + 1, IF wins THEN k ELSE best)

\* resolve_path followed by the file system's operation, which is `ops' for
\* each type: the outcomes, with the mount chosen and what is left of the path.
resolve_path(path, ops) ==
    LET m == BestMount(path, 1, 0)
        At(ret, rest) == [ret |-> ret, mount |-> m, rest |-> rest]
        Stop(ret) == [ret |-> ret, mount |-> 0, rest |-> << >>]
    IN  {Stop(r) : r \in Sometimes({"ENOMEM"})}
        \cup IF s_mounts = << >> \/ m = 0 THEN {Stop("panic")}
             ELSE IF FreedBefore(Len(s_mounts)) THEN {Stop("crash")}
             ELSE {At(r, Rest(p, s_mounts[m].path)) :
                      p \in remove_rel_path(path), r \in ops[s_mounts[m].fstype]}

\* ext2 may have the file or not, and writes to an unchecked allocation.
FsOpen == [ext2 |-> {"ok", "ENOENT"} \cup Sometimes({"ENOMEM", "panic"}),
           dummyfs |-> {"ENOENT"}]

vfs_open_file(path) ==
    /\ last.op # "none" /\ Running /\ Len(files) < MaxFiles
    /\ \E r \in resolve_path(path, FsOpen) :
          /\ last' = [Outcome("open", r.ret, path) EXCEPT
                         !.mount = r.mount, !.rest = r.rest]
          /\ IF r.ret = "ok"
             THEN /\ files' = Append(files, [mount |-> r.mount, rest |-> r.rest])
                  /\ s_mounts' = [s_mounts EXCEPT
                                     ![r.mount].open_file_count = @ + 1]
             ELSE UNCHANGED <<s_mounts, files>>
    /\ UNCHANGED disks

FsOpenDirectory == [ext2 |-> {"ok", "ENOENT", "ENOTDIR"} \cup Sometimes({"ENOMEM"}),
                    dummyfs |-> {"ENOENT"}]

\* An open directory is not counted by the file system it is on.
vfs_open_directory(path) ==
    /\ last.op # "none" /\ Running
    /\ \E r \in resolve_path(path, FsOpenDirectory) :
          last' = [Outcome("open", r.ret, path) EXCEPT
                      !.mount = r.mount, !.rest = r.rest]
    /\ UNCHANGED <<disks, s_mounts, files>>

CloseAt(k) == [j \in 1..(Len(files) - 1) |-> IF j < k THEN files[j] ELSE files[j + 1]]

CountAfterClose(count) == count - 1

vfs_close_file(k) ==
    /\ Running
    /\ LET m == files[k].mount
       IN  /\ files' = CloseAt(k)
           /\ IF s_mounts[m].freed
              THEN /\ last' = Outcome("close", "crash", << >>)
                   /\ UNCHANGED s_mounts
              ELSE /\ last' = Outcome("close", "ok", << >>)
                   /\ s_mounts' = [s_mounts EXCEPT
                          ![m].open_file_count = CountAfterClose(@)]
    /\ UNCHANGED disks

Next ==
    \/ vfs_mount_root
    \/ \E fstype \in {"any", "ext2", "dummyfs"}, path \in Paths :
          \E disk \in DOMAIN disks : vfs_mount(fstype, disk, path)
    \/ \E path \in Paths : vfs_umount(path) \/ vfs_open_file(path)
                            \/ vfs_open_directory(path)
    \/ \E k \in DOMAIN files : vfs_close_file(k)

Spec == Init /\ [][Next]_vars

-----------------------------------------------------------------------------
Prefix(p, q) == Len(p) <= Len(q) /\ SubSeq(q, 1, Len(p)) = p

\* The path without "." and "..", by what they mean: a name counts when the
\* names after it outnumber the ".." after it at no point.
Balance(path, i, j) ==
    Len(SelectSeq(SubSeq(path, i, j), LAMBDA n : n \notin {".", ".."}))
    - Len(SelectSeq(SubSeq(path, i, j), LAMBDA n : n = ".."))
Canonical(path) ==
    LET kept == {i \in DOMAIN path :
                    /\ path[i] \notin {".", ".."}
                    /\ \A j \in i..Len(path) : Balance(path, i, j) > 0}
        nth(n) == CHOOSE i \in kept :
                      n = Len(SelectSeq([j \in 1..i |-> j], LAMBDA j : j \in kept))
        count == Len(SelectSeq([j \in DOMAIN path |-> j], LAMBDA j : j \in kept))
    IN  [n \in 1..count |-> path[nth(n)]]

\* vfs.c:58: "Resolves and removes . and .. in the path."  Every mount point
\* is the canonical form of a path someone mounted on.
MountPathsCanonical ==
    \A k \in DOMAIN s_mounts :
        \E path \in Paths \cup {<< >>} : s_mounts[k].path = Canonical(path)

\* The root is the first disk on which mounting does not fail, as the type
\* the disk holds; a disk of no known type still becomes a dummyfs root.
RootIsFirstMountable ==
    last.op = "mount_root" /\ last.ret = "ok" /\ s_mounts # << >> =>
        LET d == s_mounts[1].disk
        IN  /\ d = 0 <=> disks = << >>
            /\ \A k \in 1..(d - 1) : disks[k] = "unreadable"
            /\ d > 0 => /\ disks[d] # "unreadable"
                        /\ s_mounts[1].fstype = "ext2" <=> disks[d] = "ext2"

\* A path without "." or ".." is opened on the deepest mount above it, the
\* latest of several on one mount point, with the rest of the path.
DeepestMountWins ==
    LET above == {k \in DOMAIN s_mounts : Prefix(s_mounts[k].path, last.path)}
    IN  last.op = "open" /\ last.mount # 0 /\ Canonical(last.path) = last.path =>
            /\ last.mount \in above
            /\ \A k \in above :
                  \/ Len(s_mounts[k].path) < Len(s_mounts[last.mount].path)
                  \/ s_mounts[k].path = s_mounts[last.mount].path
                     /\ k <= last.mount
            /\ s_mounts[last.mount].path \o last.rest = last.path

\* The open-file count of every mounted file system is the number of files
\* open on it, whatever order files are opened and closed in.
OpenCountExact ==
    \A k \in DOMAIN s_mounts : ~s_mounts[k].freed =>
        s_mounts[k].open_file_count =
            Len(SelectSeq(files, LAMBDA f : f.mount = k))

\* vfs.c:259: "There should be a rootfs at very least."
RootfsThere == last.op # "none" /\ Running => s_mounts # << >>

\* vfs.c:139: "Returns ERR_INVAL if `mountpath` is not a mount point."
UmountReportsEinval == last.op = "umount" => last.ret # "crash"
=============================================================================
