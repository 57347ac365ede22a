-------------------------------- MODULE Disk --------------------------------
(***************************************************************************)
(* Logical disks (kernel/io/disk.c) and the device registry they are kept  *)
(* in (kernel/io/iodev.c).  Physical disks are registered by their driver, *)
(* ldisk_discover reads the partition table of each and registers its      *)
(* partitions, and requests to a partition become transfers of the         *)
(* physical disk.  Block addresses wrap around at M, as size_t and         *)
(* uint32_t do at 2^32.                                                    *)
(***************************************************************************)
EXTENDS Integers, Sequences

CONSTANTS
    M,          \* 2^32 in the code
    NDisks,     \* physical disks in the machine
    NEntries,   \* entries of a partition table; 4 in the code
    Tables      \* partition tables that may be on a disk, or NoTable

NoTable == << >>
EIO == -5
EINVAL == -22
Addr == 0 .. M - 1
Entry == [type : {0, 1}, start : Addr, count : Addr]

ASSUME DiskAssumption ==
    /\ M \in Nat \ {0, 1} /\ NDisks \in Nat /\ NEntries \in Nat
    /\ Tables \subseteq [1 .. NEntries -> Entry] \cup {NoTable}

VARIABLES
    table,      \* what is on each disk
    pdisks,     \* the registered physical disks, in order
    ldisks,     \* the registered partitions, in order
    types,      \* s_iodevtypes: the device types seen so far
    pc, disk, entry, \* ldisk_discover: where it is
    last        \* the last request and what became of it

vars == <<table, pdisks, ldisks, types, pc, disk, entry, last>>

NoRequest == [op |-> "none"]

Ldisk == [disk : 1 .. NDisks, entry : 1 .. NEntries, start : Addr,
          count : Addr, id : Nat]

Request == [op : {"read", "write", "read_exact", "write_exact"}, ldisk : Ldisk,
            addr : Addr, want : Addr, first : Addr, count : Addr,
            ret : Addr \cup {EIO, EINVAL}]

(***************************************************************************)
(* iodev_register: only the first device of a type needs memory.  The id of*)
(* a device is its position in the list of its type.                       *)
(***************************************************************************)
CanRegister(type) == types' = types \cup {type}

CannotRegister(type) == type \notin types /\ UNCHANGED types

Init ==
    /\ table \in [1 .. NDisks -> Tables]
    /\ pdisks = << >> /\ ldisks = << >> /\ types = {}
    /\ pc = "probe" /\ disk = 1 /\ entry = 1
    /\ last = NoRequest

\* The driver finds a disk; it may fail to register it.
pdisk_register ==
    /\ pc = "probe" /\ disk <= NDisks
    /\ \/ CanRegister("pdisk") /\ pdisks' = Append(pdisks, disk)
       \/ CannotRegister("pdisk") /\ UNCHANGED pdisks
    /\ disk' = disk + 1
    /\ UNCHANGED <<table, ldisks, pc, entry, last>>

ldisk_discover ==
    /\ pc = "probe" /\ disk > NDisks
    /\ pc' = "read" /\ disk' = 1
    /\ UNCHANGED <<table, pdisks, ldisks, types, entry, last>>

\* One round of the loop over the disks: no memory, a read error or no valid
\* table go on with the next disk.
ReadFirstBlock ==
    /\ pc = "read"
    /\ \/ /\ disk > Len(pdisks)
          /\ pc' = "ready" /\ UNCHANGED <<disk, entry>>
       \/ /\ disk <= Len(pdisks) /\ disk' = disk + 1
          /\ UNCHANGED <<pc, entry>>
       \/ /\ disk <= Len(pdisks) /\ table[pdisks[disk]] # NoTable
          /\ pc' = "entry" /\ entry' = 1 /\ UNCHANGED disk
    /\ UNCHANGED <<table, pdisks, ldisks, types, last>>

\* Fault: the new partition comes first.
Registered_front(l) == <<l>> \o ldisks

\* list_insert_back of iodev_register.
Registered(l) == Append(ldisks, l)

\* One round of the loop over the entries in parse_mbr.  An entry of type 0 is
\* skipped; a registration that fails for want of memory is too.
register_ldisk ==
    /\ pc = "entry" /\ entry <= NEntries
    /\ LET e == table[pdisks[disk]][entry]
           l == [disk |-> pdisks[disk], entry |-> entry, start |-> e.start,
                 count |-> e.count, id |-> Len(ldisks)]
       IN  \/ e.type # 0 /\ CanRegister("ldisk") /\ ldisks' = Registered(l)
           \/ UNCHANGED <<ldisks, types>>
    /\ entry' = entry + 1
    /\ UNCHANGED <<table, pdisks, pc, disk, last>>

EndOfTable ==
    /\ pc = "entry" /\ entry > NEntries
    /\ pc' = "read" /\ disk' = disk + 1
    /\ UNCHANGED <<table, pdisks, ldisks, types, entry, last>>

(***************************************************************************)
(* to_abs_block_range, in the arithmetic of size_t.                        *)
(***************************************************************************)

Plus(a, b) == IF a + b < M THEN a + b ELSE a + b - M

Minus(a, b) == IF a >= b THEN a - b ELSE a - b + M

LastBlock(l) == Plus(l.start, Minus(l.count, 1))

FirstAbs(l, addr) ==
    IF Minus(LastBlock(l), l.start) < addr THEN 0 ELSE Plus(l.start, addr)

\* Fault: one block too many at the end.
FinalCount_past(l, addr, n) ==
    LET left == Plus(Minus(LastBlock(l), FirstAbs(l, addr)), 2)
    IN  IF Minus(LastBlock(l), l.start) < addr THEN 0
        ELSE IF left < n THEN left ELSE n

FinalCount(l, addr, n) ==
    LET left == Plus(Minus(LastBlock(l), FirstAbs(l, addr)), 1)
    IN  IF Minus(LastBlock(l), l.start) < addr THEN 0
        ELSE IF left < n THEN left ELSE n

\* ldisk_read_exact passes an error on, ldisk_write_exact makes it EINVAL.
ExactResult(op, ret, n) ==
    CASE ret = n -> 0
      [] ret < 0 /\ op = "read_exact" -> ret
      [] OTHER -> EINVAL

\* ldisk_read, ldisk_write and their _exact variants.
Transfer(op, l, addr, n) ==
    LET count == FinalCount(l, addr, n)
    IN  \E ret \in {count} \cup (IF count # 0 THEN {EIO} ELSE {}) :
          last' = [op |-> op, ldisk |-> l, addr |-> addr, want |-> n,
                   first |-> FirstAbs(l, addr), count |-> count,
                   ret |-> IF op \in {"read", "write"} THEN ret
                           ELSE ExactResult(op, ret, n)]

ldisk_request ==
    /\ pc = "ready"
    /\ \E op \in {"read", "write", "read_exact", "write_exact"},
          i \in 1 .. Len(ldisks), addr \in Addr, n \in Addr :
             Transfer(op, ldisks[i], addr, n)
    /\ UNCHANGED <<table, pdisks, ldisks, types, pc, disk, entry>>

Next ==
    \/ pdisk_register \/ ldisk_discover \/ ReadFirstBlock
    \/ register_ldisk \/ EndOfTable \/ ldisk_request

Spec == Init /\ [][Next]_vars

-----------------------------------------------------------------------------
TypeOK ==
    /\ table \in [1 .. NDisks -> Tables]
    /\ pdisks \in Seq(1 .. NDisks)
    /\ ldisks \in Seq(Ldisk)
    /\ types \in SUBSET {"pdisk", "ldisk"}
    /\ pc \in {"probe", "read", "entry", "ready"}
    /\ disk \in Nat \ {0} /\ entry \in Nat \ {0}
    /\ pc = "entry" => disk \in 1 .. Len(pdisks) /\ table[pdisks[disk]] # NoTable
    /\ last \in Request \cup {NoRequest}

\* A transfer starts at the requested block of the partition and covers as
\* much of the request as the partition has, never a block outside it, also
\* at the end of the address space (to_abs_block_range).  An entry with a
\* block count of zero is out of scope: the range computation underflows.
TransferInPartition ==
    last # NoRequest /\ last.ldisk.count > 0 =>
        LET left == IF last.addr < last.ldisk.count
                    THEN last.ldisk.count - last.addr ELSE 0
        IN  /\ last.count = IF last.want < left THEN last.want ELSE left
            /\ last.count > 0 => last.first = Plus(last.ldisk.start, last.addr)

\* An _exact request only succeeds when every block of it was transferred
\* (ldisk_read_exact, ldisk_write_exact).
ExactMeansAll ==
    last # NoRequest /\ last.op \in {"read_exact", "write_exact"} /\ last.ret = 0
        => last.count = last.want

Before(l, m) == l.disk < m.disk \/ (l.disk = m.disk /\ l.entry < m.entry)

\* Partitions are listed in the order of the disks and of their tables,
\* whatever could not be read or registered, and numbered without gaps: the
\* root file system is looked for in this order (ldisk_discover, vfs.c).
PartitionsInOrder ==
    /\ \A i, j \in 1 .. Len(ldisks) : i < j => Before(ldisks[i], ldisks[j])
    /\ \A i \in 1 .. Len(ldisks) :
          /\ ldisks[i].id = i - 1
          /\ table[ldisks[i].disk][ldisks[i].entry].type # 0
=============================================================================
