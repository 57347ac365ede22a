---------------------------- MODULE DeviceProofs ----------------------------
(***************************************************************************)
(* Requests stay inside their partition and partitions are listed in       *)
(* order, for every size of the address space, every number of disks and   *)
(* every partition table (Disk); an IDE controller is brought up without   *)
(* loss, for every number of buffers (IdeInit); a character that arrives   *)
(* on the serial line is read at most once, and what is written goes out,  *)
(* for every text and every length of the queues (Serial).                 *)
(***************************************************************************)
EXTENDS Disk, SequenceTheorems, TLAPS

\* What a leaf that names no prover is tried with, in turn.
USE SMTT(10), Zenon, SMTT(30)

\* The size_t arithmetic stays in range.
LEMMA Wraps ==
  ASSUME NEW a \in Addr, NEW b \in Addr
  PROVE  Plus(a, b) \in Addr /\ Minus(a, b) \in Addr
BY DiskAssumption DEF Plus, Minus, Addr

\* What to_abs_block_range computes for a partition that is not empty: the
\* differences of wrapped addresses are the offsets in the partition.
LEMMA RangeExact ==
  ASSUME NEW l \in Ldisk, l.count > 0, NEW addr \in Addr, NEW n \in Addr
  PROVE  LET left == IF addr < l.count THEN l.count - addr ELSE 0
         IN  /\ FinalCount(l, addr, n) = IF n < left THEN n ELSE left
             /\ FinalCount(l, addr, n) > 0 => FirstAbs(l, addr) = Plus(l.start, addr)
<1>1. /\ l.start \in 0 .. M - 1 /\ l.count \in 1 .. M - 1 /\ M \in Nat
      /\ addr \in 0 .. M - 1 /\ n \in 0 .. M - 1
  BY DiskAssumption DEF Ldisk, Addr
<1>2. Minus(l.count, 1) = l.count - 1
  BY <1>1 DEF Minus
<1>3. /\ LastBlock(l) \in 0 .. M - 1
      /\ Minus(LastBlock(l), l.start) = l.count - 1
  BY <1>1, <1>2 DEF LastBlock, Plus, Minus
<1>4. CASE l.count - 1 < addr
  <2>1. FinalCount(l, addr, n) = 0
    BY <1>3, <1>4 DEF FinalCount
  <2> QED
    BY <1>1, <1>4, <2>1
<1>5. CASE ~(l.count - 1 < addr)
  <2>1. FirstAbs(l, addr) = Plus(l.start, addr)
    BY <1>3, <1>5 DEF FirstAbs
  <2>2. Minus(LastBlock(l), Plus(l.start, addr)) = l.count - 1 - addr
    BY <1>1, <1>2, <1>5 DEF LastBlock, Plus, Minus
  <2>3. Plus(l.count - 1 - addr, 1) = l.count - addr
    BY <1>1, <1>5 DEF Plus
  <2>4. FinalCount(l, addr, n) = IF l.count - addr < n THEN l.count - addr ELSE n
    BY <1>3, <1>5, <2>1, <2>2, <2>3 DEF FinalCount
  <2> QED
    BY <1>1, <1>5, <2>1, <2>4
<1> QED
  BY <1>4, <1>5

\* The results of to_abs_block_range are addresses and counts.
LEMMA RangeType ==
  ASSUME NEW l \in Ldisk, NEW addr \in Addr, NEW n \in Addr
  PROVE  FirstAbs(l, addr) \in Addr /\ FinalCount(l, addr, n) \in Addr
<1>1. l.start \in Addr /\ l.count \in Addr /\ 0 \in Addr /\ 1 \in Addr
  BY DiskAssumption DEF Ldisk, Addr
<1>2. FirstAbs(l, addr) \in Addr
  BY <1>1, Wraps DEF FirstAbs
<1>3. Minus(l.count, 1) \in Addr
  BY <1>1, Wraps
<1>4. LastBlock(l) \in Addr
  BY <1>1, <1>3, Wraps DEF LastBlock
<1>5. Minus(LastBlock(l), FirstAbs(l, addr)) \in Addr
  BY <1>2, <1>4, Wraps
<1>6. Plus(Minus(LastBlock(l), FirstAbs(l, addr)), 1) \in Addr
  BY <1>1, <1>5, Wraps
<1> QED
  BY <1>1, <1>2, <1>6 DEF FinalCount

\* What the two device lists hold.
LEMMA Elements ==
  ASSUME TypeOK
  PROVE  /\ Len(pdisks) \in Nat /\ Len(ldisks) \in Nat
         /\ \A k \in 1 .. Len(pdisks) : pdisks[k] \in 1 .. NDisks
         /\ \A k \in 1 .. Len(ldisks) :
               /\ ldisks[k] \in Ldisk
               /\ ldisks[k].disk \in Nat /\ ldisks[k].entry \in Nat
<1>1. pdisks \in Seq(1 .. NDisks) /\ ldisks \in Seq(Ldisk)
  BY DEF TypeOK
<1>2. \A k \in 1 .. Len(pdisks) : pdisks[k] \in 1 .. NDisks
  BY <1>1, ElementOfSeq, Zenon
<1>3. \A k \in 1 .. Len(ldisks) : ldisks[k] \in Ldisk
  BY <1>1, ElementOfSeq
<1>4. \A l \in Ldisk : l.disk \in Nat /\ l.entry \in Nat
  BY DiskAssumption DEF Ldisk
<1> QED
  BY <1>1, <1>2, <1>3, <1>4, LenProperties

\* The entry ldisk_discover looks at is an entry of a partition table.
LEMMA CurrentEntry ==
  ASSUME TypeOK, pc = "entry", entry <= NEntries
  PROVE  /\ pdisks[disk] \in 1 .. NDisks
         /\ entry \in 1 .. NEntries
         /\ table[pdisks[disk]][entry] \in Entry
<1>1. disk \in 1 .. Len(pdisks) /\ pdisks \in Seq(1 .. NDisks)
  BY DEF TypeOK
<1>2. pdisks[disk] \in 1 .. NDisks
  BY <1>1, ElementOfSeq, Zenon
<1>3. table[pdisks[disk]] \in [1 .. NEntries -> Entry]
  BY <1>2, DiskAssumption DEF TypeOK
<1>4. entry \in 1 .. NEntries
  BY DiskAssumption DEF TypeOK
<1> QED
  BY <1>2, <1>3, <1>4, Zenon

\* A new partition is a well-formed one.
LEMMA NewLdisk ==
  ASSUME TypeOK, pc = "entry", entry <= NEntries
  PROVE  [disk |-> pdisks[disk], entry |-> entry,
          start |-> table[pdisks[disk]][entry].start,
          count |-> table[pdisks[disk]][entry].count, id |-> Len(ldisks)]
            \in Ldisk
<1>1. Len(ldisks) \in Nat
  BY LenProperties DEF TypeOK
<1> QED
  BY <1>1, CurrentEntry DEF Ldisk, Entry

\* A request leaves a well-formed record that is correct.
LEMMA TransferExact ==
  ASSUME NEW op \in {"read", "write", "read_exact", "write_exact"},
         NEW l \in Ldisk, NEW addr \in Addr, NEW n \in Addr,
         Transfer(op, l, addr, n)
  PROVE  /\ last' \in Request
         /\ TransferInPartition'
         /\ ExactMeansAll'
<1> DEFINE c == FinalCount(l, addr, n)
<1>1. c \in Addr /\ FirstAbs(l, addr) \in Addr
  BY RangeType
<1>2. PICK ret \in {c, EIO} :
        last' = [op |-> op, ldisk |-> l, addr |-> addr, want |-> n,
                 first |-> FirstAbs(l, addr), count |-> c,
                 ret |-> IF op \in {"read", "write"} THEN ret
                         ELSE ExactResult(op, ret, n)]
  BY DEF Transfer
<1> HIDE DEF c
<1>3. ret \in Addr \cup {EIO, EINVAL} /\ 0 \in Addr /\ Addr \subseteq Nat
  BY <1>1, DiskAssumption DEF Addr
<1>4. /\ ExactResult(op, ret, n) \in Addr \cup {EIO, EINVAL}
      /\ ExactResult(op, ret, n) = 0 => ret = n
  BY <1>3 DEF ExactResult, EIO, EINVAL
<1>5. last' \in Request
  BY <1>1, <1>2, <1>3, <1>4 DEF Request
<1>6. TransferInPartition'
  BY <1>2, RangeExact DEF TransferInPartition, c
<1>7. ret = n => c = n
  BY <1>2, <1>3 DEF EIO, Addr
<1>8. ExactMeansAll'
  BY <1>2, <1>4, <1>7 DEF ExactMeansAll
<1> QED
  BY <1>5, <1>6, <1>8

-----------------------------------------------------------------------------
\* How far ldisk_discover has got: disks are visited in ascending order, and
\* every partition registered so far comes before the next entry.  This is
\* what makes PartitionsInOrder inductive.
Visited ==
    /\ \A i, j \in 1 .. Len(pdisks) : i < j => pdisks[i] < pdisks[j]
    /\ pc = "probe" => /\ ldisks = << >>
                       /\ \A i \in 1 .. Len(pdisks) : pdisks[i] < disk
    /\ pc = "read" /\ disk <= Len(pdisks) =>
         \A i \in 1 .. Len(ldisks) : ldisks[i].disk < pdisks[disk]
    /\ pc = "entry" =>
         \A i \in 1 .. Len(ldisks) :
            \/ ldisks[i].disk < pdisks[disk]
            \/ ldisks[i].disk = pdisks[disk] /\ ldisks[i].entry < entry

IInv ==
    TypeOK /\ TransferInPartition /\ ExactMeansAll /\ PartitionsInOrder /\ Visited

\* Nothing is registered and nothing was requested at boot.
LEMMA InitInv == Init => IInv
<1> SUFFICES ASSUME Init PROVE IInv
  OBVIOUS
<1>1. TypeOK
  BY EmptySeq, DiskAssumption DEF Init, TypeOK
<1>2. PartitionsInOrder /\ Visited
  BY DEF Init, PartitionsInOrder, Visited
<1>3. TransferInPartition /\ ExactMeansAll
  BY DEF Init, TransferInPartition, ExactMeansAll
<1> QED
  BY <1>1, <1>2, <1>3 DEF IInv

\* A step that leaves the last request alone keeps what is known about it.
LEMMA LastUnchanged ==
  ASSUME TransferInPartition, ExactMeansAll, UNCHANGED last
  PROVE  TransferInPartition' /\ ExactMeansAll'
BY DEF TransferInPartition, ExactMeansAll

\* A disk that the driver finds is larger than those found before.
LEMMA PdiskRegisterInv == IInv /\ pdisk_register => IInv'
<1> SUFFICES ASSUME IInv, pdisk_register PROVE IInv'
  OBVIOUS
<1> USE DEF IInv
<1>1. disk \in 1 .. NDisks /\ disk' = disk + 1 /\ pc = "probe" /\ pc' = "probe"
  BY DiskAssumption DEF pdisk_register, TypeOK
<1>2. UNCHANGED <<table, ldisks, entry, last>>
  BY DEF pdisk_register
<1>3. TransferInPartition' /\ ExactMeansAll'
  BY <1>2, LastUnchanged
<1>4. PartitionsInOrder'
  BY <1>2 DEF PartitionsInOrder
<1>5. CASE pdisks' = Append(pdisks, disk) /\ types' = types \cup {"pdisk"}
  <2>1. /\ pdisks' \in Seq(1 .. NDisks) /\ Len(pdisks') = Len(pdisks) + 1
        /\ \A k \in 1 .. Len(pdisks) : pdisks'[k] = pdisks[k]
        /\ pdisks'[Len(pdisks) + 1] = disk
        /\ Len(pdisks) \in Nat
    BY <1>1, <1>5, AppendProperties, LenProperties DEF TypeOK
  <2>2. TypeOK'
    BY <1>1, <1>2, <1>5, <2>1 DEF TypeOK
  <2>3. \A k \in 1 .. Len(pdisks) : pdisks[k] \in Nat /\ pdisks[k] < disk
    BY <1>1, Elements DEF Visited
  <2>4. \A i, j \in 1 .. Len(pdisks') : i < j => pdisks'[i] < pdisks'[j]
    BY <2>1, <2>3 DEF Visited
  <2>5. \A k \in 1 .. Len(pdisks') : pdisks'[k] < disk'
    BY <1>1, <2>1, <2>3
  <2>6. Visited'
    BY <1>1, <1>2, <2>4, <2>5 DEF Visited
  <2> QED
    BY <1>3, <1>4, <2>2, <2>6
<1>6. CASE UNCHANGED <<pdisks, types>>
  <2>1. \A k \in 1 .. Len(pdisks) : pdisks[k] < disk'
    BY <1>1, Elements DEF Visited
  <2>2. TypeOK' /\ Visited'
    BY <1>1, <1>2, <1>6, <2>1 DEF TypeOK, Visited
  <2> QED
    BY <1>3, <1>4, <2>2
<1> QED
  BY <1>5, <1>6 DEF pdisk_register, CanRegister, CannotRegister

\* Going from disk to disk and from entry to entry registers nothing.
LEMMA WalkInv ==
  IInv /\ (ldisk_discover \/ ReadFirstBlock \/ EndOfTable) => IInv'
<1> SUFFICES ASSUME IInv, ldisk_discover \/ ReadFirstBlock \/ EndOfTable
             PROVE  IInv'
  OBVIOUS
<1> USE DEF IInv
<1>1. UNCHANGED <<table, pdisks, ldisks, types, last>>
  BY DEF ldisk_discover, ReadFirstBlock, EndOfTable
<1>2. TransferInPartition' /\ ExactMeansAll'
  BY <1>1, LastUnchanged
<1>3. PartitionsInOrder'
  BY <1>1 DEF PartitionsInOrder
<1>4. Len(pdisks) \in Nat /\ \A k \in 1 .. Len(pdisks) : pdisks[k] \in Nat
  BY Elements
<1>5. \A k \in 1 .. Len(ldisks) : ldisks[k].disk \in Nat /\ ldisks[k].entry \in Nat
  BY Elements
<1>6. CASE ldisk_discover
  <2>1. TypeOK'
    BY <1>1, <1>6 DEF TypeOK, ldisk_discover
  <2>2. Visited'
    BY <1>1, <1>6, EmptySeq DEF Visited, ldisk_discover
  <2> QED
    BY <1>2, <1>3, <2>1, <2>2
<1>7. CASE ReadFirstBlock
  <2>1. TypeOK'
    BY <1>1, <1>4, <1>7 DEF TypeOK, ReadFirstBlock
  <2>2. ASSUME disk > Len(pdisks), pc' = "ready" PROVE Visited'
    BY <1>1, <2>2 DEF Visited
  <2>3. ASSUME pc = "read", disk <= Len(pdisks), disk' = disk + 1, pc' = pc
        PROVE  Visited'
    <3>1. disk \in 1 .. Len(pdisks)
      BY <1>4, <2>3 DEF TypeOK
    <3>2. disk' <= Len(pdisks) => pdisks[disk] < pdisks[disk']
      BY <1>4, <2>3, <3>1 DEF Visited
    <3>3. disk' <= Len(pdisks) =>
            \A i \in 1 .. Len(ldisks) : ldisks[i].disk < pdisks[disk']
      BY <1>4, <1>5, <2>3, <3>1, <3>2 DEF Visited
    <3> QED
      BY <1>1, <2>3, <3>3 DEF Visited
  <2>4. ASSUME pc = "read", disk <= Len(pdisks), pc' = "entry", disk' = disk
        PROVE  Visited'
    BY <1>1, <2>4 DEF Visited
  <2>5. Visited'
    BY <1>7, <2>2, <2>3, <2>4 DEF ReadFirstBlock
  <2> QED
    BY <1>2, <1>3, <2>1, <2>5
<1>8. CASE EndOfTable
  <2>1. pc = "entry" /\ pc' = "read" /\ disk' = disk + 1 /\ disk \in 1 .. Len(pdisks)
    BY <1>8 DEF EndOfTable, TypeOK
  <2>2. TypeOK'
    BY <1>1, <1>8, <2>1 DEF TypeOK, EndOfTable
  <2>3. disk' <= Len(pdisks) => pdisks[disk] < pdisks[disk']
    BY <1>4, <2>1 DEF Visited
  <2>4. disk' <= Len(pdisks) =>
          \A i \in 1 .. Len(ldisks) : ldisks[i].disk < pdisks[disk']
    BY <1>4, <1>5, <2>1, <2>3 DEF Visited
  <2>5. Visited'
    BY <1>1, <2>1, <2>4 DEF Visited
  <2> QED
    BY <1>2, <1>3, <2>2, <2>5
<1> QED
  BY <1>6, <1>7, <1>8

\* The partition that register_ldisk adds comes after all the others.
LEMMA RegisterLdiskInv == IInv /\ register_ldisk => IInv'
<1> SUFFICES ASSUME IInv, register_ldisk PROVE IInv'
  OBVIOUS
<1> USE DEF IInv
<1> DEFINE e == table[pdisks[disk]][entry]
           l == [disk |-> pdisks[disk], entry |-> entry, start |-> e.start,
                 count |-> e.count, id |-> Len(ldisks)]
<1>1. /\ pc = "entry" /\ entry <= NEntries /\ entry' = entry + 1
      /\ UNCHANGED <<table, pdisks, pc, disk, last>>
  BY DEF register_ldisk
<1>2. l \in Ldisk /\ e \in Entry
  BY <1>1, NewLdisk, CurrentEntry
<1>3. TransferInPartition' /\ ExactMeansAll'
  BY <1>1, LastUnchanged
<1>4. entry \in Nat /\ entry' \in Nat \ {0}
  BY <1>1 DEF TypeOK
<1>5. l.disk = pdisks[disk] /\ l.entry = entry /\ l.id = Len(ldisks)
  OBVIOUS
<1>6. CASE e.type # 0 /\ types' = types \cup {"ldisk"} /\ ldisks' = Append(ldisks, l)
  <2> HIDE DEF l, e
  <2>1. /\ ldisks' \in Seq(Ldisk) /\ Len(ldisks') = Len(ldisks) + 1
        /\ \A k \in 1 .. Len(ldisks) : ldisks'[k] = ldisks[k]
        /\ ldisks'[Len(ldisks) + 1] = l
        /\ Len(ldisks) \in Nat
    BY <1>2, <1>6, AppendProperties, LenProperties DEF TypeOK
  <2>2. TypeOK'
    BY <1>1, <1>4, <1>6, <2>1 DEF TypeOK
  <2>3. \A k \in 1 .. Len(ldisks) : Before(ldisks[k], l)
    BY <1>1, <1>5 DEF Visited, Before
  <2>4. \A i, j \in 1 .. Len(ldisks') : i < j => Before(ldisks'[i], ldisks'[j])
    <3> SUFFICES ASSUME NEW i \in 1 .. Len(ldisks'), NEW j \in 1 .. Len(ldisks'),
                        i < j
                 PROVE  Before(ldisks'[i], ldisks'[j])
      OBVIOUS
    <3>1. i \in 1 .. Len(ldisks) /\ ldisks'[i] = ldisks[i]
      BY <2>1
    <3>2. CASE j = Len(ldisks) + 1
      BY <2>1, <2>3, <3>1, <3>2
    <3>3. CASE j \in 1 .. Len(ldisks)
      BY <2>1, <3>1, <3>3 DEF PartitionsInOrder
    <3> QED
      BY <2>1, <3>2, <3>3
  <2>5. \A i \in 1 .. Len(ldisks') :
           /\ ldisks'[i].id = i - 1
           /\ table[ldisks'[i].disk][ldisks'[i].entry].type # 0
    <3>1. \A i \in 1 .. Len(ldisks) :
             /\ ldisks'[i].id = i - 1
             /\ table[ldisks'[i].disk][ldisks'[i].entry].type # 0
      BY <2>1 DEF PartitionsInOrder
    <3>2. table[l.disk][l.entry].type # 0
      BY <1>5, <1>6 DEF e
    <3> QED
      BY <1>5, <2>1, <3>1, <3>2
  <2>6. PartitionsInOrder'
    BY <1>1, <2>4, <2>5 DEF PartitionsInOrder, Before
  <2>7. \A k \in 1 .. Len(ldisks) : ldisks[k].entry \in Nat
    BY Elements
  <2>8. \A i \in 1 .. Len(ldisks') :
            \/ ldisks'[i].disk < pdisks[disk]
            \/ ldisks'[i].disk = pdisks[disk] /\ ldisks'[i].entry < entry'
    BY <1>1, <1>4, <1>5, <2>1, <2>7 DEF Visited
  <2>9. Visited'
    BY <1>1, <2>8 DEF Visited
  <2> QED
    BY <1>3, <2>2, <2>6, <2>9
<1>7. CASE UNCHANGED <<ldisks, types>>
  <2>1. TypeOK'
    BY <1>1, <1>4, <1>7 DEF TypeOK
  <2>2. PartitionsInOrder'
    BY <1>1, <1>7 DEF PartitionsInOrder
  <2>3. \A k \in 1 .. Len(ldisks) : ldisks[k].entry \in Nat
    BY Elements
  <2>4. Visited'
    BY <1>1, <1>4, <1>7, <2>3 DEF Visited
  <2> QED
    BY <1>3, <2>1, <2>2, <2>4
<1> QED
  BY <1>6, <1>7 DEF register_ldisk, CanRegister, Registered

\* A request changes nothing but the record of it.
LEMMA RequestInv == IInv /\ ldisk_request => IInv'
<1> SUFFICES ASSUME IInv, ldisk_request PROVE IInv'
  OBVIOUS
<1> USE DEF IInv
<1>1. UNCHANGED <<table, pdisks, ldisks, types, pc, disk, entry>>
  BY DEF ldisk_request
<1>2. PICK op \in {"read", "write", "read_exact", "write_exact"},
           i \in 1 .. Len(ldisks), addr \in Addr, n \in Addr :
              Transfer(op, ldisks[i], addr, n)
  BY DEF ldisk_request
<1>3. ldisks[i] \in Ldisk
  BY Elements
<1>4. last' \in Request /\ TransferInPartition' /\ ExactMeansAll'
  BY <1>2, <1>3, TransferExact
<1>5. TypeOK'
  BY <1>1, <1>4 DEF TypeOK
<1>6. PartitionsInOrder' /\ Visited'
  BY <1>1 DEF PartitionsInOrder, Visited
<1> QED
  BY <1>4, <1>5, <1>6

\* The invariant holds in every reachable state of disk.c and iodev.c.
THEOREM DiskInvariance == Spec => []IInv
<1>1. IInv /\ [Next]_vars => IInv'
  <2> SUFFICES ASSUME IInv, [Next]_vars PROVE IInv'
    OBVIOUS
  <2>1. CASE pdisk_register
    BY <2>1, PdiskRegisterInv
  <2>2. CASE ldisk_discover \/ ReadFirstBlock \/ EndOfTable
    BY <2>2, WalkInv
  <2>3. CASE register_ldisk
    BY <2>3, RegisterLdiskInv
  <2>4. CASE ldisk_request
    BY <2>4, RequestInv
  <2>5. CASE UNCHANGED vars
    <3>1. UNCHANGED <<table, pdisks, ldisks, types, pc, disk, entry, last>>
      BY <2>5 DEF vars
    <3>2. TypeOK'
      BY <3>1 DEF IInv, TypeOK
    <3>3. TransferInPartition' /\ ExactMeansAll'
      BY <3>1 DEF IInv, TransferInPartition, ExactMeansAll
    <3>4. PartitionsInOrder'
      BY <3>1 DEF IInv, PartitionsInOrder, Before
    <3>5. Visited'
      BY <3>1 DEF IInv, Visited
    <3> QED BY <3>2, <3>3, <3>4, <3>5 DEF IInv
  <2> QED
    BY <2>1, <2>2, <2>3, <2>4, <2>5 DEF Next
<1> QED
  BY <1>1, InitInv, PTL DEF Spec

\* No request to a partition ever touches a block outside it, and none is cut
\* short before the end of the partition (to_abs_block_range).
THEOREM TransferSafety == Spec => []TransferInPartition
<1>1. IInv => TransferInPartition
  BY DEF IInv
<1> QED
  BY <1>1, DiskInvariance, PTL

\* ldisk_read_exact and ldisk_write_exact only report success for a complete
\* transfer.
THEOREM ExactSafety == Spec => []ExactMeansAll
<1>1. IInv => ExactMeansAll
  BY DEF IInv
<1> QED
  BY <1>1, DiskInvariance, PTL

\* Partitions are listed in disk and table order, numbered without gaps.
THEOREM OrderSafety == Spec => []PartitionsInOrder
<1>1. IInv => PartitionsInOrder
  BY DEF IInv
<1> QED
  BY <1>1, DiskInvariance, PTL

-----------------------------------------------------------------------------
CONSTANTS PrdCount, MaxPolls
VARIABLES ipc, chan, enabled, want_bm, bm_base, heap, pages, maps, ibm, count,
          ihandlers, buses, ipending, igot_irq, drive, idisks

B == INSTANCE IdeInit WITH
       pc <- ipc, bm <- ibm, handlers <- ihandlers, pending <- ipending,
       got_irq <- igot_irq, disks <- idisks

(***************************************************************************)
(* How an IDE controller is brought up.  The inductive invariant says what *)
(* is allocated for a channel at each point of init_controller: nothing    *)
(* before its turn, and in init_busmaster exactly what fail_oom gives back.*)
(***************************************************************************)
Labels == {"callback", "channel", "prdt", "map", "buffers", "oom", "status", "wait", "drive", "done"}
NotBegun(c) == c > chan \/ (c = chan /\ ipc \in {"callback", "channel"})
PrdtAndBuffers(c, n) == {B!Prdt(c)} \cup {B!Buffer(c, i) : i \in 1 .. n}

NothingYet ==
  /\ \A c \in B!Channels : NotBegun(c) =>
        B!Bus(c) \notin heap /\ pages \cap B!PagesOf(c) = {} /\ B!Prdt(c) \notin maps /\ c \notin ibm
  /\ \A c \in B!Channels : (NotBegun(c) \/ (c = chan /\ ipc \notin {"wait", "drive", "done"})) => ~B!BusInUse(c)

InBusmasterExact ==
  /\ ipc \in {"prdt", "map", "buffers", "oom"} => chan \notin ibm
  /\ ipc = "prdt" => pages \cap B!PagesOf(chan) = {} /\ B!Prdt(chan) \notin maps /\ count = 0
  /\ ipc = "map" => pages \cap B!PagesOf(chan) = {B!Prdt(chan)} /\ B!Prdt(chan) \notin maps /\ count = 0
  /\ ipc = "buffers" => /\ pages \cap B!PagesOf(chan) = PrdtAndBuffers(chan, count)
                        /\ B!Prdt(chan) \in maps /\ count <= PrdCount
  /\ ipc = "oom" => pages \cap B!PagesOf(chan) \subseteq PrdtAndBuffers(chan, count)

BringInv ==
  /\ ipc \in Labels /\ chan \in B!Channels /\ drive \in B!Drives /\ count \in Nat
  /\ B!ControllerSound
  /\ ipc \notin {"callback", "done"} => B!Shared \in heap
  /\ ipc \notin {"callback", "channel", "done"} => B!Bus(chan) \in heap
  /\ NothingYet /\ InBusmasterExact

\* No two blocks are the same.
LEMMA BlocksDiffer ==
  /\ \A c : B!Bus(c) # B!Shared
  /\ \A c, d : B!Bus(c) = B!Bus(d) => c = d
  /\ \A c, d, e : B!Disk(c, d) # B!Bus(e) /\ B!Disk(c, d) # B!Shared
  /\ \A c, d, e, f : B!Disk(c, d) = B!Disk(e, f) => c = e /\ d = f
  /\ \A c, d, i : B!Buffer(c, i) # B!Prdt(d)
  /\ \A c, d : B!Prdt(c) = B!Prdt(d) => c = d
  /\ \A c, d, i, j : B!Buffer(c, i) = B!Buffer(d, j) => c = d /\ i = j
<1>1. /\ \A c : B!Bus(c)[1] = "bus" /\ B!Bus(c)[2] = c
      /\ B!Shared[1] = "shared"
      /\ \A c : B!Prdt(c)[1] = "prdt" /\ B!Prdt(c)[2] = c
      /\ \A c, i : B!Buffer(c, i)[1] = "buffer" /\ B!Buffer(c, i)[2] = c /\ B!Buffer(c, i)[3] = i
      /\ \A c, d : B!Disk(c, d)[1] = "disk" /\ B!Disk(c, d)[2] = c /\ B!Disk(c, d)[3] = d
  BY DEF B!Bus, B!Shared, B!Prdt, B!Buffer, B!Disk
<1>2. /\ "bus" # "shared" /\ "disk" # "bus" /\ "disk" # "shared" /\ "buffer" # "prdt"
  OBVIOUS
<1>3. \A c, d, e : B!Bus(c) # B!Shared /\ B!Disk(c, d) # B!Bus(e) /\ B!Disk(c, d) # B!Shared
  BY <1>1, <1>2
<1>4. \A c, d, i : B!Buffer(c, i) # B!Prdt(d)
  BY <1>1, <1>2
<1>5. \A c, d : (B!Bus(c) = B!Bus(d) => c = d) /\ (B!Prdt(c) = B!Prdt(d) => c = d)
  BY <1>1
<1>6. \A c, d, e, f : B!Disk(c, d) = B!Disk(e, f) => c = e /\ d = f
  BY <1>1
<1>7. \A c, d, i, j : B!Buffer(c, i) = B!Buffer(d, j) => c = d /\ i = j
  BY <1>1
<1> QED BY <1>3, <1>4, <1>5, <1>6, <1>7

\* The pages of a channel.
LEMMA PagesDiffer ==
  ASSUME B!IdeInitAssumption, NEW c, NEW d
  PROVE  /\ B!Prdt(c) \in B!PagesOf(c)
         /\ \A n \in Nat : n <= PrdCount => PrdtAndBuffers(c, n) \subseteq B!PagesOf(c)
         /\ c # d => /\ B!PagesOf(c) \cap B!PagesOf(d) = {}
                     /\ \A n : PrdtAndBuffers(c, n) \cap B!PagesOf(d) = {}
<1>1. B!Prdt(c) \in B!PagesOf(c)
  BY DEF B!PagesOf
<1>2. \A n : \A x \in PrdtAndBuffers(c, n) : x = B!Prdt(c) \/ \E i : x = B!Buffer(c, i)
  BY DEF PrdtAndBuffers
<1>3. \A e : \A x \in B!PagesOf(e) : x = B!Prdt(e) \/ \E i : x = B!Buffer(e, i)
  BY DEF B!PagesOf
<1>4. c # d => /\ B!PagesOf(c) \cap B!PagesOf(d) = {}
               /\ \A n : PrdtAndBuffers(c, n) \cap B!PagesOf(d) = {}
  BY <1>2, <1>3, BlocksDiffer
<1>5. ASSUME NEW n \in Nat, n <= PrdCount
      PROVE  PrdtAndBuffers(c, n) \subseteq B!PagesOf(c)
  BY <1>5 DEF PrdtAndBuffers, B!PagesOf, B!IdeInitAssumption
<1> QED BY <1>1, <1>4, <1>5

\* pci_probe_callback reads the registers before anything is allocated but what the
\* channels share.
LEMMA CallbackInv == ASSUME B!IdeInitAssumption, BringInv, B!pci_probe_callback PROVE BringInv'
<1> USE DEF B!pci_probe_callback, B!config, B!blocks, B!irqs, B!Goto, B!ChannelDone
<1>1. ipc' \in Labels /\ chan' \in B!Channels /\ drive' \in B!Drives /\ count' \in Nat
  BY DEF BringInv, Labels, B!Channels, B!Drives
<1>2. /\ ipc' \notin {"callback", "done"} => B!Shared \in heap'
      /\ ipc' \notin {"callback", "channel", "done"} => B!Bus(chan') \in heap'
  BY BlocksDiffer DEF BringInv
<1>3. \A c \in B!Channels : B!BusInUse(c)' => {B!Shared, B!Bus(c)} \subseteq heap'
  BY BlocksDiffer DEF BringInv, B!ControllerSound, B!BusInUse, NothingYet, NotBegun
<1>4. \A c \in B!Channels : (B!Bus(c) \in heap' /\ ~B!InBusmaster(c)') =>
         /\ pages' \cap B!PagesOf(c) = IF c \in ibm' THEN B!PagesOf(c) ELSE {}
         /\ B!Prdt(c) \in maps' <=> c \in ibm'
  BY BlocksDiffer, PagesDiffer DEF BringInv, B!ControllerSound, B!InBusmaster, NothingYet, NotBegun, InBusmasterExact
<1>5. \A c \in B!Channels, d \in B!Drives : B!Disk(c, d) \in heap' <=> <<c, d>> \in idisks'
  <2>1. idisks' = idisks
    OBVIOUS
  <2>2. \A c, d : B!Disk(c, d) \in heap' <=> B!Disk(c, d) \in heap
    BY BlocksDiffer
  <2> QED BY <2>1, <2>2, Zenon DEF BringInv, B!ControllerSound
<1>6. NothingYet'
  BY BlocksDiffer, PagesDiffer, Zenon DEF BringInv, NothingYet, NotBegun, B!BusInUse, B!Channels
<1>7. InBusmasterExact'
  BY BlocksDiffer, PagesDiffer DEF BringInv, NothingYet, NotBegun, InBusmasterExact
<1> QED BY <1>1, <1>2, <1>3, <1>4, <1>5, <1>6, <1>7 DEF BringInv, B!ControllerSound

\* init_controller begins a channel, or leaves it.
LEMMA ChannelInv == ASSUME B!IdeInitAssumption, BringInv, B!init_controller PROVE BringInv'
<1> USE DEF B!init_controller, B!config, B!blocks, B!irqs, B!Goto, B!ChannelDone
<1>1. ipc' \in Labels /\ chan' \in B!Channels /\ drive' \in B!Drives /\ count' \in Nat
  BY DEF BringInv, Labels, B!Channels, B!Drives
<1>2. /\ ipc' \notin {"callback", "done"} => B!Shared \in heap'
      /\ ipc' \notin {"callback", "channel", "done"} => B!Bus(chan') \in heap'
  BY BlocksDiffer DEF BringInv
<1>3. \A c \in B!Channels : B!BusInUse(c)' => {B!Shared, B!Bus(c)} \subseteq heap'
  BY BlocksDiffer DEF BringInv, B!ControllerSound, B!BusInUse, NothingYet, NotBegun
<1>4. \A c \in B!Channels : (B!Bus(c) \in heap' /\ ~B!InBusmaster(c)') =>
         /\ pages' \cap B!PagesOf(c) = IF c \in ibm' THEN B!PagesOf(c) ELSE {}
         /\ B!Prdt(c) \in maps' <=> c \in ibm'
  BY BlocksDiffer, PagesDiffer DEF BringInv, B!ControllerSound, B!InBusmaster, NothingYet, NotBegun, InBusmasterExact
<1>5. \A c \in B!Channels, d \in B!Drives : B!Disk(c, d) \in heap' <=> <<c, d>> \in idisks'
  <2>1. idisks' = idisks
    OBVIOUS
  <2>2. \A c, d : B!Disk(c, d) \in heap' <=> B!Disk(c, d) \in heap
    BY BlocksDiffer
  <2> QED BY <2>1, <2>2, Zenon DEF BringInv, B!ControllerSound
<1>6. NothingYet'
  BY BlocksDiffer, PagesDiffer DEF BringInv, NothingYet, NotBegun, B!BusInUse, B!Channels
<1>7. InBusmasterExact'
  BY BlocksDiffer, PagesDiffer DEF BringInv, NothingYet, NotBegun, InBusmasterExact
<1> QED BY <1>1, <1>2, <1>3, <1>4, <1>5, <1>6, <1>7 DEF BringInv, B!ControllerSound

\* init_busmaster allocates the PRDT.
LEMMA PrdtInv == ASSUME B!IdeInitAssumption, BringInv, B!AllocPrdt PROVE BringInv'
<1> USE DEF B!AllocPrdt, B!config, B!blocks, B!irqs, B!Goto, B!ChannelDone
<1>1. ipc' \in Labels /\ chan' \in B!Channels /\ drive' \in B!Drives /\ count' \in Nat
  BY DEF BringInv, Labels, B!Channels, B!Drives
<1>2. /\ ipc' \notin {"callback", "done"} => B!Shared \in heap'
      /\ ipc' \notin {"callback", "channel", "done"} => B!Bus(chan') \in heap'
  BY BlocksDiffer DEF BringInv
<1>3. \A c \in B!Channels : B!BusInUse(c)' => {B!Shared, B!Bus(c)} \subseteq heap'
  BY BlocksDiffer DEF BringInv, B!ControllerSound, B!BusInUse, NothingYet, NotBegun
<1>4. \A c \in B!Channels : (B!Bus(c) \in heap' /\ ~B!InBusmaster(c)') =>
         /\ pages' \cap B!PagesOf(c) = IF c \in ibm' THEN B!PagesOf(c) ELSE {}
         /\ B!Prdt(c) \in maps' <=> c \in ibm'
  BY BlocksDiffer, PagesDiffer DEF BringInv, B!ControllerSound, B!InBusmaster, NothingYet, NotBegun, InBusmasterExact
<1>5. \A c \in B!Channels, d \in B!Drives : B!Disk(c, d) \in heap' <=> <<c, d>> \in idisks'
  BY BlocksDiffer, Zenon DEF BringInv, B!ControllerSound
<1>6. NothingYet'
  BY BlocksDiffer, PagesDiffer DEF BringInv, NothingYet, NotBegun, B!BusInUse, B!Channels
<1>7. InBusmasterExact'
  BY BlocksDiffer, PagesDiffer DEF BringInv, NothingYet, NotBegun, InBusmasterExact
<1> QED BY <1>1, <1>2, <1>3, <1>4, <1>5, <1>6, <1>7 DEF BringInv, B!ControllerSound

\* init_busmaster maps it.
LEMMA MapPrdtInv == ASSUME B!IdeInitAssumption, BringInv, B!MapPrdt PROVE BringInv'
<1> USE DEF B!MapPrdt, B!config, B!blocks, B!irqs, B!Goto, B!ChannelDone
<1>1. ipc' \in Labels /\ chan' \in B!Channels /\ drive' \in B!Drives /\ count' \in Nat
  BY DEF BringInv, Labels, B!Channels, B!Drives
<1>2. /\ ipc' \notin {"callback", "done"} => B!Shared \in heap'
      /\ ipc' \notin {"callback", "channel", "done"} => B!Bus(chan') \in heap'
  BY BlocksDiffer DEF BringInv
<1>3. \A c \in B!Channels : B!BusInUse(c)' => {B!Shared, B!Bus(c)} \subseteq heap'
  BY BlocksDiffer DEF BringInv, B!ControllerSound, B!BusInUse, NothingYet, NotBegun
<1>4. \A c \in B!Channels : (B!Bus(c) \in heap' /\ ~B!InBusmaster(c)') =>
         /\ pages' \cap B!PagesOf(c) = IF c \in ibm' THEN B!PagesOf(c) ELSE {}
         /\ B!Prdt(c) \in maps' <=> c \in ibm'
  BY BlocksDiffer, PagesDiffer DEF BringInv, B!ControllerSound, B!InBusmaster, NothingYet, NotBegun, InBusmasterExact
<1>5. \A c \in B!Channels, d \in B!Drives : B!Disk(c, d) \in heap' <=> <<c, d>> \in idisks'
  BY BlocksDiffer, Zenon DEF BringInv, B!ControllerSound
<1>6. NothingYet'
  <2>1. \A c \in B!Channels : NotBegun(c)' => c # chan /\ NotBegun(c)
    BY DEF BringInv, NotBegun, B!Channels
  <2>2. \A c \in B!Channels : c # chan /\ B!Prdt(c) \notin maps => B!Prdt(c) \notin maps'
    BY BlocksDiffer
  <2>3. \A c : B!BusInUse(c)' <=> B!BusInUse(c)
    BY DEF B!BusInUse
  <2> QED BY <2>1, <2>2, <2>3 DEF BringInv, NothingYet
<1>7. InBusmasterExact'
  <2>1. PrdtAndBuffers(chan, 0) = {B!Prdt(chan)}
    BY DEF PrdtAndBuffers
  <2>2. 0 <= PrdCount
    BY DEF B!IdeInitAssumption
  <2> QED BY <2>1, <2>2 DEF BringInv, InBusmasterExact
<1> QED BY <1>1, <1>2, <1>3, <1>4, <1>5, <1>6, <1>7 DEF BringInv, B!ControllerSound

\* init_busmaster allocates the next buffer, or is done.
LEMMA BufferInv == ASSUME B!IdeInitAssumption, BringInv, B!AllocBuffer PROVE BringInv'
<1> USE DEF B!AllocBuffer, B!config, B!blocks, B!irqs, B!Goto, B!ChannelDone
<1>0. /\ \A c \in B!Channels : c # chan => pages' \cap B!PagesOf(c) = pages \cap B!PagesOf(c)
      /\ count # PrdCount => B!Buffer(chan, count + 1) \in B!PagesOf(chan)
      /\ PrdtAndBuffers(chan, count + 1) = PrdtAndBuffers(chan, count) \cup {B!Buffer(chan, count + 1)}
      /\ PrdtAndBuffers(chan, PrdCount) = B!PagesOf(chan)
      /\ \A x : x \in PrdtAndBuffers(chan, count) => x \in PrdtAndBuffers(chan, count + 1)
  <2>1. count \in Nat /\ PrdCount \in Nat /\ count <= PrdCount
    BY DEF BringInv, InBusmasterExact, B!IdeInitAssumption
  <2>2. count # PrdCount => B!Buffer(chan, count + 1) \in B!PagesOf(chan)
    BY <2>1 DEF B!PagesOf
  <2>3. 1 .. (count + 1) = (1 .. count) \cup {count + 1}
    BY <2>1
  <2>4. PrdtAndBuffers(chan, count + 1) = PrdtAndBuffers(chan, count) \cup {B!Buffer(chan, count + 1)}
    BY <2>3 DEF PrdtAndBuffers
  <2>5. PrdtAndBuffers(chan, PrdCount) = B!PagesOf(chan)
    BY DEF PrdtAndBuffers, B!PagesOf
  <2>6. \A c \in B!Channels : c # chan => B!Buffer(chan, count + 1) \notin B!PagesOf(c)
    BY BlocksDiffer DEF B!PagesOf
  <2>7. pages' = pages \/ (count # PrdCount /\ pages' = pages \cup {B!Buffer(chan, count + 1)})
    OBVIOUS
  <2> QED BY <2>2, <2>4, <2>5, <2>6, <2>7
<1>1. ipc' \in Labels /\ chan' \in B!Channels /\ drive' \in B!Drives /\ count' \in Nat
  BY DEF BringInv, Labels, B!Channels, B!Drives
<1>2. /\ ipc' \notin {"callback", "done"} => B!Shared \in heap'
      /\ ipc' \notin {"callback", "channel", "done"} => B!Bus(chan') \in heap'
  BY BlocksDiffer DEF BringInv
<1>3. \A c \in B!Channels : B!BusInUse(c)' => {B!Shared, B!Bus(c)} \subseteq heap'
  BY BlocksDiffer, Zenon DEF BringInv, B!ControllerSound, B!BusInUse, NothingYet, NotBegun
<1>4. \A c \in B!Channels : (B!Bus(c) \in heap' /\ ~B!InBusmaster(c)') =>
         /\ pages' \cap B!PagesOf(c) = IF c \in ibm' THEN B!PagesOf(c) ELSE {}
         /\ B!Prdt(c) \in maps' <=> c \in ibm'
  <2> SUFFICES ASSUME NEW c \in B!Channels, B!Bus(c) \in heap', ~B!InBusmaster(c)'
               PROVE  /\ pages' \cap B!PagesOf(c) = IF c \in ibm' THEN B!PagesOf(c) ELSE {}
                      /\ B!Prdt(c) \in maps' <=> c \in ibm'
    OBVIOUS
  <2>1. CASE c # chan
    <3>1. ~B!InBusmaster(c) /\ B!Bus(c) \in heap
      BY <2>1 DEF B!InBusmaster
    <3> QED BY <1>0, <2>1, <3>1 DEF BringInv, B!ControllerSound
  <2>2. CASE c = chan
    <3>1. count = PrdCount
      BY <2>2 DEF B!InBusmaster
    <3>2. pages \cap B!PagesOf(chan) = B!PagesOf(chan) /\ B!Prdt(chan) \in maps
      BY <1>0, <3>1 DEF BringInv, InBusmasterExact
    <3> QED BY <2>2, <3>1, <3>2
  <2> QED BY <2>1, <2>2
<1>5. \A c \in B!Channels, d \in B!Drives : B!Disk(c, d) \in heap' <=> <<c, d>> \in idisks'
  BY BlocksDiffer, Zenon DEF BringInv, B!ControllerSound
<1>6. NothingYet'
  BY <1>0 DEF BringInv, NothingYet, NotBegun, B!BusInUse, B!Channels
<1>7. InBusmasterExact'
  <2>1. CASE count = PrdCount
    BY <2>1 DEF BringInv, InBusmasterExact
  <2>2. CASE count # PrdCount
    <3>1. count \in Nat /\ PrdCount \in Nat /\ count <= PrdCount
      BY DEF BringInv, InBusmasterExact, B!IdeInitAssumption
    <3>2. count + 1 <= PrdCount
      BY <2>2, <3>1
    <3>3. /\ chan' = chan /\ chan \notin ibm' /\ pages \cap B!PagesOf(chan) = PrdtAndBuffers(chan, count)
          /\ B!Prdt(chan) \in maps' /\ ipc' \in {"buffers", "oom"}
      BY <2>2 DEF BringInv, InBusmasterExact
    <3>4. CASE pages' = pages \cup {B!Buffer(chan, count + 1)} /\ count' = count + 1 /\ ipc' = "buffers"
      <4>1. pages' \cap B!PagesOf(chan) = PrdtAndBuffers(chan, count + 1)
        BY <1>0, <2>2, <3>3, <3>4
      <4> QED BY <3>2, <3>3, <3>4, <4>1 DEF InBusmasterExact
    <3>5. CASE pages' = pages /\ count' = count /\ ipc' = "oom"
      BY <3>3, <3>5 DEF InBusmasterExact
    <3> QED BY <2>2, <3>4, <3>5
  <2> QED BY <2>1, <2>2
<1> QED BY <1>1, <1>2, <1>3, <1>4, <1>5, <1>6, <1>7 DEF BringInv, B!ControllerSound

\* fail_oom gives back what init_busmaster got so far.
LEMMA OomInv == ASSUME B!IdeInitAssumption, BringInv, B!FailOom PROVE BringInv'
<1> USE DEF B!FailOom, B!config, B!blocks, B!irqs, B!Goto, B!ChannelDone
<1>1. ipc' \in Labels /\ chan' \in B!Channels /\ drive' \in B!Drives /\ count' \in Nat
  BY DEF BringInv, Labels, B!Channels, B!Drives
<1>2. /\ ipc' \notin {"callback", "done"} => B!Shared \in heap'
      /\ ipc' \notin {"callback", "channel", "done"} => B!Bus(chan') \in heap'
  BY BlocksDiffer DEF BringInv
<1>3. \A c \in B!Channels : B!BusInUse(c)' => {B!Shared, B!Bus(c)} \subseteq heap'
  BY BlocksDiffer, Zenon DEF BringInv, B!ControllerSound, B!BusInUse, NothingYet, NotBegun
<1>4. \A c \in B!Channels : (B!Bus(c) \in heap' /\ ~B!InBusmaster(c)') =>
         /\ pages' \cap B!PagesOf(c) = IF c \in ibm' THEN B!PagesOf(c) ELSE {}
         /\ B!Prdt(c) \in maps' <=> c \in ibm'
  <2> SUFFICES ASSUME NEW c \in B!Channels, B!Bus(c) \in heap', ~B!InBusmaster(c)'
               PROVE  /\ pages' \cap B!PagesOf(c) = IF c \in ibm' THEN B!PagesOf(c) ELSE {}
                      /\ B!Prdt(c) \in maps' <=> c \in ibm'
    OBVIOUS
  <2>0. pages' = pages \ PrdtAndBuffers(chan, count)
    BY DEF PrdtAndBuffers
  <2>1. CASE c # chan
    <3>1. ~B!InBusmaster(c) /\ B!Bus(c) \in heap
      BY <2>1 DEF B!InBusmaster
    <3>2. pages' \cap B!PagesOf(c) = pages \cap B!PagesOf(c)
      BY <2>0, <2>1, PagesDiffer
    <3> QED BY <2>1, <3>1, <3>2, BlocksDiffer, Zenon DEF BringInv, B!ControllerSound
  <2>2. CASE c = chan
    BY <2>0, <2>2 DEF BringInv, InBusmasterExact
  <2> QED BY <2>1, <2>2
<1>5. \A c \in B!Channels, d \in B!Drives : B!Disk(c, d) \in heap' <=> <<c, d>> \in idisks'
  BY BlocksDiffer, Zenon DEF BringInv, B!ControllerSound
<1>6. NothingYet'
  BY BlocksDiffer, PagesDiffer DEF BringInv, NothingYet, NotBegun, B!BusInUse, B!Channels
<1>7. InBusmasterExact'
  BY BlocksDiffer, PagesDiffer, Zenon DEF BringInv, NothingYet, NotBegun, InBusmasterExact
<1> QED BY <1>1, <1>2, <1>3, <1>4, <1>5, <1>6, <1>7 DEF BringInv, B!ControllerSound

\* A bus that nothing drives is freed: no one knows it yet.
LEMMA FloatingInv == ASSUME B!IdeInitAssumption, BringInv, B!Floating PROVE BringInv'
<1> USE DEF B!Floating, B!config, B!blocks, B!irqs, B!Goto, B!ChannelDone
<1>1. ipc' \in Labels /\ chan' \in B!Channels /\ drive' \in B!Drives /\ count' \in Nat
  BY DEF BringInv, Labels, B!Channels, B!Drives
<1>2. /\ ipc' \notin {"callback", "done"} => B!Shared \in heap'
      /\ ipc' \notin {"callback", "channel", "done"} => B!Bus(chan') \in heap'
  BY BlocksDiffer DEF BringInv
<1>3. \A c \in B!Channels : B!BusInUse(c)' => {B!Shared, B!Bus(c)} \subseteq heap'
  BY BlocksDiffer DEF BringInv, B!ControllerSound, B!BusInUse, NothingYet, NotBegun
<1>4. \A c \in B!Channels : (B!Bus(c) \in heap' /\ ~B!InBusmaster(c)') =>
         /\ pages' \cap B!PagesOf(c) = IF c \in ibm' THEN B!PagesOf(c) ELSE {}
         /\ B!Prdt(c) \in maps' <=> c \in ibm'
  BY BlocksDiffer, PagesDiffer DEF BringInv, B!ControllerSound, B!InBusmaster, NothingYet, NotBegun, InBusmasterExact
<1>5. \A c \in B!Channels, d \in B!Drives : B!Disk(c, d) \in heap' <=> <<c, d>> \in idisks'
  BY BlocksDiffer, Zenon DEF BringInv, B!ControllerSound
<1>6. NothingYet'
  BY BlocksDiffer, PagesDiffer DEF BringInv, NothingYet, NotBegun, B!BusInUse, B!Channels
<1>7. InBusmasterExact'
  BY BlocksDiffer, PagesDiffer DEF BringInv, NothingYet, NotBegun, InBusmasterExact
<1> QED BY <1>1, <1>2, <1>3, <1>4, <1>5, <1>6, <1>7 DEF BringInv, B!ControllerSound

\* The bus becomes known to the PIC and to the other channel.
LEMMA ResetInv == ASSUME B!IdeInitAssumption, BringInv, B!RegisterAndReset PROVE BringInv'
<1> USE DEF B!RegisterAndReset, B!config, B!blocks, B!irqs, B!Goto, B!ChannelDone
<1>1. ipc' \in Labels /\ chan' \in B!Channels /\ drive' \in B!Drives /\ count' \in Nat
  BY DEF BringInv, Labels, B!Channels, B!Drives
<1>2. /\ ipc' \notin {"callback", "done"} => B!Shared \in heap'
      /\ ipc' \notin {"callback", "channel", "done"} => B!Bus(chan') \in heap'
  BY BlocksDiffer DEF BringInv
<1>3. \A c \in B!Channels : B!BusInUse(c)' => {B!Shared, B!Bus(c)} \subseteq heap'
  BY BlocksDiffer, Zenon DEF BringInv, B!ControllerSound, B!BusInUse, NothingYet, NotBegun
<1>4. \A c \in B!Channels : (B!Bus(c) \in heap' /\ ~B!InBusmaster(c)') =>
         /\ pages' \cap B!PagesOf(c) = IF c \in ibm' THEN B!PagesOf(c) ELSE {}
         /\ B!Prdt(c) \in maps' <=> c \in ibm'
  BY BlocksDiffer, PagesDiffer DEF BringInv, B!ControllerSound, B!InBusmaster, NothingYet, NotBegun, InBusmasterExact
<1>5. \A c \in B!Channels, d \in B!Drives : B!Disk(c, d) \in heap' <=> <<c, d>> \in idisks'
  BY BlocksDiffer, Zenon DEF BringInv, B!ControllerSound
<1>6. NothingYet'
  BY BlocksDiffer, PagesDiffer, Zenon DEF BringInv, NothingYet, NotBegun, B!BusInUse, B!Channels
<1>7. InBusmasterExact'
  BY BlocksDiffer, PagesDiffer DEF BringInv, NothingYet, NotBegun, InBusmasterExact
<1> QED BY <1>1, <1>2, <1>3, <1>4, <1>5, <1>6, <1>7 DEF BringInv, B!ControllerSound

\* Waiting changes no allocation.
LEMMA WaitInv == ASSUME B!IdeInitAssumption, BringInv, B!WaitReset PROVE BringInv'
<1> USE DEF B!WaitReset, B!config, B!blocks, B!irqs, B!Goto, B!ChannelDone
<1>1. ipc' \in Labels /\ chan' \in B!Channels /\ drive' \in B!Drives /\ count' \in Nat
  BY DEF BringInv, Labels, B!Channels, B!Drives
<1>2. /\ ipc' \notin {"callback", "done"} => B!Shared \in heap'
      /\ ipc' \notin {"callback", "channel", "done"} => B!Bus(chan') \in heap'
  BY BlocksDiffer DEF BringInv
<1>3. \A c \in B!Channels : B!BusInUse(c)' => {B!Shared, B!Bus(c)} \subseteq heap'
  BY BlocksDiffer DEF BringInv, B!ControllerSound, B!BusInUse, NothingYet, NotBegun
<1>4. \A c \in B!Channels : (B!Bus(c) \in heap' /\ ~B!InBusmaster(c)') =>
         /\ pages' \cap B!PagesOf(c) = IF c \in ibm' THEN B!PagesOf(c) ELSE {}
         /\ B!Prdt(c) \in maps' <=> c \in ibm'
  BY BlocksDiffer, PagesDiffer DEF BringInv, B!ControllerSound, B!InBusmaster, NothingYet, NotBegun, InBusmasterExact
<1>5. \A c \in B!Channels, d \in B!Drives : B!Disk(c, d) \in heap' <=> <<c, d>> \in idisks'
  BY BlocksDiffer, Zenon DEF BringInv, B!ControllerSound
<1>6. NothingYet'
  BY BlocksDiffer, PagesDiffer DEF BringInv, NothingYet, NotBegun, B!BusInUse, B!Channels
<1>7. InBusmasterExact'
  BY BlocksDiffer, PagesDiffer DEF BringInv, NothingYet, NotBegun, InBusmasterExact
<1> QED BY <1>1, <1>2, <1>3, <1>4, <1>5, <1>6, <1>7 DEF BringInv, B!ControllerSound

\* A drive gets a disk, or none.
LEMMA ProbeInv == ASSUME B!IdeInitAssumption, BringInv, B!ProbeDrive PROVE BringInv'
<1> USE DEF B!ProbeDrive, B!config, B!blocks, B!irqs, B!Goto, B!ChannelDone, B!Unregistered
<1>1. ipc' \in Labels /\ chan' \in B!Channels /\ drive' \in B!Drives /\ count' \in Nat
  BY DEF BringInv, Labels, B!Channels, B!Drives
<1>2. /\ ipc' \notin {"callback", "done"} => B!Shared \in heap'
      /\ ipc' \notin {"callback", "channel", "done"} => B!Bus(chan') \in heap'
  BY BlocksDiffer DEF BringInv
<1>3. \A c \in B!Channels : B!BusInUse(c)' => {B!Shared, B!Bus(c)} \subseteq heap'
  BY BlocksDiffer DEF BringInv, B!ControllerSound, B!BusInUse, NothingYet, NotBegun
<1>4. \A c \in B!Channels : (B!Bus(c) \in heap' /\ ~B!InBusmaster(c)') =>
         /\ pages' \cap B!PagesOf(c) = IF c \in ibm' THEN B!PagesOf(c) ELSE {}
         /\ B!Prdt(c) \in maps' <=> c \in ibm'
  <2>1. \A c : B!Bus(c) \in heap' => B!Bus(c) \in heap
    BY BlocksDiffer
  <2>2. UNCHANGED <<pages, maps, ibm>> /\ \A c : ~B!InBusmaster(c)
    BY DEF B!InBusmaster
  <2>3. \A c \in B!Channels : (B!Bus(c) \in heap /\ ~B!InBusmaster(c)) =>
           /\ pages \cap B!PagesOf(c) = IF c \in ibm THEN B!PagesOf(c) ELSE {}
           /\ B!Prdt(c) \in maps <=> c \in ibm
    BY Zenon DEF BringInv, B!ControllerSound
  <2> QED BY <2>1, <2>2, <2>3
<1>5. \A c \in B!Channels, d \in B!Drives : B!Disk(c, d) \in heap' <=> <<c, d>> \in idisks'
  <2>1. \/ heap' = heap \cup {B!Disk(chan, drive)} /\ idisks' = idisks \cup {<<chan, drive>>}
        \/ heap' = heap /\ idisks' = idisks
    OBVIOUS
  <2>2. \A c, d : B!Disk(c, d) = B!Disk(chan, drive) <=> <<c, d>> = <<chan, drive>>
    <3>1. \A c, d : <<c, d>> = <<chan, drive>> <=> c = chan /\ d = drive
      OBVIOUS
    <3> QED BY <3>1, BlocksDiffer, Zenon
  <2>3. \A c \in B!Channels, d \in B!Drives : B!Disk(c, d) \in heap <=> <<c, d>> \in idisks
    BY Zenon DEF BringInv, B!ControllerSound
  <2> QED BY <2>1, <2>2, <2>3, Zenon
<1>6. NothingYet'
  <2>1. \A c : B!Bus(c) \in heap' => B!Bus(c) \in heap
    BY BlocksDiffer
  <2>2. UNCHANGED <<pages, maps, ibm>>
    OBVIOUS
  <2>3. \A c \in B!Channels :
           NotBegun(c)' \/ (c = chan' /\ ipc' \notin {"wait", "drive", "done"}) => NotBegun(c) /\ c # chan
    BY DEF BringInv, NotBegun, B!Channels
  <2>4. \A c : c # chan /\ ~B!BusInUse(c) => ~B!BusInUse(c)'
    BY DEF B!BusInUse
  <2>5. \A c \in B!Channels : NotBegun(c) =>
           /\ B!Bus(c) \notin heap /\ pages \cap B!PagesOf(c) = {} /\ B!Prdt(c) \notin maps /\ c \notin ibm
           /\ ~B!BusInUse(c)
    BY Zenon DEF BringInv, NothingYet
  <2> QED BY <2>1, <2>2, <2>3, <2>4, <2>5 DEF NothingYet
<1>7. InBusmasterExact'
  BY BlocksDiffer, PagesDiffer DEF BringInv, NothingYet, NotBegun, InBusmasterExact
<1> QED BY <1>1, <1>2, <1>3, <1>4, <1>5, <1>6, <1>7 DEF BringInv, B!ControllerSound

\* The invariant holds before the controller is found, and every step of the
\* driver and every interrupt keeps it.
THEOREM BringUpInvariance == B!IdeInitAssumption => (B!Spec => []BringInv)
<1> SUFFICES ASSUME B!IdeInitAssumption PROVE B!Spec => []BringInv
  OBVIOUS
<1>1. B!Init => BringInv
  BY DEF B!Init, BringInv, Labels, B!Channels, B!Drives, B!ControllerSound, B!BusInUse, NothingYet,
         InBusmasterExact
<1>2. BringInv /\ [B!Next]_(B!vars) => BringInv'
  <2> SUFFICES ASSUME BringInv, [B!Next]_(B!vars) PROVE BringInv'
    OBVIOUS
  <2>1. ASSUME /\ UNCHANGED <<ipc, chan, heap, pages, maps, ibm, count, ihandlers, buses, drive, idisks>>
        PROVE  BringInv'
    BY <2>1, Zenon DEF BringInv, B!ControllerSound, B!BusInUse, B!InBusmaster, NothingYet, NotBegun,
                InBusmasterExact
  <2>2. CASE UNCHANGED B!vars
    BY <2>1, <2>2 DEF B!vars, B!config, B!blocks, B!irqs
  <2>3. CASE \E c \in B!Channels : B!irq_handler(c)
    BY <2>1, <2>3 DEF B!irq_handler, B!config, B!blocks
  <2>4. CASE B!Next /\ ~\E c \in B!Channels : B!irq_handler(c)
    BY <2>4, CallbackInv, ChannelInv, PrdtInv, MapPrdtInv, BufferInv, OomInv, FloatingInv,
       ResetInv, WaitInv, ProbeInv DEF B!Next
  <2> QED BY <2>2, <2>3, <2>4
<1> QED BY <1>1, <1>2, PTL DEF B!Spec

\* idebus.c: whatever fails while the controller is brought up, what is in use is
\* not freed, a disk has memory exactly if it is registered, and a channel has all
\* pages of the bus master or none, for every number of buffers.
THEOREM BringUpSafety == B!IdeInitAssumption => (B!Spec => []B!ControllerSound)
<1>1. BringInv => B!ControllerSound
  BY DEF BringInv
<1> QED BY <1>1, BringUpInvariance, PTL

-----------------------------------------------------------------------------
CONSTANTS Texts, CrToCrlf, IrqsOn, QueueCap, MaxIn, MaxOut, None
VARIABLES text, sent, spc, out, cr, timer, tx_queue, rx_queue, irqpc,
          thr, txint, rbr, line, arrived, accepted, got

S == INSTANCE Serial WITH pc <- spc

(***************************************************************************)
(* serial.c.  A byte that arrived, counted from 1, is in one place only:   *)
(* read, in the queue, or in the register.                                 *)
(***************************************************************************)
\* No number twice, and none above n.
Distinct(s, n) ==
  /\ s \in Seq(Nat) /\ \A i \in 1..Len(s) : s[i] <= n
  /\ \A i, j \in 1..Len(s) : i # j => s[i] # s[j]
NotIn(x, s) == \A i \in 1..Len(s) : s[i] # x
Apart2(s, t) == \A i \in 1..Len(s) : NotIn(s[i], t)

\* What was read, the queue and the register b.
InOnePlace(g, q, b, n) ==
  /\ n \in Nat /\ Distinct(g, n) /\ Distinct(q, n) /\ Apart2(g, q)
  /\ b = None \/ (b \in Nat /\ b <= n /\ NotIn(b, g) /\ NotIn(b, q))

ReadInv == InOnePlace(got, rx_queue, rbr, arrived)

\* A number that is not there yet can be appended.
LEMMA AppendDistinct ==
  ASSUME NEW s, NEW n \in Nat, Distinct(s, n), NEW x \in Nat, x <= n, NotIn(x, s)
  PROVE  /\ Distinct(Append(s, x), n)
         /\ \A y : NotIn(y, Append(s, x)) <=> y # x /\ NotIn(y, s)
<1>1. /\ s \in Seq(Nat) /\ Len(s) \in Nat /\ Append(s, x) \in Seq(Nat)
      /\ Len(Append(s, x)) = Len(s) + 1 /\ Append(s, x)[Len(s) + 1] = x
      /\ \A i \in 1..Len(s) : Append(s, x)[i] = s[i]
  BY AppendProperties DEF Distinct
<1>2. \A i \in 1..(Len(s) + 1) : i \in 1..Len(s) \/ i = Len(s) + 1
  BY <1>1
<1>3. \A i \in 1..Len(s) : i \in 1..(Len(s) + 1)
  BY <1>1
<1>4. Len(s) + 1 \in 1..(Len(s) + 1)
  BY <1>1
<1> DEFINE t == Append(s, x)
<1> HIDE DEF t
<1>5. /\ t \in Seq(Nat) /\ Len(t) = Len(s) + 1 /\ t[Len(s) + 1] = x
      /\ \A i \in 1..Len(s) : t[i] = s[i]
  BY <1>1 DEF t
<1>6. \A i \in 1..Len(t) : t[i] <= n
  BY <1>2, <1>5 DEF Distinct
<1>7. ASSUME NEW i \in 1..Len(t), NEW j \in 1..Len(t), i # j PROVE t[i] # t[j]
  BY <1>2, <1>5, <1>7, Zenon DEF Distinct, NotIn
<1>8. ASSUME NEW y PROVE NotIn(y, t) <=> y # x /\ NotIn(y, s)
  BY <1>2, <1>3, <1>4, <1>5 DEF NotIn
<1> QED BY <1>5, <1>6, <1>7, <1>8 DEF Distinct, t

\* The head of the queue leaves it.
LEMMA TailDistinct ==
  ASSUME NEW s, NEW n \in Nat, Distinct(s, n), s # << >>
  PROVE  /\ Distinct(Tail(s), n) /\ NotIn(Head(s), Tail(s)) /\ Head(s) \in Nat /\ Head(s) <= n
         /\ \A y : NotIn(y, s) => NotIn(y, Tail(s)) /\ y # Head(s)
<1>1. /\ s \in Seq(Nat) /\ Len(s) \in Nat /\ Len(s) # 0 /\ Tail(s) \in Seq(Nat)
      /\ Len(Tail(s)) = Len(s) - 1 /\ Head(s) = s[1]
      /\ \A i \in 1..(Len(s) - 1) : Tail(s)[i] = s[i + 1]
  BY HeadTailProperties, EmptySeq DEF Distinct
<1>2. 1 \in 1..Len(s) /\ \A i \in 1..(Len(s) - 1) : i + 1 \in 1..Len(s) /\ i + 1 # 1
  BY <1>1
<1>3. \A i, j \in 1..(Len(s) - 1) : i # j => i + 1 # j + 1
  BY <1>1
<1> DEFINE t == Tail(s)
           h == Head(s)
<1> HIDE DEF t, h
<1>4. /\ t \in Seq(Nat) /\ h = s[1] /\ Len(t) = Len(s) - 1
      /\ \A i \in 1..Len(t) : t[i] = s[i + 1] /\ i + 1 \in 1..Len(s) /\ i + 1 # 1
  BY <1>1, <1>2 DEF t, h
<1>5. Distinct(t, n)
  <2>1. \A i, j \in 1..Len(t) : i # j => i + 1 # j + 1
    BY <1>3, <1>4
  <2> QED BY <1>4, <2>1, Zenon DEF Distinct
<1>6. NotIn(h, t) /\ h \in Nat /\ h <= n
  BY <1>1, <1>2, <1>4 DEF Distinct, NotIn
<1>7. \A y : NotIn(y, s) => NotIn(y, t) /\ y # h
  BY <1>2, <1>4 DEF NotIn
<1> QED BY <1>5, <1>6, <1>7 DEF t, h

\* What arrives is new, and a byte goes from one place to the next.
LEMMA ReadNext ==
  ASSUME S!SerialAssumption, ReadInv, [S!Next]_S!vars
  PROVE  ReadInv'
<1> DEFINE g == got
           q == rx_queue
           b == rbr
           n == arrived
<1>1. InOnePlace(g, q, b, n) /\ None \notin Nat
  BY DEF ReadInv, S!SerialAssumption
<1>2. ASSUME UNCHANGED <<got, rx_queue, rbr, arrived>> PROVE ReadInv'
  BY <1>1, <1>2 DEF ReadInv
<1>3. CASE S!Arrive
  <2>1. UNCHANGED <<got, rx_queue>> /\ arrived' = n + 1 /\ rbr' = n + 1
    BY <1>3 DEF S!Arrive
  <2>2. ASSUME NEW s, Distinct(s, n), n \in Nat PROVE Distinct(s, n + 1) /\ NotIn(n + 1, s)
    <3>1. \A i \in 1..Len(s) : s[i] \in Nat
      BY <2>2 DEF Distinct
    <3>2. \A i \in 1..Len(s) : s[i] <= n + 1 /\ s[i] # n + 1
      BY <2>2, <3>1 DEF Distinct
    <3> QED BY <2>2, <3>2 DEF Distinct, NotIn
  <2>3. InOnePlace(g, q, n + 1, n + 1)
    BY <1>1, <2>2 DEF InOnePlace
  <2> QED BY <2>1, <2>3 DEF ReadInv
<1>4. CASE S!irq_handler_rx
  <2>1. /\ UNCHANGED <<got, arrived>> /\ rbr' = None /\ b # None
        /\ q' = Append(q, b) \/ q' = q
    BY <1>4 DEF S!irq_handler_rx
  <2>2. /\ Distinct(Append(q, b), n)
        /\ \A y : NotIn(y, Append(q, b)) <=> y # b /\ NotIn(y, q)
    BY <1>1, <2>1, AppendDistinct DEF InOnePlace
  <2>3. Apart2(g, Append(q, b))
    BY <1>1, <2>1, <2>2 DEF Apart2, InOnePlace, NotIn
  <2>4. InOnePlace(g, Append(q, b), None, n) /\ InOnePlace(g, q, None, n)
    BY <1>1, <2>2, <2>3 DEF InOnePlace
  <2> QED BY <2>1, <2>4, Zenon DEF ReadInv
<1>5. CASE S!DequeueLoop
  <2>1. /\ UNCHANGED <<rbr, arrived>> /\ q # << >>
        /\ got' = Append(g, Head(q)) /\ rx_queue' = Tail(q)
    BY <1>5 DEF S!DequeueLoop, S!DequeueRest, S!rest
  <2>2. /\ Distinct(Tail(q), n) /\ NotIn(Head(q), Tail(q)) /\ Head(q) \in Nat /\ Head(q) <= n
        /\ \A y : NotIn(y, q) => NotIn(y, Tail(q)) /\ y # Head(q)
    BY <1>1, <2>1, TailDistinct, Zenon DEF InOnePlace
  <2>3. NotIn(Head(q), g)
    BY <1>1, <2>2 DEF InOnePlace, Apart2, NotIn
  <2>4. /\ Distinct(Append(g, Head(q)), n)
        /\ \A y : NotIn(y, Append(g, Head(q))) <=> y # Head(q) /\ NotIn(y, g)
    BY <1>1, <2>2, <2>3, AppendDistinct DEF InOnePlace
  <2>5. Apart2(Append(g, Head(q)), Tail(q))
    <3>1. \A y : ~NotIn(y, Append(g, Head(q))) => NotIn(y, Tail(q))
      BY <1>1, <2>2, <2>4 DEF InOnePlace, Apart2, NotIn
    <3> QED BY <3>1, Zenon DEF Apart2, NotIn
  <2>6. InOnePlace(Append(g, Head(q)), Tail(q), b, n)
    BY <1>1, <2>2, <2>4, <2>5 DEF InOnePlace
  <2> QED BY <2>1, <2>6 DEF ReadInv
<1>6. CASE S!PollRecv
  <2>1. UNCHANGED <<rx_queue, arrived>> /\ b # None /\ got' = Append(g, b) /\ rbr' = None
    BY <1>6 DEF S!PollRecv, S!rest
  <2>2. /\ Distinct(Append(g, b), n)
        /\ \A y : NotIn(y, Append(g, b)) <=> y # b /\ NotIn(y, g)
    BY <1>1, <2>1, AppendDistinct DEF InOnePlace
  <2>3. Apart2(Append(g, b), q)
    <3>1. \A y : ~NotIn(y, Append(g, b)) => NotIn(y, q)
      BY <1>1, <2>1, <2>2 DEF InOnePlace, Apart2, NotIn
    <3> QED BY <3>1 DEF Apart2, NotIn
  <2>4. InOnePlace(Append(g, b), q, None, n)
    BY <1>1, <2>2, <2>3 DEF InOnePlace
  <2> QED BY <2>1, <2>4 DEF ReadInv
<1>7. CASE S!Transmit \/ S!Tick \/ S!irq_handler_tx \/ S!irq_handler_send
  BY <1>2, <1>7 DEF S!Transmit, S!Tick, S!irq_handler_tx, S!irq_handler_send, S!rest
<1>8. CASE S!stream_op_write \/ S!wait_and_send \/ S!EnqueueLoop \/ S!PollLoop
  BY <1>2, <1>8 DEF S!stream_op_write, S!wait_and_send, S!EnqueueLoop, S!PollLoop, S!other
<1>9. CASE S!WaitLoop \/ S!stream_wait_char
  BY <1>2, <1>9 DEF S!WaitLoop, S!stream_wait_char, S!rest
<1>10. CASE UNCHANGED S!vars
  BY <1>2, <1>10 DEF S!vars, S!uart
<1> QED BY <1>3, <1>4, <1>5, <1>6, <1>7, <1>8, <1>9, <1>10 DEF S!Next, S!Thread, S!Irq

(***************************************************************************)
(* A writer with interrupts disabled.                                      *)
(***************************************************************************)
Byte == Nat \X S!Chars

\* Character i of text t is a newline that needs a carriage return.
Two(t, i) == t[i] = "nl" /\ CrToCrlf /\ (i = 1 \/ t[i - 1] # "cr")
BytesOf(t, i) == IF Two(t, i) THEN {<<i, "cr">>, <<i, "nl">>} ELSE {<<i, t[i]>>}
BytesTo(t, k) == UNION {BytesOf(t, i) : i \in 1..k}

\* The carriage return has gone out and o is the newline of character k + 1.
Half(t, k, o) == k < Len(t) /\ Two(t, k + 1) /\ o = <<k + 1, "nl">>
HalfBytes(t, k, o) == IF Half(t, k, o) THEN {<<k + 1, "cr">>} ELSE {}

InOrder(w) == \A i, j \in 1..Len(w) : i < j => S!Before(w[i], w[j])
Elems(w) == {w[i] : i \in 1..Len(w)}

\* The byte to be sent is the next one.
NextByte(t, k, o) ==
  k < Len(t) /\ (o = <<k + 1, t[k + 1]>> \/ (Two(t, k + 1) /\ o = <<k + 1, "cr">>))

\* After k characters of t, and half of the next one if o says so, the bytes w.
WrittenSoFar(t, k, o, w) ==
  /\ w \in Seq(Byte) /\ InOrder(w) /\ Elems(w) = BytesTo(t, k) \cup HalfBytes(t, k, o)
  /\ Len(w) <= IF Half(t, k, o) THEN 2 * k + 1 ELSE 2 * k

\* cr: a carriage return is among the first n characters.
CrSeen(t, n) == CrToCrlf /\ \E j \in 1..n : t[j] = "cr"

Sending == spc \in {"send", "poll"}

TextInv ==
  /\ text \in Texts /\ sent \in 0..Len(text) /\ tx_queue = << >> /\ spc # "enqueue"
  /\ line \in Seq(Byte) /\ thr \in Byte \cup {None}
  /\ IF Sending THEN NextByte(text, sent, out) ELSE out = None
  /\ cr = CrSeen(text, IF Sending THEN sent + 1 ELSE sent)
  /\ WrittenSoFar(text, sent, out, S!Output)

\* The next byte belongs to the next character.
LEMMA NextIsByte ==
  ASSUME NEW t, NEW k \in Nat, NEW o, t \in Seq(S!Chars), NextByte(t, k, o)
  PROVE  /\ Len(t) \in Nat /\ k < Len(t) /\ k + 1 \in 1..Len(t) /\ t[k + 1] \in S!Chars
         /\ o \in Byte /\ o[1] = k + 1
<1>1. Len(t) \in Nat /\ k < Len(t) /\ k + 1 \in 1..Len(t) /\ t[k + 1] \in S!Chars
  BY DEF NextByte
<1>2. "cr" \in S!Chars
  BY DEF S!Chars
<1>3. o \in Byte /\ o[1] = k + 1
  BY <1>1, <1>2 DEF NextByte, Byte
<1> QED BY <1>1, <1>3, Zenon

\* What the port has written after the byte o.
LEMMA OneByte ==
  ASSUME NEW t, NEW k \in Nat, NEW o, NEW w, NEW v,
         t \in Seq(S!Chars), NextByte(t, k, o), WrittenSoFar(t, k, o, w), None \notin Byte,
         v = Append(w, o)
  PROVE  /\ o = <<k + 1, t[k + 1]>> => WrittenSoFar(t, k + 1, None, v)
         /\ o # <<k + 1, t[k + 1]>> => WrittenSoFar(t, k, <<k + 1, t[k + 1]>>, v)
<1>1. /\ Len(t) \in Nat /\ k < Len(t) /\ k + 1 \in 1..Len(t) /\ t[k + 1] \in S!Chars
      /\ "cr" \in S!Chars /\ "nl" \in S!Chars
  <2>1. "cr" \in S!Chars /\ "nl" \in S!Chars
    BY DEF S!Chars
  <2> QED BY <2>1, NextIsByte, Zenon
<1>2. o \in Byte /\ o[1] = k + 1
  BY NextIsByte, Zenon
<1>3. /\ v \in Seq(Byte) /\ Len(w) \in Nat /\ Len(v) = Len(w) + 1 /\ v[Len(w) + 1] = o
      /\ \A i \in 1..Len(w) : v[i] = w[i]
  <2>1. w \in Seq(Byte)
    BY Zenon DEF WrittenSoFar
  <2>2. Len(w) \in Nat
    BY <2>1, LenProperties, Zenon
  <2>3. /\ Append(w, o) \in Seq(Byte) /\ Len(Append(w, o)) = Len(w) + 1 /\ Append(w, o)[Len(w) + 1] = o
        /\ \A i \in 1..Len(w) : Append(w, o)[i] = w[i]
    BY <1>2, <2>1, AppendProperties
  <2> QED BY <2>2, <2>3, Zenon
<1>11. PICK l \in Nat : l = Len(w) /\ Len(v) = l + 1
  BY <1>3, Zenon
<1>4. /\ \A i \in 1..(Len(w) + 1) : i \in 1..Len(w) \/ i = Len(w) + 1
      /\ \A i \in 1..Len(w) : i \in 1..(Len(w) + 1)
      /\ Len(w) + 1 \in 1..(Len(w) + 1)
  <2>1. /\ \A i \in 1..(l + 1) : i \in 1..l \/ i = l + 1
        /\ \A i \in 1..l : i \in 1..(l + 1)
        /\ l + 1 \in 1..(l + 1)
    OBVIOUS
  <2> QED BY <1>11, <2>1, Zenon
<1>5. Elems(v) = Elems(w) \cup {o}
  BY <1>3, <1>4 DEF Elems
<1>6. ASSUME NEW b \in BytesTo(t, k) PROVE b[1] < k + 1
  <2>1. PICK i \in 1..k : b \in BytesOf(t, i)
    BY DEF BytesTo
  <2>2. b[1] = i
    BY <2>1 DEF BytesOf
  <2> QED BY <2>2
<1>7. ASSUME NEW b \in Elems(w) PROVE S!Before(b, o)
  <2>1. CASE b \in BytesTo(t, k)
    BY <1>2, <1>6, <2>1 DEF S!Before
  <2>2. CASE b \in HalfBytes(t, k, o)
    <3>1. o = <<k + 1, "nl">> /\ b = <<k + 1, "cr">>
      BY <2>2, Zenon DEF HalfBytes, Half
    <3> QED BY <3>1 DEF S!Before
  <2> QED BY <2>1, <2>2 DEF WrittenSoFar
<1>8. InOrder(v)
  <2>1. ASSUME NEW i \in 1..Len(v), NEW j \in 1..Len(v), i < j PROVE S!Before(v[i], v[j])
    <3>1. i \in 1..Len(w)
      BY <1>3, <2>1
    <3>2. CASE j \in 1..Len(w)
      BY <1>3, <2>1, <3>1, <3>2 DEF WrittenSoFar, InOrder
    <3>3. CASE j = Len(w) + 1
      BY <1>3, <1>7, <3>1, <3>3 DEF Elems
    <3> QED BY <1>3, <1>4, <3>2, <3>3
  <2> QED BY <2>1 DEF InOrder
<1>9. CASE o = <<k + 1, t[k + 1]>>
  <2>1. ~Half(t, k + 1, None)
    <3>1. Half(t, k + 1, None) => None \in Byte
      BY <1>1 DEF Half, Byte
    <3> QED BY <3>1
  <2>2. BytesTo(t, k + 1) = BytesTo(t, k) \cup BytesOf(t, k + 1)
    <3>1. 1..(k + 1) = (1..k) \cup {k + 1}
      OBVIOUS
    <3> QED BY <3>1 DEF BytesTo
  <2>3. BytesOf(t, k + 1) = HalfBytes(t, k, o) \cup {o}
    BY <1>1, <1>9 DEF BytesOf, HalfBytes, Half, Two
  <2>4. Elems(v) = BytesTo(t, k + 1) \cup HalfBytes(t, k + 1, None)
    BY <1>5, <2>1, <2>2, <2>3 DEF WrittenSoFar, HalfBytes
  <2>5. Len(v) <= 2 * (k + 1)
    <3>1. Len(w) <= 2 * k + 1
      <4>1. Len(w) <= IF Half(t, k, o) THEN 2 * k + 1 ELSE 2 * k
        BY Zenon DEF WrittenSoFar
      <4> QED BY <1>11, <4>1
    <3> QED BY <1>11, <3>1
  <2> QED BY <1>3, <1>8, <1>9, <2>1, <2>4, <2>5, Zenon DEF WrittenSoFar
<1>10. CASE o # <<k + 1, t[k + 1]>>
  <2> DEFINE nl == <<k + 1, t[k + 1]>>
  <2>1. Two(t, k + 1) /\ o = <<k + 1, "cr">> /\ t[k + 1] = "nl"
    BY <1>10 DEF NextByte, Two
  <2>2. ~Half(t, k, o) /\ Half(t, k, nl)
    BY <1>1, <2>1 DEF Half
  <2>3. Elems(v) = BytesTo(t, k) \cup HalfBytes(t, k, nl)
    BY <1>5, <2>1, <2>2 DEF WrittenSoFar, HalfBytes
  <2>4. Len(v) <= 2 * k + 1
    <3>1. Len(w) <= 2 * k
      <4>1. Len(w) <= IF Half(t, k, o) THEN 2 * k + 1 ELSE 2 * k
        BY Zenon DEF WrittenSoFar
      <4> QED BY <2>2, <4>1
    <3> QED BY <1>11, <3>1
  <2> QED BY <1>3, <1>8, <1>10, <2>2, <2>3, <2>4, Zenon DEF WrittenSoFar
<1> QED BY <1>9, <1>10

\* The first byte of the next character is a carriage return where one is needed:
\* a text with carriage returns of its own has one there itself.
LEMMA FirstByteRight ==
  ASSUME NEW t, t \in Seq(S!Chars), S!OwnCrs(t), NEW k \in Nat, k < Len(t), cr = CrSeen(t, k)
  PROVE  /\ NextByte(t, k, <<k + 1, S!FirstByte(t[k + 1])>>)
         /\ ~Half(t, k, <<k + 1, S!FirstByte(t[k + 1])>>)
<1>1. k + 1 \in DOMAIN t /\ \A j \in 1..k : j \in DOMAIN t /\ j < k + 1
  <2>1. DOMAIN t = 1..Len(t) /\ Len(t) \in Nat
    OBVIOUS
  <2> QED BY <2>1
<1>2. CASE t[k + 1] = "nl" /\ CrToCrlf
  <2>1. cr => t[k] = "cr" /\ k # 0
    <3>1. ASSUME cr PROVE t[k] = "cr" /\ k # 0
      <4>1. PICK j \in 1..k : t[j] = "cr"
        BY <3>1, Zenon DEF CrSeen
      <4>2. t[(k + 1) - 1] = "cr"
        BY <1>1, <1>2, <4>1, Zenon DEF S!OwnCrs
      <4> QED BY <4>1, <4>2
    <3> QED BY <3>1
  <2>2. ~cr => k = 0 \/ t[k] # "cr"
    <3>1. k # 0 => k \in 1..k
      OBVIOUS
    <3> QED BY <1>2, <3>1, Zenon DEF CrSeen
  <2>3. Two(t, k + 1) <=> ~cr
    BY <1>2, <2>1, <2>2 DEF Two
  <2> QED BY <1>2, <2>3 DEF S!FirstByte, NextByte, Half
<1>3. CASE ~(t[k + 1] = "nl" /\ CrToCrlf)
  BY <1>3 DEF S!FirstByte, NextByte, Half, Two
<1> QED BY <1>2, <1>3

\* One more character is looked at.
LEMMA CrSeenNext ==
  ASSUME NEW t, NEW k \in Nat
  PROVE  CrSeen(t, k + 1) = (CrSeen(t, k) \/ (CrToCrlf /\ t[k + 1] = "cr"))
<1>1. \A j : j \in 1..(k + 1) <=> j \in 1..k \/ j = k + 1
  OBVIOUS
<1> QED BY <1>1 DEF CrSeen

\* Between the characters only half ones matter, and there are none.
LEMMA NoHalf ==
  ASSUME NEW t, NEW k, NEW o, NEW p, NEW w, ~Half(t, k, o), ~Half(t, k, p), WrittenSoFar(t, k, o, w)
  PROVE  WrittenSoFar(t, k, p, w)
BY DEF WrittenSoFar, HalfBytes

\* No step of a thread, the handler or the UART changes what was written but a
\* byte that goes to the empty register.
LEMMA TextNext ==
  ASSUME S!SerialAssumption, ~IrqsOn, TextInv, [S!Next]_S!vars
  PROVE  TextInv'
<1>1. /\ text \in Seq(S!Chars) /\ S!OwnCrs(text) /\ None \notin Byte /\ sent \in Nat /\ Len(text) \in Nat
      /\ sent <= Len(text) /\ 2 * Len(text) <= MaxOut /\ MaxOut \in Nat
  <2>1. text \in Texts /\ sent \in 0..Len(text)
    BY Zenon DEF TextInv
  <2>2. Texts \subseteq Seq(S!Chars) /\ \A t \in Texts : S!OwnCrs(t) /\ 2 * Len(t) <= MaxOut
    BY Zenon DEF S!SerialAssumption
  <2>3. MaxOut \in Nat /\ None \notin Byte
    BY Zenon DEF S!SerialAssumption, Byte
  <2>4. text \in Seq(S!Chars) /\ S!OwnCrs(text) /\ 2 * Len(text) <= MaxOut
    BY <2>1, <2>2, Zenon
  <2>5. Len(text) \in Nat
    BY <2>4, LenProperties, Zenon
  <2>6. sent \in Nat /\ sent <= Len(text)
    BY <2>1, <2>5
  <2> QED BY <2>3, <2>4, <2>5, <2>6, Zenon
<1>2. ASSUME UNCHANGED <<text, sent, out, cr, tx_queue, thr, line>>, spc' # "enqueue", Sending' <=> Sending
      PROVE  TextInv'
  <2>1. S!Output' = S!Output
    BY <1>2 DEF S!Output
  <2> QED BY <1>2, <2>1 DEF TextInv
<1>3. CASE S!Transmit
  <2>1. /\ thr # None /\ thr' = None /\ UNCHANGED <<text, sent, spc, out, cr, tx_queue>>
        /\ line' = IF Len(line) < MaxOut THEN Append(line, thr) ELSE line
    BY <1>3 DEF S!Transmit, S!thread
  <2>2. thr \in Byte /\ line \in Seq(Byte) /\ Len(line) \in Nat
    BY <2>1 DEF TextInv
  <2>3. S!Output = line \o <<thr>>
    BY <2>1 DEF S!Output
  <2>4. line \o <<thr>> = Append(line, thr)
    BY <2>2
  <2>5. Append(line, thr) \in Seq(Byte) /\ Len(Append(line, thr)) = Len(line) + 1
    BY <2>2, AppendProperties
  <2>6. Len(line) < MaxOut
    <3>1. Len(line) + 1 <= IF Half(text, sent, out) THEN 2 * sent + 1 ELSE 2 * sent
      BY <2>3, <2>4, <2>5 DEF TextInv, WrittenSoFar
    <3>2. Half(text, sent, out) => sent < Len(text)
      BY DEF Half
    <3> QED BY <1>1, <2>2, <3>1, <3>2
  <2>7. S!Output' = Append(line, thr)
    <3>1. Append(line, thr) \o << >> = Append(line, thr)
      BY <2>5
    <3> QED BY <2>1, <2>6, <3>1 DEF S!Output
  <2>8. S!Output' = S!Output
    BY <2>3, <2>4, <2>7
  <2>9. Sending' <=> Sending
    BY <2>1 DEF Sending
  <2> QED BY <2>1, <2>5, <2>6, <2>8, <2>9 DEF TextInv
<1>4. CASE S!stream_op_write
  <2> DEFINE o == <<sent + 1, S!FirstByte(text[sent + 1])>>
  <2>1. /\ spc = "idle" /\ spc' = "send" /\ sent < Len(text)
        /\ UNCHANGED <<text, sent, tx_queue, thr, line>>
        /\ out' = o /\ cr' = (cr \/ (CrToCrlf /\ text[sent + 1] = "cr"))
    BY <1>4 DEF S!stream_op_write, S!other
  <2>2. ~Sending /\ Sending' /\ cr = CrSeen(text, sent) /\ out = None
    BY <2>1 DEF Sending, TextInv
  <2>3. NextByte(text, sent, o) /\ ~Half(text, sent, o)
    BY <1>1, <2>1, <2>2, FirstByteRight
  <2>4. ~Half(text, sent, None)
    <3>1. Half(text, sent, None) => None \in Byte
      BY <1>1 DEF Half, Byte, S!Chars
    <3> QED BY <1>1, <3>1
  <2>5. S!Output' = S!Output
    BY <2>1 DEF S!Output
  <2> HIDE DEF o
  <2>6. WrittenSoFar(text, sent, o, S!Output)
    <3>1. WrittenSoFar(text, sent, None, S!Output)
      BY <2>2 DEF TextInv
    <3> QED BY ONLY <2>3, <2>4, <3>1, NoHalf
  <2>7. cr' = CrSeen(text, sent + 1)
    BY <1>1, <2>1, <2>2, CrSeenNext
  <2> QED BY <2>1, <2>2, <2>3, <2>5, <2>6, <2>7 DEF TextInv
<1>5. CASE S!wait_and_send
  <2>1. spc = "send" /\ spc' = "poll" /\ UNCHANGED <<text, sent, out, cr, tx_queue, thr, line>>
    BY <1>5 DEF S!wait_and_send, S!other
  <2>2. spc' # "enqueue" /\ Sending /\ Sending'
    BY <2>1 DEF Sending
  <2> QED BY <1>2, <2>1, <2>2
<1>6. CASE S!PollLoop
  <2>1. /\ spc = "poll" /\ thr = None /\ thr' = out /\ UNCHANGED <<text, cr, tx_queue, line>> /\ S!Sent
    BY <1>6 DEF S!PollLoop, S!CanWrite, S!other
  <2>2. Sending /\ NextByte(text, sent, out) /\ cr = CrSeen(text, sent + 1)
    BY <2>1 DEF Sending, TextInv
  <2>3. out \in Byte /\ out[1] = sent + 1 /\ sent + 1 \in 1..Len(text) /\ text[sent + 1] \in S!Chars
    BY <1>1, <2>2, NextIsByte, Zenon
  <2>4. line \in Seq(Byte) /\ S!Output = line
    <3>1. line \in Seq(Byte)
      BY DEF TextInv
    <3>2. line \o << >> = line
      BY <3>1
    <3> QED BY <2>1, <3>1, <3>2 DEF S!Output
  <2>5. S!Output' = Append(line, out)
    <3>1. out # None
      BY <1>1, <2>3
    <3>2. line \o <<out>> = Append(line, out)
      BY <2>3, <2>4
    <3> QED BY <2>1, <3>1, <3>2 DEF S!Output
  <2>6. WrittenSoFar(text, sent, out, line)
    BY <2>4 DEF TextInv
  <2>7. /\ out = <<sent + 1, text[sent + 1]>> => WrittenSoFar(text, sent + 1, None, Append(line, out))
        /\ out # <<sent + 1, text[sent + 1]>> =>
             WrittenSoFar(text, sent, <<sent + 1, text[sent + 1]>>, Append(line, out))
    BY <1>1, <2>2, <2>6, OneByte, Zenon
  <2>8. text[out[1]] = out[2] <=> out = <<sent + 1, text[sent + 1]>>
    BY <2>3 DEF Byte
  <2>9. CASE out = <<sent + 1, text[sent + 1]>>
    <3>1. sent' = sent + 1 /\ spc' = "idle" /\ out' = None
      BY <2>1, <2>8, <2>9 DEF S!Sent
    <3>2. ~Sending' /\ sent' \in 0..Len(text)
      BY <1>1, <2>3, <3>1 DEF Sending
    <3> QED BY <2>1, <2>2, <2>3, <2>4, <2>5, <2>7, <2>9, <3>1, <3>2 DEF TextInv
  <2>10. CASE out # <<sent + 1, text[sent + 1]>>
    <3>1. sent' = sent /\ spc' = "send" /\ out' = <<sent + 1, text[sent + 1]>>
      BY <2>1, <2>3, <2>8, <2>10 DEF S!Sent
    <3>2. Sending' /\ NextByte(text, sent, <<sent + 1, text[sent + 1]>>)
      BY <2>2, <3>1 DEF Sending, NextByte
    <3>3. sent \in 0..Len(text) /\ text \in Texts /\ tx_queue = << >>
      BY DEF TextInv
    <3> QED BY <2>1, <2>2, <2>3, <2>4, <2>5, <2>7, <2>10, <3>1, <3>2, <3>3 DEF TextInv
  <2> QED BY <2>9, <2>10
<1>7. CASE S!irq_handler_send
  BY <1>2, <1>7 DEF S!irq_handler_send, S!thread, TextInv, Sending
<1>8. CASE S!Arrive \/ S!irq_handler_rx \/ S!irq_handler_tx
  BY <1>2, <1>8, Zenon DEF S!Arrive, S!irq_handler_rx, S!irq_handler_tx, S!thread, TextInv, Sending
<1>9. CASE S!EnqueueLoop
  BY <1>9 DEF S!EnqueueLoop, TextInv
<1>10. CASE S!WaitLoop \/ S!stream_wait_char \/ S!Tick \/ S!DequeueLoop \/ S!PollRecv
  BY <1>2, <1>10 DEF S!WaitLoop, S!stream_wait_char, S!Tick, S!DequeueLoop, S!PollRecv, S!rest, Sending
<1>11. CASE UNCHANGED S!vars
  BY <1>2, <1>11 DEF S!vars, S!thread, S!uart, TextInv, Sending
<1> QED BY <1>3, <1>4, <1>5, <1>6, <1>7, <1>8, <1>9, <1>10, <1>11 DEF S!Next, S!Thread, S!Irq

\* Nothing has arrived and nothing was written at the start.
LEMMA SerialStart ==
  ASSUME S!SerialAssumption, S!Init
  PROVE  ReadInv /\ TextInv
<1>1. ReadInv
  BY DEF S!Init, ReadInv, InOnePlace, Distinct, Apart2, NotIn
<1>2. /\ text \in Texts /\ text \in Seq(S!Chars) /\ Len(text) \in Nat
      /\ sent = 0 /\ spc = "idle" /\ out = None /\ cr = FALSE
      /\ tx_queue = << >> /\ thr = None /\ line = << >>
  BY DEF S!Init, S!SerialAssumption
<1>3. line \in Seq(Byte) /\ S!Output = << >>
  BY <1>2 DEF S!Output
<1>4. ~Sending /\ cr = CrSeen(text, 0) /\ sent \in 0..Len(text)
  <2>1. ~\E j \in 1..0 : text[j] = "cr"
    OBVIOUS
  <2>2. CrSeen(text, 0) = FALSE
    BY <2>1 DEF CrSeen
  <2>3. 0 \in 0..Len(text)
    BY <1>2
  <2> QED BY <1>2, <2>2, <2>3, Zenon DEF Sending
<1>5. ~Half(text, 0, None)
  <2>1. Half(text, 0, None) => None \in Byte
    BY DEF Half, Byte, S!Chars
  <2> QED BY <2>1 DEF S!SerialAssumption, Byte
<1>6. BytesTo(text, 0) = {} /\ Elems(<< >>) = {} /\ InOrder(<< >>)
  <2>1. 1..0 = {}
    OBVIOUS
  <2> QED BY <2>1 DEF BytesTo, Elems, InOrder
<1>7. WrittenSoFar(text, 0, None, << >>)
  BY <1>5, <1>6 DEF WrittenSoFar, HalfBytes
<1> QED BY <1>1, <1>2, <1>3, <1>4, <1>7 DEF TextInv

\* The three places together repeat nothing.
LEMMA ReadSound ==
  ASSUME S!SerialAssumption, ReadInv
  PROVE  S!ReadOnce
<1> DEFINE reg == IF rbr = None THEN << >> ELSE <<rbr>>
           s == got \o rx_queue
           all == s \o reg
<1>1. /\ Distinct(got, arrived) /\ Distinct(rx_queue, arrived) /\ Apart2(got, rx_queue)
      /\ rbr = None \/ (rbr \in Nat /\ NotIn(rbr, got) /\ NotIn(rbr, rx_queue))
  BY DEF ReadInv, InOnePlace
<1>2. got \in Seq(Nat) /\ rx_queue \in Seq(Nat) /\ Len(got) \in Nat /\ Len(rx_queue) \in Nat
  BY <1>1 DEF Distinct
<1>3. reg \in Seq(Nat) /\ Len(reg) \in {0, 1} /\ (\A i \in 1..Len(reg) : reg[i] = rbr /\ rbr # None /\ i = 1)
  <2>1. CASE rbr = None
    <3>1. reg = << >>
      BY <2>1
    <3> QED BY <3>1
  <2>2. CASE rbr # None
    <3>1. reg = <<rbr>> /\ rbr \in Nat
      BY <1>1, <2>2
    <3> HIDE DEF reg
    <3> QED BY <2>2, <3>1
  <2> QED BY <2>1, <2>2
<1> HIDE DEF reg
<1>4. /\ s \in Seq(Nat) /\ Len(s) = Len(got) + Len(rx_queue)
      /\ \A i \in 1..Len(s) : s[i] = IF i <= Len(got) THEN got[i] ELSE rx_queue[i - Len(got)]
  BY <1>2, ConcatProperties
<1> HIDE DEF s
<1>5. /\ all \in Seq(Nat) /\ Len(all) = Len(s) + Len(reg)
      /\ \A i \in 1..Len(all) : all[i] = IF i <= Len(s) THEN s[i] ELSE reg[i - Len(s)]
  BY <1>3, <1>4, ConcatProperties
<1> HIDE DEF all
<1>6. ASSUME NEW i \in 1..Len(s), NEW j \in 1..Len(s), i < j PROVE s[i] # s[j]
  <2>1. CASE j <= Len(got)
    <3>1. i \in 1..Len(got) /\ j \in 1..Len(got) /\ i # j
      BY <1>2, <1>4, <1>6, <2>1
    <3>2. s[i] = got[i] /\ s[j] = got[j]
      <4>1. i <= Len(got)
        BY <3>1
      <4> QED BY <1>4, <2>1, <4>1
    <3> QED BY <1>1, <3>1, <3>2 DEF Distinct
  <2>2. CASE i <= Len(got) /\ ~(j <= Len(got))
    <3>1. i \in 1..Len(got) /\ j - Len(got) \in 1..Len(rx_queue)
      BY <1>2, <1>4, <2>2
    <3> QED BY <1>1, <1>4, <2>2, <3>1, Zenon DEF Apart2, NotIn
  <2>3. CASE ~(i <= Len(got))
    <3>1. /\ i - Len(got) \in 1..Len(rx_queue) /\ j - Len(got) \in 1..Len(rx_queue)
          /\ i - Len(got) # j - Len(got) /\ ~(j <= Len(got))
      BY <1>2, <1>4, <1>6, <2>3
    <3> QED BY <1>1, <1>4, <2>3, <3>1, Zenon DEF Distinct
  <2> QED BY <1>2, <1>4, <1>6, <2>1, <2>2, <2>3
<1>7. ASSUME NEW i \in 1..Len(s), rbr # None PROVE s[i] # rbr
  <2>1. CASE i <= Len(got)
    <3>1. i \in 1..Len(got)
      BY <1>2, <1>4, <2>1
    <3> QED BY <1>1, <1>4, <1>7, <2>1, <3>1 DEF NotIn
  <2>2. CASE ~(i <= Len(got))
    <3>1. i - Len(got) \in 1..Len(rx_queue)
      BY <1>2, <1>4, <2>2
    <3> QED BY <1>1, <1>4, <1>7, <2>2, <3>1, Zenon DEF NotIn
  <2> QED BY <2>1, <2>2
<1>8. ASSUME NEW i \in 1..Len(all), NEW j \in 1..Len(all), i < j PROVE all[i] # all[j]
  <2>1. i \in 1..Len(s) /\ all[i] = s[i]
    <3>1. Len(s) \in Nat
      BY <1>4
    <3>2. i \in 1..Len(s)
      BY <1>3, <1>5, <1>8, <3>1
    <3>3. i <= Len(s)
      BY <3>2
    <3> QED BY <1>5, <3>2, <3>3
  <2>2. CASE j \in 1..Len(s)
    <3>1. all[j] = s[j]
      BY <1>5, <1>8, <2>2
    <3> QED BY <1>6, <1>8, <2>1, <2>2, <3>1, Zenon
  <2>3. CASE j \notin 1..Len(s)
    <3>1. j - Len(s) \in 1..Len(reg) /\ ~(j <= Len(s))
      BY <1>3, <1>4, <1>5, <2>3
    <3>2. all[j] = rbr /\ rbr # None
      BY <1>3, <1>5, <3>1, Zenon
    <3> QED BY <1>7, <2>1, <3>2
  <2> QED BY <2>2, <2>3
<1>9. S!IsInjective(all)
  <2>1. DOMAIN all = 1..Len(all) /\ Len(all) \in Nat
    BY <1>5
  <2>2. \A i, j \in 1..Len(all) : i = j \/ i < j \/ j < i
    BY <2>1
  <2> QED BY <1>8, <2>1, <2>2 DEF S!IsInjective
<1> QED BY <1>9 DEF S!ReadOnce, all, s, reg

\* Between two characters the bytes are those of the characters written.
LEMMA TextSound ==
  ASSUME S!SerialAssumption, TextInv
  PROVE  S!OutputExact
<1> SUFFICES ASSUME spc = "idle"
             PROVE  /\ S!Range(S!Output) = UNION {S!Bytes(i) : i \in 1..sent}
                    /\ \A i, j \in DOMAIN S!Output : i < j => S!Before(S!Output[i], S!Output[j])
  BY DEF S!OutputExact
<1> DEFINE w == S!Output
<1>1. out = None /\ WrittenSoFar(text, sent, None, w)
  BY DEF TextInv, Sending
<1>2. ~Half(text, sent, None)
  <2>1. Half(text, sent, None) => None \in Byte
    BY DEF Half, Byte, S!Chars, TextInv
  <2> QED BY <2>1 DEF S!SerialAssumption, Byte
<1>3. w \in Seq(Byte) /\ Elems(w) = BytesTo(text, sent) /\ InOrder(w)
  BY <1>1, <1>2 DEF WrittenSoFar, HalfBytes
<1>4. \A i : BytesOf(text, i) = S!Bytes(i)
  BY DEF BytesOf, Two, S!Bytes
<1> HIDE DEF w
<1>5. DOMAIN w = 1..Len(w)
  BY <1>3
<1>6. S!Range(w) = Elems(w)
  BY <1>5, Zenon DEF S!Range, Elems
<1>7. BytesTo(text, sent) = UNION {S!Bytes(i) : i \in 1..sent}
  BY <1>4 DEF BytesTo
<1> QED BY <1>3, <1>5, <1>6, <1>7 DEF InOrder, w

\* Exactly the text goes out when interrupts are disabled, and what arrives is read
\* at most once (stream_op_write, wait_and_send, wait_and_recv, irq_handler), for
\* all texts, capacities of the queues and orders of arrivals and interrupts.
THEOREM SerialSafety == S!SerialAssumption => (S!Spec => []S!SerialExact)
<1>1. SUFFICES ASSUME S!SerialAssumption PROVE S!Spec => []S!SerialExact
  OBVIOUS
<1> DEFINE Inv == ReadInv /\ (~IrqsOn => TextInv)
<1>2. S!Init => Inv
  BY <1>1, SerialStart
<1>3. Inv /\ [S!Next]_S!vars => Inv'
  <2>1. (~IrqsOn)' <=> ~IrqsOn
    OBVIOUS
  <2> QED BY <1>1, <2>1, ReadNext, TextNext
<1>4. Inv => S!SerialExact
  BY <1>1, ReadSound, TextSound DEF S!SerialExact
<1> HIDE DEF Inv
<1> QED BY <1>2, <1>3, <1>4, PTL DEF S!Spec
=============================================================================
