-------------------------------- MODULE Ide --------------------------------
(***************************************************************************)
(* Disk transfers: kernel/dev/atadisk.c (locking, retries, PIO and DMA     *)
(* transfers, the waits) on kernel/arch/i586/dev/idebus.c (bus lock, DMA   *)
(* lock, bus master, interrupt flag).  A caller is a thread inside         *)
(* read_sectors or write_sectors of a disk on one of the controller's two  *)
(* buses.  The drive and the bus master chip are external: a drive answers *)
(* at any time or never, reports errors, and abandons its command when it  *)
(* is reset or given another one.                                          *)
(*                                                                         *)
(* The steps between two points where the state shared with the interrupt  *)
(* handler, the drive or another bus is looked at are one action: only the *)
(* holder of a bus touches its registers.                                  *)
(***************************************************************************)
EXTENDS Naturals, Sequences, FiniteSets

CONSTANTS
    Callers,             \* threads that use the disks
    Buses,               \* the channels of one controller
    BusOf,               \* bus of the disk each caller uses
    HasBusmaster,        \* the buses whose bus master was initialised
    DmaLockNeeded,       \* the controller is "simplex only"
    Requests,            \* requests a caller makes: [op, lba, n]
    MaxSectors,          \* ATA_MAX_SECTORS_PER_TRANSFER
    MaxRetries,          \* MAX_RETRIES
    MaxRequests          \* bound: requests per caller

IdeAssumption ==
    /\ BusOf \in [Callers -> Buses]
    /\ HasBusmaster \subseteq Buses
    /\ DmaLockNeeded \in BOOLEAN
    /\ Requests \subseteq [op: {"read", "write"}, lba: Nat, n: Nat \ {0}]
    /\ MaxSectors \in Nat \ {0} /\ MaxRetries \in Nat /\ MaxRequests \in Nat

VARIABLES
    bus_lock_flag, dma_lock_flag,    \* the two locks of struct bus / shared
    got_irq,                         \* interrupt flag of each bus
    pending,                         \* interrupt raised, handler not run yet
    xfer,                            \* dma_buffer, is_dma_read and PRDT of a bus
    bm,                              \* bus master state of a bus
    bounce,                          \* sectors in the bus's DMA memory
    dev,                             \* command in progress on a bus
    th,                              \* the callers' locals
    moved                            \* sector carried for each buffer position

vars == <<bus_lock_flag, dma_lock_flag, got_irq, pending, xfer, bm, bounce, dev, th, moved>>
busVars == <<bus_lock_flag, dma_lock_flag>>
dmaVars == <<xfer, bm, bounce>>

NoOne == "none"
Idle == [st |-> "idle", cmd |-> NoOne, lba |-> 0, left |-> 0]

Start(c) == th[c].lba + th[c].done                 \* current_lba
Chunk(c) == IF MaxSectors < th[c].n - th[c].done
            THEN MaxSectors ELSE th[c].n - th[c].done
Busy(b) == dev[b].st \in {"busy", "take"}

Init ==
    /\ bus_lock_flag = [b \in Buses |-> FALSE]
    /\ dma_lock_flag = FALSE
    /\ got_irq = [b \in Buses |-> FALSE]
    /\ pending = [b \in Buses |-> FALSE]
    /\ xfer = [b \in Buses |-> [who |-> NoOne, off |-> 0, len |-> 0, read |-> FALSE]]
    /\ bm = [b \in Buses |-> "stopped"]
    /\ bounce = [b \in Buses |-> <<>>]
    /\ dev = [b \in Buses |-> Idle]
    /\ th = [c \in Callers |-> [pc |-> "idle", op |-> "read", lba |-> 0, n |-> 1, done |-> 0,
                                expected |-> FALSE, can_dma |-> FALSE, try |-> 0, sector |-> 0,
                                crc |-> FALSE, failed |-> FALSE, calls |-> 0]]
    /\ moved = [c \in Callers |-> [i \in {} |-> 0]]
(* read_sectors / write_sectors are entered with a request. *)
Request(c) ==
    /\ th[c].pc = "idle" /\ th[c].calls < MaxRequests
    /\ \E r \in Requests :
         th' = [th EXCEPT ![c].pc = "lock", ![c].op = r.op, ![c].lba = r.lba, ![c].n = r.n,
                          ![c].done = 0, ![c].try = 0, ![c].expected = FALSE,
                          ![c].failed = FALSE, ![c].calls = @ + 1]
    /\ moved' = [moved EXCEPT ![c] = [i \in {} |-> 0]]
    /\ UNCHANGED <<busVars, got_irq, pending, dmaVars, dev>>

(* Fault: a DMA session that ignores the lock. *)
atadisk_op_dma_begin_session_unlocked(c) ==
    /\ th[c].pc = "session"
    /\ dma_lock_flag' = DmaLockNeeded
    /\ th' = [th EXCEPT ![c].pc = "try", ![c].can_dma = BusOf[c] \in HasBusmaster]
    /\ UNCHANGED <<bus_lock_flag, got_irq, pending, dmaVars, dev, moved>>

(* One round of the compare-and-exchange loop of the lock.  A failed       *)
(* exchange stores the flag's value into `expected'.                       *)
atadisk_op_lock(c) ==
    /\ th[c].pc = "lock"
    /\ IF bus_lock_flag[BusOf[c]] = th[c].expected
       THEN /\ bus_lock_flag' = [bus_lock_flag EXCEPT ![BusOf[c]] = TRUE]
            /\ th' = [th EXCEPT ![c].pc = "session"]
       ELSE /\ th' = [th EXCEPT ![c].expected = bus_lock_flag[BusOf[c]]]
            /\ UNCHANGED bus_lock_flag
    /\ UNCHANGED <<dma_lock_flag, got_irq, pending, dmaVars, dev, moved>>

atadisk_op_dma_begin_session(c) ==
    /\ th[c].pc = "session"
    /\ LET lockable == DmaLockNeeded /\ BusOf[c] \in HasBusmaster
           granted  == BusOf[c] \in HasBusmaster /\ (lockable => ~dma_lock_flag)
       IN  /\ dma_lock_flag' = (dma_lock_flag \/ (lockable /\ granted))
           /\ th' = [th EXCEPT ![c].pc = "try", ![c].can_dma = granted]
    /\ UNCHANGED <<bus_lock_flag, got_irq, pending, dmaVars, dev, moved>>

(* The bus's DMA set-up for the current chunk: buffer, direction, PRDs.    *)
atadisk_op_dma_init_transfer(c) ==
    [who |-> c, off |-> th[c].done, len |-> Chunk(c), read |-> th[c].op = "read"]

(* try_read / try_write up to the first wait: dma_init_transfer, the       *)
(* parameters, the command, and dma_begin_transfer.                        *)
StartTry(c) ==
    /\ th[c].pc = "try"
    /\ LET b == BusOf[c]
           pioWrite == th[c].op = "write" /\ ~th[c].can_dma
       IN  /\ dev' = [dev EXCEPT ![b] =
                  [st |-> IF pioWrite THEN "take" ELSE "busy",
                   cmd |-> IF th[c].can_dma THEN "dma" ELSE th[c].op,
                   lba |-> Start(c), left |-> Chunk(c)]]
           /\ th' = [th EXCEPT ![c].pc = IF pioWrite THEN "busy" ELSE "irq",
                               ![c].sector = 0, ![c].crc = FALSE]
           /\ IF th[c].can_dma
              THEN /\ xfer' = [xfer EXCEPT ![b] = atadisk_op_dma_init_transfer(c)]
                   /\ bm' = [bm EXCEPT ![b] = "active"]
              ELSE UNCHANGED <<xfer, bm>>
    /\ UNCHANGED <<busVars, got_irq, pending, bounce, moved>>

(* wait_irq: the flag is seen and cleared, an error shows up in the status *)
(* register, or the time runs out with no flag.                            *)
wait_irq(c) ==
    /\ th[c].pc = "irq"
    /\ \/ /\ got_irq[BusOf[c]]
          /\ got_irq' = [got_irq EXCEPT ![BusOf[c]] = FALSE]
          /\ th' = [th EXCEPT ![c].pc = "seen"]
       \/ /\ dev[BusOf[c]].st = "error" \/ ~got_irq[BusOf[c]]
          /\ th' = [th EXCEPT ![c].pc = "failed"]
          /\ UNCHANGED got_irq
    /\ UNCHANGED <<busVars, pending, dmaVars, dev, moved>>

(* What the bus master's status register says: an error, all done, or busy. *)
atadisk_op_dma_check_transfer(b) ==
    CASE bm[b] \in {"crc", "fault"} -> bm[b]
      [] bm[b] = "active" -> "busy"
      [] OTHER -> "success"

(* The bus master is stopped, and after a read the sectors in the DMA      *)
(* memory go to the buffer the bus was set up with.                        *)
atadisk_op_dma_end_transfer(b) ==
    LET x == xfer[b]
        range == x.off .. x.off + x.len - 1
    IN  /\ bm' = [bm EXCEPT ![b] = "stopped"]
        /\ moved' = IF ~x.read THEN moved
                    ELSE [moved EXCEPT ![x.who] =
                            [i \in DOMAIN @ \cup range |->
                               IF i \in range THEN bounce[b][i - x.off + 1] ELSE @[i]]]

(* A chunk is finished: on to the next one, or out of the loops. *)
ChunkDone(c, r) ==
    [r EXCEPT !.done = @ + Chunk(c), !.try = 0,
              !.pc = IF th[c].done + Chunk(c) = th[c].n THEN "end" ELSE "try"]

(* Fault: the interrupt alone ends the transfer. *)
try_read_dma_irq_only(c) ==
    /\ th[c].pc = "seen" /\ th[c].can_dma /\ th[c].op = "read"
    /\ bm' = [bm EXCEPT ![BusOf[c]] = "stopped"]
    /\ th' = [th EXCEPT ![c] = ChunkDone(c, @)]
    /\ UNCHANGED <<busVars, got_irq, pending, xfer, bounce, dev, moved>>

(* The rounds of the DMA transfers once the interrupt flag was seen: wait  *)
(* on while the bus master works, end the transfer or fail the try.        *)
try_read_dma(c) ==
    /\ th[c].pc = "seen" /\ th[c].can_dma /\ th[c].op = "read"
    /\ LET status == atadisk_op_dma_check_transfer(BusOf[c])
       IN  IF status = "success"
           THEN /\ atadisk_op_dma_end_transfer(BusOf[c])
                /\ th' = [th EXCEPT ![c] = ChunkDone(c, @)]
           ELSE /\ th' = [th EXCEPT ![c].pc = IF status = "busy" THEN "irq" ELSE "failed"]
                /\ UNCHANGED <<bm, moved>>
    /\ UNCHANGED <<busVars, got_irq, pending, xfer, bounce, dev>>

try_write_dma(c) ==
    /\ th[c].pc = "seen" /\ th[c].can_dma /\ th[c].op = "write"
    /\ LET status == atadisk_op_dma_check_transfer(BusOf[c])
       IN  IF status = "success"
           THEN /\ atadisk_op_dma_end_transfer(BusOf[c])
                /\ th' = [th EXCEPT ![c].pc = "settle"]
           ELSE /\ th' = [th EXCEPT ![c].pc = IF status = "busy" THEN "irq" ELSE "failed",
                                    ![c].crc = (status = "crc")]
                /\ UNCHANGED <<bm, moved>>
    /\ UNCHANGED <<busVars, got_irq, pending, xfer, bounce, dev>>

(* wait_busy_clear_irq after the flag of a PIO transfer: a drive that is   *)
(* still busy means another wait.                                          *)
wait_busy_clear_irq(c) ==
    /\ th[c].pc = "seen" /\ ~th[c].can_dma
    /\ th' = [th EXCEPT ![c].pc =
                IF Busy(BusOf[c]) THEN "irq"
                ELSE IF th[c].op = "read" THEN "drq"
                ELSE IF th[c].sector < Chunk(c) THEN "busy"
                ELSE "settle"]
    /\ UNCHANGED <<busVars, got_irq, pending, dmaVars, dev, moved>>

(* wait_busy_clear before a PIO sector is written: ready, or out of time.  *)
wait_busy_clear(c) ==
    /\ th[c].pc = "busy"
    /\ th' = [th EXCEPT ![c].pc = IF Busy(BusOf[c]) THEN "failed" ELSE "drq"]
    /\ UNCHANGED <<busVars, got_irq, pending, dmaVars, dev, moved>>

(* The sector the drive offers or takes is the one for position `sector'   *)
(* of the chunk.                                                           *)
Carry(c) ==
    LET at == th[c].done + th[c].sector
    IN  moved' = [moved EXCEPT ![c] = [i \in DOMAIN @ \cup {at} |->
                                         IF i = at THEN dev[BusOf[c]].lba ELSE @[i]]]

(* The end of wait_drq_set without DRQ: an error, or out of time. *)
wait_drq_set_failed(c) ==
    /\ dev[BusOf[c]].st # "drq"
    /\ th' = [th EXCEPT ![c].pc = "failed"]
    /\ UNCHANGED <<moved, dev>>

(* The drive once the sector's data went through the data port (external). *)
NextSector(d) == [d EXCEPT !.st = "busy", !.lba = @ + 1, !.left = @ - 1]

(* One sector of a PIO transfer: wait_drq_set and the data. *)
try_read_pio(c) ==
    /\ th[c].pc = "drq" /\ th[c].op = "read"
    /\ \/ wait_drq_set_failed(c)
       \/ /\ dev[BusOf[c]].st = "drq"
          /\ Carry(c)
          /\ dev' = [dev EXCEPT ![BusOf[c]] =
                       IF @.left = 1 THEN Idle ELSE NextSector(@)]
          /\ th' = [th EXCEPT ![c] = IF @.sector + 1 = Chunk(c) THEN ChunkDone(c, @)
                                     ELSE [@ EXCEPT !.pc = "irq", !.sector = th[c].sector + 1]]
    /\ UNCHANGED <<busVars, got_irq, pending, dmaVars>>

try_write_pio(c) ==
    /\ th[c].pc = "drq" /\ th[c].op = "write"
    /\ \/ wait_drq_set_failed(c)
       \/ /\ dev[BusOf[c]].st = "drq"
          /\ Carry(c)
          /\ dev' = [dev EXCEPT ![BusOf[c]] = NextSector(@)]
          /\ th' = [th EXCEPT ![c].pc = "irq", ![c].sector = @ + 1]
    /\ UNCHANGED <<busVars, got_irq, pending, dmaVars>>

(* After the data of a write: wait_busy_clear, then flush_cache with its   *)
(* own wait_busy_clear.                                                    *)
FinishWrite(c) ==
    /\ \/ /\ th[c].pc = "settle"
          /\ IF Busy(BusOf[c])
             THEN th' = [th EXCEPT ![c].pc = "failed"] /\ UNCHANGED dev
             ELSE /\ th' = [th EXCEPT ![c].pc = "flush"]
                  /\ dev' = [dev EXCEPT ![BusOf[c]] = [Idle EXCEPT !.st = "busy", !.cmd = "flush"]]
       \/ /\ th[c].pc = "flush"
          /\ th' = [th EXCEPT ![c] = IF Busy(BusOf[c]) THEN [@ EXCEPT !.pc = "failed"]
                                     ELSE ChunkDone(c, @)]
          /\ UNCHANGED dev
    /\ UNCHANGED <<busVars, got_irq, pending, dmaVars, moved>>

(* Fault: retries never run out. *)
TryFailed_forever(c) ==
    /\ th[c].pc = "failed"
    /\ th' = [th EXCEPT ![c].pc = "try"]
    /\ bm' = [bm EXCEPT ![BusOf[c]] = "stopped"]
    /\ UNCHANGED <<busVars, got_irq, pending, xfer, bounce, dev, moved>>

(* A failed try: dma_end_transfer, then give up after MAX_RETRIES retries  *)
(* or go round again, with a soft reset when DMA failed for another reason *)
(* than a CRC error (which try_read forgets).                              *)
TryFailed(c) ==
    /\ th[c].pc = "failed"
    /\ LET b == BusOf[c]
       IN  /\ bm' = IF th[c].can_dma THEN [bm EXCEPT ![b] = "stopped"] ELSE bm
           /\ IF th[c].try = MaxRetries
              THEN /\ th' = [th EXCEPT ![c].pc = "end", ![c].failed = TRUE]
                   /\ UNCHANGED dev
              ELSE /\ th' = [th EXCEPT ![c].pc = "try", ![c].try = @ + 1]
                   /\ dev' = IF ~th[c].crc /\ th[c].can_dma THEN [dev EXCEPT ![b] = Idle] ELSE dev
    /\ UNCHANGED <<busVars, got_irq, pending, xfer, bounce, moved>>

atadisk_op_dma_end_session(c) ==
    /\ th[c].pc = "end"
    /\ th' = [th EXCEPT ![c].pc = "unlock"]
    /\ dma_lock_flag' = (dma_lock_flag /\ ~(th[c].can_dma /\ DmaLockNeeded))
    /\ UNCHANGED <<bus_lock_flag, got_irq, pending, dmaVars, dev, moved>>

atadisk_op_unlock(c) ==
    /\ th[c].pc = "unlock"
    /\ th' = [th EXCEPT ![c].pc = "idle"]
    /\ bus_lock_flag' = [bus_lock_flag EXCEPT ![BusOf[c]] = FALSE]
    /\ UNCHANGED <<dma_lock_flag, got_irq, pending, dmaVars, dev, moved>>

irq_handler(b) ==
    /\ pending[b]
    /\ pending' = [pending EXCEPT ![b] = FALSE]
    /\ got_irq' = [got_irq EXCEPT ![b] = TRUE]
    /\ UNCHANGED <<busVars, dmaVars, dev, th, moved>>

(* The drive and the bus master of bus b (external). *)

(* A DMA command ends: all sectors moved, a bus fault, or a refusal by the *)
(* drive that leaves the bus master waiting.                               *)
DriveDma(b) ==
    /\ dev[b].st = "busy" /\ dev[b].cmd = "dma" /\ bm[b] = "active"
    /\ pending' = [pending EXCEPT ![b] = TRUE]
    /\ LET sectors == [i \in 1 .. dev[b].left |-> dev[b].lba + i - 1]
           who == xfer[b].who
       IN  \/ /\ bm' = [bm EXCEPT ![b] = "complete"]
              /\ dev' = [dev EXCEPT ![b] = Idle]
              /\ IF xfer[b].read
                 THEN bounce' = [bounce EXCEPT ![b] = sectors] /\ UNCHANGED moved
                 ELSE /\ moved' = [moved EXCEPT ![who] =
                             [i \in DOMAIN @ \cup {xfer[b].off + k - 1 : k \in DOMAIN sectors} |->
                                IF i < xfer[b].off THEN @[i] ELSE sectors[i - xfer[b].off + 1]]]
                      /\ UNCHANGED bounce
           \/ /\ \E s \in {"crc", "fault", "active"} : bm' = [bm EXCEPT ![b] = s]
              /\ dev' = [dev EXCEPT ![b].st = "error"]
              /\ UNCHANGED <<bounce, moved>>
    /\ UNCHANGED <<busVars, got_irq, xfer, th>>

(* A PIO or flush command gets on: a sector is ready or taken, the command *)
(* ends, or it fails.  Only the first request for data raises no interrupt. *)
DrivePio(b) ==
    /\ Busy(b) /\ dev[b].cmd # "dma"
    /\ \E s \in {"drq", "idle", "error"} :
         /\ s = "idle" => dev[b].left = 0
         /\ s = "drq" => dev[b].left > 0
         /\ dev' = [dev EXCEPT ![b].st = s]
         /\ pending' = [pending EXCEPT ![b] = @ \/ ~(dev[b].st = "take" /\ s = "drq")]
    /\ UNCHANGED <<busVars, got_irq, dmaVars, th, moved>>

Step(c) ==
    \/ atadisk_op_lock(c) \/ atadisk_op_dma_begin_session(c) \/ StartTry(c)
    \/ wait_irq(c) \/ wait_busy_clear_irq(c) \/ wait_busy_clear(c)
    \/ try_read_dma(c) \/ try_write_dma(c) \/ try_read_pio(c) \/ try_write_pio(c)
    \/ FinishWrite(c) \/ TryFailed(c) \/ atadisk_op_dma_end_session(c) \/ atadisk_op_unlock(c)

Next ==
    \/ \E c \in Callers : Request(c) \/ Step(c)
    \/ \E b \in Buses : irq_handler(b) \/ DriveDma(b) \/ DrivePio(b)

(* A thread inside a call is scheduled again and again, and time passes:   *)
(* a wait ends by its condition or by its timeout.  Nothing is assumed of  *)
(* the drive.                                                              *)
Spec == Init /\ [][Next]_vars /\ \A c \in Callers : WF_vars(Step(c))

TypeOK ==
    /\ bus_lock_flag \in [Buses -> BOOLEAN] /\ dma_lock_flag \in BOOLEAN
    /\ got_irq \in [Buses -> BOOLEAN] /\ pending \in [Buses -> BOOLEAN]
    /\ bm \in [Buses -> {"stopped", "active", "complete", "crc", "fault"}]
    /\ \A b \in Buses : dev[b].st \in {"idle", "busy", "take", "drq", "error"}
    /\ \A c \in Callers : th[c].done \in 0 .. th[c].n /\ th[c].try \in 0 .. MaxRetries

InSession(c) == th[c].pc \notin {"idle", "lock", "session", "unlock"}

(* A request that returns 0 has carried every one of its sectors between   *)
(* its place in the buffer and its place on the disk: no interrupt of an   *)
(* abandoned try, no late answer and no retry makes read_sectors or        *)
(* write_sectors take a transfer for finished that is not.                 *)
TransferCorrect ==
    \A c \in Callers : (th[c].pc = "end" /\ ~th[c].failed) =>
        /\ DOMAIN moved[c] = 0 .. th[c].n - 1
        /\ \A i \in DOMAIN moved[c] : moved[c][i] = th[c].lba + i

(* On a simplex controller only one of the channels has its bus master at  *)
(* work at any time (the comment in atadisk_op_dma_begin_session).         *)
SimplexDma ==
    DmaLockNeeded => \A b1, b2 \in Buses : (bm[b1] # "stopped" /\ bm[b2] # "stopped") => b1 = b2

(* The DMA lock is held exactly while a caller has a DMA session, and the  *)
(* bus master of a bus is at work only inside one: no way out of           *)
(* read_sectors or write_sectors leaks either.                             *)
DmaReleased ==
    /\ dma_lock_flag <=> (DmaLockNeeded /\ \E c \in Callers : InSession(c) /\ th[c].can_dma)
    /\ \A b \in Buses : bm[b] # "stopped" =>
         \E c \in Callers : BusOf[c] = b /\ InSession(c) /\ th[c].can_dma

(* A DMA transfer is set up on a bus only when the one before it has       *)
(* ended: the order of operations written above struct atadisk_ops' DMA    *)
(* functions.                                                              *)
DmaOrder ==
    [][\A b \in Buses : xfer'[b] # xfer[b] => bm[b] = "stopped"]_vars

(* Every request returns, whatever the drive does: each wait has a         *)
(* timeout, each chunk a bounded number of tries, and the locks are        *)
(* released on every path.                                                 *)
RequestReturns == \A c \in Callers : th[c].pc # "idle" ~> th[c].pc = "idle"
============================================================================
