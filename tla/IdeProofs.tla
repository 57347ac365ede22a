----------------------------- MODULE IdeProofs -----------------------------
(***************************************************************************)
(* A disk transfer carries the sectors it was asked for, for every number  *)
(* of buses, every request and every number of retries (Ide).              *)
(***************************************************************************)
EXTENDS Integers, Ide, TLAPS

\* What a leaf that names no prover is tried with, in turn.
USE SMTT(10), Zenon, SMTT(30)

(***************************************************************************)
(* Disk transfers.  The lock of a bus does not keep a second caller out    *)
(* (see DmaOrder of MC_Devices), so what is proved is what atadisk.c does  *)
(* with one caller on each bus, while drive, bus master and interrupts do  *)
(* what they want.                                                         *)
(*                                                                         *)
(* The inductive invariant relates the locals t of a caller c and the      *)
(* sectors m it has moved to the command d of its drive and to the state s *)
(* of the bus master, which was set up with x and has filled y.            *)
(***************************************************************************)
OneCallerPerBus == \A c, d \in Callers : BusOf[c] = BusOf[d] => c = d

Pcs == {"idle", "lock", "session", "try", "irq", "seen", "busy", "drq", "settle", "flush",
        "failed", "end", "unlock"}
Caller == [pc : Pcs, op : {"read", "write"}, lba : Nat, n : Nat \ {0}, done : Nat, try : Nat,
           sector : Nat, expected : BOOLEAN, can_dma : BOOLEAN, crc : BOOLEAN, failed : BOOLEAN, calls : Nat]
Command == [st : {"idle", "busy", "take", "drq", "error"},
            cmd : {"none", "dma", "read", "write", "flush"}, lba : Nat, left : Nat]
Busmaster == {"stopped", "active", "complete", "crc", "fault"}

ChunkOf(t) == IF MaxSectors < t.n - t.done THEN MaxSectors ELSE t.n - t.done
\* All sectors of the chunks before, and k of this one, are where they belong.
Carried(t, m, k) == \A i \in 0..(t.done + k - 1) : i \in DOMAIN m /\ m[i] = t.lba + i

Placed(t, m) ==
  /\ t.done <= t.n /\ t.try <= MaxRetries
  /\ t.pc \in {"lock", "session", "try", "irq", "seen", "busy", "drq", "settle", "flush", "failed"} => t.done < t.n
  /\ t.pc = "end" /\ ~t.failed => t.done = t.n
  /\ \A i \in DOMAIN m : i \in Nat /\ i < t.done + ChunkOf(t)
  /\ Carried(t, m, 0)
  /\ t.pc \in {"settle", "flush"} => Carried(t, m, ChunkOf(t)) /\ t.op = "write"
  /\ t.pc \in {"busy", "drq"} => ~t.can_dma

OnPio(t, m, d) ==
  t.pc \in {"irq", "seen", "busy", "drq"} /\ ~t.can_dma =>
    /\ d.cmd = t.op /\ d.lba = t.lba + t.done + t.sector /\ d.left = ChunkOf(t) - t.sector
    /\ t.sector <= ChunkOf(t) /\ (t.op = "read" => t.sector < ChunkOf(t))
    /\ Carried(t, m, t.sector)
    /\ d.st = "drq" => d.left > 0

OnDma(c, t, m, d, s, x, y) ==
  /\ t.pc \in {"irq", "seen"} /\ t.can_dma => s # "stopped"
  /\ s # "stopped" =>
       /\ t.pc \in {"irq", "seen", "failed"} /\ t.can_dma
       /\ x = [who |-> c, off |-> t.done, len |-> ChunkOf(t), read |-> t.op = "read"]
       /\ d.st = "busy" /\ d.cmd = "dma" => d.lba = t.lba + t.done /\ d.left = ChunkOf(t)
       /\ s = "complete" => IF t.op = "write" THEN Carried(t, m, ChunkOf(t))
                            ELSE \A k \in 1..ChunkOf(t) : y[k] = t.lba + t.done + k - 1

Good(c, t, m, d, s, x, y) ==
  t \in Caller /\ d \in Command /\ s \in Busmaster /\ Placed(t, m) /\ OnPio(t, m, d) /\ OnDma(c, t, m, d, s, x, y)

CallersGood ==
  \A c \in Callers : Good(c, th[c], moved[c], dev[BusOf[c]], bm[BusOf[c]], xfer[BusOf[c]], bounce[BusOf[c]])

IdeTypes ==
  /\ bus_lock_flag \in [Buses -> BOOLEAN] /\ dma_lock_flag \in BOOLEAN
  /\ got_irq \in [Buses -> BOOLEAN] /\ pending \in [Buses -> BOOLEAN]
  /\ dev \in [Buses -> Command] /\ bm \in [Buses -> Busmaster] /\ th \in [Callers -> Caller]
  /\ moved = [c \in Callers |-> moved[c]]
  /\ xfer = [b \in Buses |-> xfer[b]] /\ bounce = [b \in Buses |-> bounce[b]]

DmaSession(t) == t.pc \notin {"idle", "lock", "session", "unlock"} /\ t.can_dma
LockInv ==
  /\ dma_lock_flag <=> (DmaLockNeeded /\ \E c \in Callers : DmaSession(th[c]))
  /\ DmaLockNeeded => \A c, d \in Callers : DmaSession(th[c]) /\ DmaSession(th[d]) => c = d

IdeInv ==
  /\ IdeTypes /\ CallersGood /\ LockInv
  /\ \A b \in Buses : bm[b] # "stopped" => \E c \in Callers : BusOf[c] = b

\* A step of caller c, or of the drive on its bus, that leaves c as the invariant
\* says leaves the others alone.
LEMMA OneStep ==
  ASSUME IdeInv, OneCallerPerBus, IdeAssumption, NEW c \in Callers, IdeTypes', LockInv',
         \A e \in Callers : e # c => th'[e] = th[e] /\ moved'[e] = moved[e],
         \A b \in Buses : b # BusOf[c] =>
            dev'[b] = dev[b] /\ bm'[b] = bm[b] /\ xfer'[b] = xfer[b] /\ bounce'[b] = bounce[b],
         Good(c, th'[c], moved'[c], dev'[BusOf[c]], bm'[BusOf[c]], xfer'[BusOf[c]], bounce'[BusOf[c]])
  PROVE  IdeInv'
<1>1. \A e \in Callers : BusOf[e] \in Buses
  BY Zenon DEF IdeAssumption
<1>2. CallersGood'
  <2> SUFFICES ASSUME NEW e \in Callers
               PROVE  Good(e, th'[e], moved'[e], dev'[BusOf[e]], bm'[BusOf[e]], xfer'[BusOf[e]], bounce'[BusOf[e]])
    BY Zenon DEF CallersGood
  <2>1. CASE e = c
    BY <2>1, Zenon
  <2>2. CASE e # c
    <3>1. BusOf[e] # BusOf[c] /\ BusOf[e] \in Buses
      BY <1>1, <2>2, Zenon DEF OneCallerPerBus
    <3>2. /\ th'[e] = th[e] /\ moved'[e] = moved[e] /\ dev'[BusOf[e]] = dev[BusOf[e]]
          /\ bm'[BusOf[e]] = bm[BusOf[e]] /\ xfer'[BusOf[e]] = xfer[BusOf[e]]
          /\ bounce'[BusOf[e]] = bounce[BusOf[e]]
      BY <2>2, <3>1, Zenon
    <3> QED BY <3>2, Zenon DEF IdeInv, CallersGood
  <2> QED BY <2>1, <2>2, Zenon
<1>3. \A b \in Buses : bm'[b] # "stopped" => \E e \in Callers : BusOf[e] = b
  BY Zenon DEF IdeInv
<1> QED BY <1>2, <1>3, Zenon DEF IdeInv

\* The DMA lock is not touched by a step that neither begins nor ends a session.
LEMMA SessionKept ==
  ASSUME LockInv, NEW c \in Callers, \A e \in Callers : e # c => th'[e] = th[e],
         DmaSession(th'[c]) <=> DmaSession(th[c]), dma_lock_flag' = dma_lock_flag
  PROVE  LockInv'
<1>1. \A e \in Callers : DmaSession(th'[e]) <=> DmaSession(th[e])
  OBVIOUS
<1> QED BY <1>1 DEF LockInv

\* What is known of one caller.
LEMMA CallerFacts ==
  ASSUME IdeInv, IdeAssumption, NEW c \in Callers
  PROVE  /\ BusOf[c] \in Buses /\ MaxSectors \in Nat \ {0} /\ MaxRetries \in Nat
         /\ th[c] \in Caller /\ dev[BusOf[c]] \in Command /\ bm[BusOf[c]] \in Busmaster
         /\ Placed(th[c], moved[c]) /\ OnPio(th[c], moved[c], dev[BusOf[c]])
         /\ OnDma(c, th[c], moved[c], dev[BusOf[c]], bm[BusOf[c]], xfer[BusOf[c]], bounce[BusOf[c]])
<1>1. BusOf[c] \in Buses /\ MaxSectors \in Nat \ {0} /\ MaxRetries \in Nat
  BY DEF IdeAssumption
<1> QED BY <1>1, Zenon DEF IdeInv, CallersGood, Good

\* One entry of a function replaced.
Put(f, k, v) == [f EXCEPT ![k] = v]

\* A step of caller c with its bus, by what it leaves behind.
LEMMA IdeStep ==
  ASSUME IdeInv, OneCallerPerBus, IdeAssumption, NEW c \in Callers,
         NEW u, NEW m, NEW d, NEW s, NEW x, NEW y, Good(c, u, m, d, s, x, y),
         th' = Put(th, c, u), moved' = Put(moved, c, m),
         dev' = Put(dev, BusOf[c], d), bm' = Put(bm, BusOf[c], s),
         xfer' = Put(xfer, BusOf[c], x), bounce' = Put(bounce, BusOf[c], y),
         bus_lock_flag' \in [Buses -> BOOLEAN], got_irq' \in [Buses -> BOOLEAN],
         pending' \in [Buses -> BOOLEAN], dma_lock_flag' \in BOOLEAN,
         LockInv' \/ (dma_lock_flag' = dma_lock_flag /\ (DmaSession(u) <=> DmaSession(th[c])))
  PROVE  IdeInv'
<1>1. BusOf[c] \in Buses
  BY CallerFacts, Zenon
<1>2. /\ th \in [Callers -> Caller] /\ dev \in [Buses -> Command] /\ bm \in [Buses -> Busmaster]
      /\ moved = [e \in Callers |-> moved[e]] /\ xfer = [b \in Buses |-> xfer[b]]
      /\ bounce = [b \in Buses |-> bounce[b]]
  BY DEF IdeInv, IdeTypes
<1>3. u \in Caller /\ d \in Command /\ s \in Busmaster
  BY Zenon DEF Good
<1>4. th' \in [Callers -> Caller] /\ th'[c] = u /\ \A e \in Callers : e # c => th'[e] = th[e]
  BY <1>2, <1>3 DEF Put
<1>5. /\ moved' = [e \in Callers |-> moved'[e]] /\ moved'[c] = m
      /\ \A e \in Callers : e # c => moved'[e] = moved[e]
  BY <1>2, Zenon DEF Put
<1>6. /\ dev' \in [Buses -> Command] /\ dev'[BusOf[c]] = d
      /\ \A b \in Buses : b # BusOf[c] => dev'[b] = dev[b]
  BY <1>1, <1>2, <1>3 DEF Put
<1>7. /\ bm' \in [Buses -> Busmaster] /\ bm'[BusOf[c]] = s
      /\ \A b \in Buses : b # BusOf[c] => bm'[b] = bm[b]
  BY <1>1, <1>2, <1>3 DEF Put
<1>8. /\ xfer' = [b \in Buses |-> xfer'[b]] /\ xfer'[BusOf[c]] = x
      /\ \A b \in Buses : b # BusOf[c] => xfer'[b] = xfer[b]
  BY <1>1, <1>2 DEF Put
<1>9. /\ bounce' = [b \in Buses |-> bounce'[b]] /\ bounce'[BusOf[c]] = y
      /\ \A b \in Buses : b # BusOf[c] => bounce'[b] = bounce[b]
  BY <1>1, <1>2 DEF Put
<1>10. IdeTypes'
  BY <1>4, <1>5, <1>6, <1>7, <1>8, <1>9, Zenon DEF IdeTypes
<1>11. LockInv'
  BY <1>4, SessionKept, Zenon DEF IdeInv
<1> QED BY <1>4, <1>5, <1>6, <1>7, <1>8, <1>9, <1>10, <1>11, OneStep, Zenon

\* What a step does not touch, in the form IdeStep takes it.
LEMMA Untouched ==
  ASSUME IdeInv, IdeAssumption, NEW c \in Callers
  PROVE  /\ moved = Put(moved, c, moved[c])
         /\ dev = Put(dev, BusOf[c], dev[BusOf[c]])
         /\ bm = Put(bm, BusOf[c], bm[BusOf[c]])
         /\ xfer = Put(xfer, BusOf[c], xfer[BusOf[c]])
         /\ bounce = Put(bounce, BusOf[c], bounce[BusOf[c]])
         /\ bus_lock_flag \in [Buses -> BOOLEAN] /\ got_irq \in [Buses -> BOOLEAN]
         /\ pending \in [Buses -> BOOLEAN] /\ dma_lock_flag \in BOOLEAN
BY Zenon DEF IdeInv, IdeTypes, Put

\* Only the point in the program changes.
At(t, p) == [t EXCEPT !.pc = p]

\* A step to another place of the request changes nothing else of it.
LEMMA AtFacts ==
  ASSUME NEW t \in Caller, NEW p \in Pcs
  PROVE  /\ At(t, p) \in Caller /\ At(t, p).pc = p
         /\ At(t, p).op = t.op /\ At(t, p).lba = t.lba /\ At(t, p).n = t.n /\ At(t, p).done = t.done
         /\ At(t, p).try = t.try /\ At(t, p).sector = t.sector /\ At(t, p).can_dma = t.can_dma
         /\ At(t, p).failed = t.failed /\ At(t, p).crc = t.crc
         /\ ChunkOf(At(t, p)) = ChunkOf(t)
         /\ \A m, k : Carried(At(t, p), m, k) <=> Carried(t, m, k)
<1>1. /\ At(t, p) \in Caller /\ At(t, p).pc = p
      /\ At(t, p).op = t.op /\ At(t, p).lba = t.lba /\ At(t, p).n = t.n /\ At(t, p).done = t.done
      /\ At(t, p).try = t.try /\ At(t, p).sector = t.sector /\ At(t, p).can_dma = t.can_dma
      /\ At(t, p).failed = t.failed /\ At(t, p).crc = t.crc
  BY DEF At, Caller
<1> QED BY <1>1 DEF ChunkOf, Carried

\* read_sectors and write_sectors begin with nothing moved.
LEMMA IdeRequestInv ==
  ASSUME IdeInv, OneCallerPerBus, IdeAssumption, NEW c \in Callers, Request(c)
  PROVE  IdeInv'
<1>1. PICK r \in Requests :
        th' = [th EXCEPT ![c].pc = "lock", ![c].op = r.op, ![c].lba = r.lba, ![c].n = r.n,
                          ![c].done = 0, ![c].try = 0, ![c].expected = FALSE,
                          ![c].failed = FALSE, ![c].calls = @ + 1]
  BY Zenon DEF Request
<1>2. PICK t \in Caller : t = th[c] /\ t.pc = "idle"
  BY CallerFacts, Zenon DEF Request
<1>3. r \in [op: {"read", "write"}, lba: Nat, n: Nat \ {0}]
  BY DEF IdeAssumption
<1>4. PICK u \in Caller :
        /\ u.pc = "lock" /\ u.n = r.n /\ u.done = 0 /\ u.try = 0 /\ ~u.failed
        /\ u = [t EXCEPT !.pc = "lock", !.op = r.op, !.lba = r.lba, !.n = r.n, !.done = 0, !.try = 0,
                         !.expected = FALSE, !.failed = FALSE, !.calls = @ + 1]
  <2>1. [t EXCEPT !.pc = "lock", !.op = r.op, !.lba = r.lba, !.n = r.n, !.done = 0, !.try = 0,
                  !.expected = FALSE, !.failed = FALSE, !.calls = @ + 1] \in Caller
    <3>1. r.op \in {"read", "write"} /\ r.lba \in Nat /\ r.n \in Nat \ {0}
      BY <1>3
    <3>2. t.calls + 1 \in Nat
      BY DEF Caller
    <3> QED BY <3>1, <3>2, Zenon DEF Caller, Pcs
  <2> QED BY <2>1, Zenon DEF Caller
<1>5. th' = [th EXCEPT ![c] = u] /\ th \in [Callers -> Caller]
  BY <1>1, <1>2, <1>4, Zenon DEF IdeInv, IdeTypes
<1>6. th' \in [Callers -> Caller] /\ th'[c] = u /\ \A e \in Callers : e # c => th'[e] = th[e]
  BY <1>4, <1>5
<1>7. /\ moved'[c] = [i \in {} |-> 0] /\ moved' = [e \in Callers |-> moved'[e]]
      /\ \A e \in Callers : e # c => moved'[e] = moved[e]
  BY Zenon DEF Request, IdeInv, IdeTypes
<1>8. UNCHANGED <<bus_lock_flag, dma_lock_flag, got_irq, pending, xfer, bm, bounce, dev>>
  BY Zenon DEF Request, busVars, dmaVars
<1>9. IdeTypes'
  BY <1>6, <1>7, <1>8 DEF IdeInv, IdeTypes
<1>10. bm[BusOf[c]] = "stopped"
  BY <1>2, CallerFacts, Zenon DEF OnDma
<1>11. Good(c, u, moved'[c], dev[BusOf[c]], bm[BusOf[c]], xfer[BusOf[c]], bounce[BusOf[c]])
  <2>1. Carried(u, moved'[c], 0)
    BY <1>4 DEF Carried
  <2>2. DOMAIN moved'[c] = {}
    BY <1>7
  <2>3. Placed(u, moved'[c])
    <3>1. u.n \in Nat /\ u.n > 0 /\ MaxRetries \in Nat
      BY CallerFacts DEF Caller
    <3> QED BY <1>4, <2>1, <2>2, <3>1 DEF Placed
  <2> QED BY <1>4, <1>10, <2>3, CallerFacts, Zenon DEF Good, OnPio, OnDma
<1>12. LockInv'
  <2>1. ~DmaSession(u) /\ ~DmaSession(t)
    BY <1>2, <1>4 DEF DmaSession
  <2> QED BY <1>2, <1>6, <1>8, <2>1, SessionKept, Zenon DEF IdeInv
<1> QED BY <1>6, <1>7, <1>8, <1>9, <1>11, <1>12, OneStep

\* The moves that a caller makes without touching anything.
Moves(t, p) ==
  \/ t.pc = "lock" /\ p = "session"
  \/ t.pc = "irq" /\ p \in {"seen", "failed"}
  \/ t.pc = "seen" /\ p = "irq"
  \/ t.pc = "seen" /\ t.can_dma /\ p = "failed"
  \/ t.pc = "seen" /\ ~t.can_dma /\ t.op = "read" /\ p = "drq"
  \/ t.pc = "seen" /\ ~t.can_dma /\ t.op = "write" /\ p = "busy"
  \/ t.pc = "seen" /\ ~t.can_dma /\ t.op = "write" /\ ~(t.sector < ChunkOf(t)) /\ p = "settle"
  \/ t.pc = "busy" /\ p \in {"failed", "drq"}
  \/ t.pc \in {"drq", "settle", "flush"} /\ p = "failed"
  \/ t.pc = "unlock" /\ p = "idle"

LEMMA MoveGood ==
  ASSUME MaxSectors \in Nat \ {0}, NEW c, NEW t, NEW m, NEW d, NEW s, NEW x, NEW y, Good(c, t, m, d, s, x, y),
         NEW p \in Pcs,
         Moves(t, p) \/ (t.pc = "settle" /\ p = "flush") \/ (t.pc = "end" /\ p = "unlock")
  PROVE  Good(c, At(t, p), m, d, s, x, y)
<1>1. t \in Caller /\ d \in Command /\ s \in Busmaster /\ Placed(t, m) /\ OnPio(t, m, d) /\ OnDma(c, t, m, d, s, x, y)
  BY DEF Good
<1>2. At(t, p) \in Caller
  BY <1>1, AtFacts
<1>3. PICK k \in Int : k = ChunkOf(t)
  BY <1>1 DEF ChunkOf, Caller
<1>4. p = "settle" => Carried(t, m, k)
  <2>1. t.sector \in Nat
    BY <1>1 DEF Caller
  <2>2. p = "settle" => t.sector <= k /\ ~(t.sector < k) /\ Carried(t, m, t.sector)
    BY <1>1, <1>3 DEF OnPio, Moves
  <2>3. p = "settle" => t.sector = k
    BY <2>1, <2>2
  <2> QED BY <2>2, <2>3
<1>5. Placed(At(t, p), m)
  BY <1>1, <1>3, <1>4, AtFacts DEF Placed, Moves
<1>6. OnPio(At(t, p), m, d)
  BY <1>1, AtFacts DEF OnPio, Placed, Moves
<1>7. OnDma(c, At(t, p), m, d, s, x, y)
  BY <1>1, AtFacts DEF OnDma, Placed, Moves
<1> QED BY <1>1, <1>2, <1>5, <1>6, <1>7 DEF Good

\* A step that is such a move.
LEMMA MoveInv ==
  ASSUME IdeInv, OneCallerPerBus, IdeAssumption, NEW c \in Callers, NEW p \in Pcs, Moves(th[c], p),
         th' = Put(th, c, At(th[c], p)), UNCHANGED <<moved, dev, bm, xfer, bounce, dma_lock_flag>>,
         bus_lock_flag' \in [Buses -> BOOLEAN], got_irq' \in [Buses -> BOOLEAN], pending' \in [Buses -> BOOLEAN]
  PROVE  IdeInv'
<1>1. Good(c, th[c], moved[c], dev[BusOf[c]], bm[BusOf[c]], xfer[BusOf[c]], bounce[BusOf[c]])
  BY Zenon DEF IdeInv, CallersGood
<1>2. Good(c, At(th[c], p), moved[c], dev[BusOf[c]], bm[BusOf[c]], xfer[BusOf[c]], bounce[BusOf[c]])
  BY <1>1, MoveGood, CallerFacts, Zenon
<1>3. DmaSession(At(th[c], p)) <=> DmaSession(th[c])
  BY AtFacts, CallerFacts DEF DmaSession, Moves
<1>4. /\ moved' = Put(moved, c, moved[c]) /\ dev' = Put(dev, BusOf[c], dev[BusOf[c]])
      /\ bm' = Put(bm, BusOf[c], bm[BusOf[c]]) /\ xfer' = Put(xfer, BusOf[c], xfer[BusOf[c]])
      /\ bounce' = Put(bounce, BusOf[c], bounce[BusOf[c]])
      /\ dma_lock_flag' = dma_lock_flag /\ dma_lock_flag' \in BOOLEAN
  BY Untouched, Zenon
<1> QED BY <1>2, <1>3, <1>4, IdeStep

\* The bus lock of one caller.
LEMMA LockStepInv ==
  ASSUME IdeInv, OneCallerPerBus, IdeAssumption, NEW c \in Callers,
         atadisk_op_lock(c) \/ atadisk_op_unlock(c)
  PROVE  IdeInv'
<1>0. th \in [Callers -> Caller] /\ bus_lock_flag \in [Buses -> BOOLEAN] /\ BusOf[c] \in Buses
  BY CallerFacts DEF IdeInv, IdeTypes
<1>1. CASE atadisk_op_unlock(c)
  <2>1. /\ th' = Put(th, c, At(th[c], "idle")) /\ th[c].pc = "unlock"
        /\ bus_lock_flag' = Put(bus_lock_flag, BusOf[c], FALSE)
        /\ UNCHANGED <<moved, dev, bm, xfer, bounce, dma_lock_flag, got_irq, pending>>
    BY <1>1 DEF atadisk_op_unlock, At, Put, dmaVars
  <2>2. bus_lock_flag' \in [Buses -> BOOLEAN]
    BY <1>0, <2>1 DEF Put
  <2> QED BY <2>1, <2>2, MoveInv, Untouched, Zenon DEF Pcs, Moves
<1>2. CASE atadisk_op_lock(c) /\ th' = [th EXCEPT ![c].pc = "session"]
  <2>1. /\ th' = Put(th, c, At(th[c], "session")) /\ th[c].pc = "lock"
        /\ UNCHANGED <<moved, dev, bm, xfer, bounce, dma_lock_flag, got_irq, pending>>
    BY <1>2 DEF atadisk_op_lock, At, Put, dmaVars
  <2>2. bus_lock_flag' \in [Buses -> BOOLEAN]
    BY <1>0, <1>2, Zenon DEF atadisk_op_lock
  <2> QED BY <2>1, <2>2, MoveInv, Untouched, Zenon DEF Pcs, Moves
<1>3. CASE /\ atadisk_op_lock(c) /\ UNCHANGED bus_lock_flag
           /\ th' = [th EXCEPT ![c].expected = bus_lock_flag[BusOf[c]]]
  <2>1. PICK t \in Caller : t = th[c] /\ t.pc = "lock"
    BY <1>3, CallerFacts DEF atadisk_op_lock
  <2>2. PICK u : u = [t EXCEPT !.expected = bus_lock_flag[BusOf[c]]]
    BY Zenon
  <2>3. /\ u \in Caller /\ u.pc = t.pc /\ u.op = t.op /\ u.lba = t.lba /\ u.n = t.n /\ u.done = t.done
        /\ u.try = t.try /\ u.sector = t.sector /\ u.can_dma = t.can_dma /\ u.failed = t.failed
    <3>1. bus_lock_flag[BusOf[c]] \in BOOLEAN
      BY <1>0
    <3> QED BY <2>2, <3>1 DEF Caller
  <2>4. th' = Put(th, c, u)
    BY <1>0, <1>3, <2>1, <2>2 DEF Put
  <2>5. ChunkOf(u) = ChunkOf(t) /\ \A m, k : Carried(u, m, k) <=> Carried(t, m, k)
    BY <2>3 DEF ChunkOf, Carried
  <2>6. Good(c, u, moved[c], dev[BusOf[c]], bm[BusOf[c]], xfer[BusOf[c]], bounce[BusOf[c]])
    BY <2>1, <2>3, <2>5, CallerFacts, Zenon DEF Good, Placed, OnPio, OnDma
  <2>7. DmaSession(u) <=> DmaSession(th[c])
    BY <2>1, <2>3 DEF DmaSession
  <2>8. UNCHANGED <<bus_lock_flag, moved, dev, bm, xfer, bounce, dma_lock_flag, got_irq, pending>>
    BY <1>3 DEF atadisk_op_lock, dmaVars
  <2>9. /\ moved' = Put(moved, c, moved[c]) /\ dev' = Put(dev, BusOf[c], dev[BusOf[c]])
        /\ bm' = Put(bm, BusOf[c], bm[BusOf[c]]) /\ xfer' = Put(xfer, BusOf[c], xfer[BusOf[c]])
        /\ bounce' = Put(bounce, BusOf[c], bounce[BusOf[c]])
    BY <2>8, Untouched, Zenon
  <2>10. /\ bus_lock_flag' \in [Buses -> BOOLEAN] /\ got_irq' \in [Buses -> BOOLEAN]
         /\ pending' \in [Buses -> BOOLEAN] /\ dma_lock_flag' \in BOOLEAN
    BY <2>8, Untouched
  <2> QED BY <2>4, <2>6, <2>7, <2>8, <2>9, <2>10, IdeStep, Zenon
<1> QED BY <1>1, <1>2, <1>3 DEF atadisk_op_lock

\* Two records of one request at the same chunk.
SameChunk(u, t) == u.op = t.op /\ u.lba = t.lba /\ u.n = t.n /\ u.done = t.done

\* What was carried depends on the chunk alone.
LEMMA SameChunkFacts ==
  ASSUME NEW t, NEW u, SameChunk(u, t)
  PROVE  ChunkOf(u) = ChunkOf(t) /\ \A m, k : Carried(u, m, k) <=> Carried(t, m, k)
BY DEF SameChunk, ChunkOf, Carried

\* dma_begin_session: on a simplex controller the lock is taken only when no other
\* session has DMA.
LEMMA BeginInv ==
  ASSUME IdeInv, OneCallerPerBus, IdeAssumption, NEW c \in Callers, atadisk_op_dma_begin_session(c)
  PROVE  IdeInv'
<1>1. PICK t \in Caller : t = th[c] /\ t.pc = "session"
  BY CallerFacts DEF atadisk_op_dma_begin_session
<1>2. PICK granted \in BOOLEAN :
        /\ granted = (BusOf[c] \in HasBusmaster /\ ((DmaLockNeeded /\ BusOf[c] \in HasBusmaster) => ~dma_lock_flag))
        /\ dma_lock_flag' = (dma_lock_flag \/ ((DmaLockNeeded /\ BusOf[c] \in HasBusmaster) /\ granted))
        /\ th' = [th EXCEPT ![c].pc = "try", ![c].can_dma = granted]
  BY Zenon DEF atadisk_op_dma_begin_session
<1>3. PICK u \in Caller : u.pc = "try" /\ u.can_dma = granted /\ SameChunk(u, t) /\ u.try = t.try /\ u.failed = t.failed
                          /\ u = [t EXCEPT !.pc = "try", !.can_dma = granted]
  <2>1. [t EXCEPT !.pc = "try", !.can_dma = granted] \in Caller
    BY Zenon DEF Caller, Pcs
  <2> QED BY <2>1, Zenon DEF Caller, SameChunk
<1>4. th \in [Callers -> Caller]
  BY DEF IdeInv, IdeTypes
<1>5. th' = Put(th, c, u) /\ th'[c] = u /\ \A e \in Callers : e # c => th'[e] = th[e]
  BY <1>1, <1>2, <1>3, <1>4, Zenon DEF Put
<1>6. Good(c, u, moved[c], dev[BusOf[c]], bm[BusOf[c]], xfer[BusOf[c]], bounce[BusOf[c]])
  <2>1. bm[BusOf[c]] = "stopped"
    BY <1>1, CallerFacts, Zenon DEF OnDma
  <2>2. Placed(u, moved[c])
    <3>1. ChunkOf(u) = ChunkOf(t) /\ \A m, k : Carried(u, m, k) <=> Carried(t, m, k)
      BY <1>3, SameChunkFacts
    <3>2. Placed(t, moved[c])
      BY <1>1, CallerFacts, Zenon
    <3> QED BY <1>1, <1>3, <3>1, <3>2 DEF Placed, SameChunk
  <2>3. OnPio(u, moved[c], dev[BusOf[c]]) /\ OnDma(c, u, moved[c], dev[BusOf[c]], bm[BusOf[c]], xfer[BusOf[c]], bounce[BusOf[c]])
    BY <1>3, <2>1 DEF OnPio, OnDma
  <2> QED BY <1>3, <2>2, <2>3, CallerFacts DEF Good
<1>7. LockInv'
  <2>1. (DmaSession(u) <=> granted) /\ ~DmaSession(th[c])
    BY <1>1, <1>3 DEF DmaSession
  <2>2. LockInv /\ dma_lock_flag \in BOOLEAN
    BY DEF IdeInv, IdeTypes
  <2>3. granted /\ DmaLockNeeded => ~dma_lock_flag /\ \A e \in Callers : ~DmaSession(th[e])
    BY <1>2, <2>2, Zenon DEF LockInv
  <2>4. dma_lock_flag' <=> (dma_lock_flag \/ (DmaLockNeeded /\ granted))
    BY <1>2, Zenon
  <2>5. (\E e \in Callers : DmaSession(th'[e])) <=> (granted \/ \E e \in Callers : DmaSession(th[e]))
    BY <1>5, <2>1
  <2>6. dma_lock_flag' <=> (DmaLockNeeded /\ \E e \in Callers : DmaSession(th'[e]))
    BY <2>2, <2>4, <2>5 DEF LockInv
  <2>7. DmaLockNeeded => \A e, f \in Callers : DmaSession(th'[e]) /\ DmaSession(th'[f]) => e = f
    BY <1>5, <2>1, <2>2, <2>3 DEF LockInv
  <2> QED BY <2>6, <2>7 DEF LockInv
<1>8. UNCHANGED <<bus_lock_flag, moved, dev, bm, xfer, bounce, got_irq, pending>>
  BY DEF atadisk_op_dma_begin_session, dmaVars
<1>9. /\ moved' = Put(moved, c, moved[c]) /\ dev' = Put(dev, BusOf[c], dev[BusOf[c]])
      /\ bm' = Put(bm, BusOf[c], bm[BusOf[c]]) /\ xfer' = Put(xfer, BusOf[c], xfer[BusOf[c]])
      /\ bounce' = Put(bounce, BusOf[c], bounce[BusOf[c]])
  BY <1>8, Untouched, Zenon
<1>10. /\ bus_lock_flag' \in [Buses -> BOOLEAN] /\ got_irq' \in [Buses -> BOOLEAN]
       /\ pending' \in [Buses -> BOOLEAN] /\ dma_lock_flag' \in BOOLEAN
  BY <1>2, <1>8, Untouched
<1> QED BY <1>5, <1>6, <1>7, <1>9, <1>10, IdeStep, Zenon

\* dma_end_session: the lock is given back by the caller that has it.
LEMMA EndInv ==
  ASSUME IdeInv, OneCallerPerBus, IdeAssumption, NEW c \in Callers, atadisk_op_dma_end_session(c)
  PROVE  IdeInv'
<1>1. /\ th[c] \in Caller /\ th[c].pc = "end"
      /\ dma_lock_flag' = (dma_lock_flag /\ ~(th[c].can_dma /\ DmaLockNeeded))
  BY CallerFacts DEF atadisk_op_dma_end_session
<1>2. PICK u \in Caller : u = At(th[c], "unlock") /\ u.pc = "unlock"
  <2>1. "unlock" \in Pcs
    BY DEF Pcs
  <2> QED BY <1>1, <2>1, AtFacts
<1>3. th \in [Callers -> Caller] /\ th' = Put(th, c, u)
  BY <1>2 DEF atadisk_op_dma_end_session, IdeInv, IdeTypes, Put, At
<1>4. th'[c] = u /\ \A e \in Callers : e # c => th'[e] = th[e]
  BY <1>3 DEF Put
<1>5. Good(c, u, moved[c], dev[BusOf[c]], bm[BusOf[c]], xfer[BusOf[c]], bounce[BusOf[c]])
  <2>1. Good(c, th[c], moved[c], dev[BusOf[c]], bm[BusOf[c]], xfer[BusOf[c]], bounce[BusOf[c]])
    BY Zenon DEF IdeInv, CallersGood
  <2> QED BY <1>1, <1>2, <2>1, MoveGood, CallerFacts, Zenon DEF Pcs, Moves
<1>6. LockInv'
  <2>1. ~DmaSession(u) /\ (DmaSession(th[c]) <=> th[c].can_dma)
    BY <1>1, <1>2 DEF DmaSession
  <2>2. LockInv /\ dma_lock_flag \in BOOLEAN
    BY DEF IdeInv, IdeTypes
  <2>3. \A e \in Callers : DmaSession(th'[e]) <=> (e # c /\ DmaSession(th[e]))
    BY <1>4, <2>1
  <2>4. DmaLockNeeded => \A e, f \in Callers : DmaSession(th'[e]) /\ DmaSession(th'[f]) => e = f
    BY <2>2, <2>3 DEF LockInv
  <2>5. CASE DmaLockNeeded /\ th[c].can_dma
    <3>1. ~dma_lock_flag' /\ \A e \in Callers : ~DmaSession(th'[e])
      BY <1>1, <2>1, <2>2, <2>3, <2>5, Zenon DEF LockInv
    <3> QED BY <2>4, <3>1 DEF LockInv
  <2>6. CASE ~(DmaLockNeeded /\ th[c].can_dma)
    <3>1. dma_lock_flag' <=> dma_lock_flag
      BY <1>1, <2>6, Zenon
    <3>2. DmaLockNeeded => ((\E e \in Callers : DmaSession(th'[e])) <=> \E e \in Callers : DmaSession(th[e]))
      BY <2>1, <2>3, <2>6
    <3>3. dma_lock_flag' <=> (DmaLockNeeded /\ \E e \in Callers : DmaSession(th'[e]))
      BY <2>2, <3>1, <3>2 DEF LockInv
    <3> QED BY <2>4, <3>3 DEF LockInv
  <2> QED BY <2>5, <2>6
<1>7. UNCHANGED <<bus_lock_flag, moved, dev, bm, xfer, bounce, got_irq, pending>>
  BY DEF atadisk_op_dma_end_session, dmaVars
<1>8. /\ moved' = Put(moved, c, moved[c]) /\ dev' = Put(dev, BusOf[c], dev[BusOf[c]])
      /\ bm' = Put(bm, BusOf[c], bm[BusOf[c]]) /\ xfer' = Put(xfer, BusOf[c], xfer[BusOf[c]])
      /\ bounce' = Put(bounce, BusOf[c], bounce[BusOf[c]])
  BY <1>7, Untouched, Zenon
<1>9. /\ bus_lock_flag' \in [Buses -> BOOLEAN] /\ got_irq' \in [Buses -> BOOLEAN]
      /\ pending' \in [Buses -> BOOLEAN] /\ dma_lock_flag' \in BOOLEAN
  BY <1>1, <1>7, Untouched
<1> QED BY <1>3, <1>5, <1>6, <1>8, <1>9, IdeStep, Zenon

\* The waits look and move on.
LEMMA IdeWaitInv ==
  ASSUME IdeInv, OneCallerPerBus, IdeAssumption, NEW c \in Callers,
         wait_irq(c) \/ wait_busy_clear_irq(c) \/ wait_busy_clear(c)
  PROVE  IdeInv'
<1>1. /\ th[c] \in Caller /\ got_irq \in [Buses -> BOOLEAN] /\ BusOf[c] \in Buses
      /\ Chunk(c) = ChunkOf(th[c])
  <2>1. Chunk(c) = ChunkOf(th[c])
    BY Zenon DEF Chunk, ChunkOf
  <2> QED BY <2>1, CallerFacts, Untouched, Zenon
<1>2. UNCHANGED <<bus_lock_flag, dma_lock_flag, moved, dev, bm, xfer, bounce, pending>>
  BY DEF wait_irq, wait_busy_clear_irq, wait_busy_clear, busVars, dmaVars
<1>3. bus_lock_flag' \in [Buses -> BOOLEAN] /\ pending' \in [Buses -> BOOLEAN]
  BY <1>2, Untouched, Zenon
<1>4. CASE wait_irq(c)
  <2>1. PICK p \in {"seen", "failed"} : th[c].pc = "irq" /\ th' = Put(th, c, At(th[c], p))
    <3>1. \/ th[c].pc = "irq" /\ th' = Put(th, c, At(th[c], "seen"))
          \/ th[c].pc = "irq" /\ th' = Put(th, c, At(th[c], "failed"))
      BY <1>4 DEF wait_irq, Put, At
    <3> QED BY <3>1, Zenon
  <2>2. got_irq' \in [Buses -> BOOLEAN]
    BY <1>1, <1>4, Zenon DEF wait_irq
  <2>3. p \in Pcs
    BY <2>1 DEF Pcs
  <2> QED BY <1>2, <1>3, <2>1, <2>2, <2>3, MoveInv, Zenon DEF Moves
<1>5. CASE wait_busy_clear_irq(c)
  <2>1. PICK p : /\ p = IF Busy(BusOf[c]) THEN "irq"
                        ELSE IF th[c].op = "read" THEN "drq"
                        ELSE IF th[c].sector < ChunkOf(th[c]) THEN "busy" ELSE "settle"
                 /\ th[c].pc = "seen" /\ ~th[c].can_dma /\ th' = Put(th, c, At(th[c], p))
    BY <1>1, <1>5, Zenon DEF wait_busy_clear_irq, Put, At
  <2>2. got_irq' \in [Buses -> BOOLEAN]
    BY <1>1, <1>5 DEF wait_busy_clear_irq
  <2>3. th[c].op \in {"read", "write"}
    BY <1>1, Zenon DEF Caller
  <2>4. /\ p \in Pcs
        /\ \/ p = "irq"
           \/ th[c].op = "read" /\ p = "drq"
           \/ th[c].op = "write" /\ p = "busy"
           \/ th[c].op = "write" /\ ~(th[c].sector < ChunkOf(th[c])) /\ p = "settle"
    <3>1. CASE Busy(BusOf[c])
      <4>1. p = "irq"
        BY <2>1, <3>1
      <4> QED BY <4>1 DEF Pcs
    <3>2. CASE ~Busy(BusOf[c]) /\ th[c].op = "read"
      <4>1. p = "drq"
        BY <2>1, <3>2
      <4> QED BY <3>2, <4>1 DEF Pcs
    <3>3. CASE ~Busy(BusOf[c]) /\ th[c].op # "read" /\ th[c].sector < ChunkOf(th[c])
      <4>1. p = "busy" /\ th[c].op = "write"
        BY <2>1, <2>3, <3>3
      <4> QED BY <4>1 DEF Pcs
    <3>4. CASE ~Busy(BusOf[c]) /\ th[c].op # "read" /\ ~(th[c].sector < ChunkOf(th[c]))
      <4>1. p = "settle" /\ th[c].op = "write"
        BY <2>1, <2>3, <3>4
      <4> QED BY <3>4, <4>1 DEF Pcs
    <3> QED BY <3>1, <3>2, <3>3, <3>4, Zenon
  <2> QED BY <1>2, <1>3, <2>1, <2>2, <2>4, MoveInv, Zenon DEF Moves
<1>6. CASE wait_busy_clear(c)
  <2>1. PICK p \in {"failed", "drq"} : th[c].pc = "busy" /\ th' = Put(th, c, At(th[c], p))
    BY <1>6, Zenon DEF wait_busy_clear, Put, At
  <2>2. got_irq' \in [Buses -> BOOLEAN]
    BY <1>1, <1>6 DEF wait_busy_clear
  <2>3. p \in Pcs
    BY <2>1 DEF Pcs
  <2> QED BY <1>2, <1>3, <2>1, <2>2, <2>3, MoveInv, Zenon DEF Moves
<1> QED BY <1>4, <1>5, <1>6

\* A try begins: the command, and for DMA the set-up of the bus, describe the chunk.
LEMMA StartTryInv ==
  ASSUME IdeInv, OneCallerPerBus, IdeAssumption, NEW c \in Callers, StartTry(c)
  PROVE  IdeInv'
<1>1. PICK t \in Caller : t = th[c] /\ t.pc = "try" /\ t.done < t.n
  BY CallerFacts DEF StartTry, Placed
<1>2. PICK k \in Nat \ {0} : k = ChunkOf(t) /\ k = Chunk(c)
  <2>1. t.n \in Nat /\ t.done \in Nat
    BY <1>1 DEF Caller
  <2>2. ChunkOf(t) \in Nat \ {0}
    BY <1>1, <2>1, CallerFacts DEF ChunkOf
  <2> QED BY <1>1, <2>2 DEF ChunkOf, Chunk
<1>3. PICK p \in {"busy", "irq"} : p = IF t.op = "write" /\ ~t.can_dma THEN "busy" ELSE "irq"
  OBVIOUS
<1>4. PICK d \in Command : /\ d.cmd = (IF t.can_dma THEN "dma" ELSE t.op) /\ d.lba = t.lba + t.done
                           /\ d.left = k /\ d.st \in {"take", "busy"}
                           /\ dev' = Put(dev, BusOf[c], d)
  <2>1. [st |-> IF t.op = "write" /\ ~t.can_dma THEN "take" ELSE "busy",
         cmd |-> IF t.can_dma THEN "dma" ELSE t.op, lba |-> t.lba + t.done, left |-> k] \in Command
    <3>1. t.lba + t.done \in Nat /\ t.op \in {"read", "write"}
      BY <1>1 DEF Caller
    <3> QED BY <3>1 DEF Command
  <2>2. dev' = Put(dev, BusOf[c],
            [st |-> IF t.op = "write" /\ ~t.can_dma THEN "take" ELSE "busy",
             cmd |-> IF t.can_dma THEN "dma" ELSE t.op, lba |-> t.lba + t.done, left |-> k])
    BY <1>1, <1>2 DEF StartTry, Start, Put
  <2> QED BY <2>1, <2>2
<1>5. PICK u \in Caller : /\ u.pc = p /\ u.sector = 0 /\ u.can_dma = t.can_dma /\ SameChunk(u, t)
                          /\ u.try = t.try /\ u.failed = t.failed
                          /\ u = [t EXCEPT !.pc = p, !.sector = 0, !.crc = FALSE]
  <2>1. [t EXCEPT !.pc = p, !.sector = 0, !.crc = FALSE] \in Caller
    BY <1>3, Zenon DEF Caller, Pcs
  <2> QED BY <2>1, Zenon DEF Caller, SameChunk
<1>6. th' = Put(th, c, u)
  <2>1. th \in [Callers -> Caller]
    BY DEF IdeInv, IdeTypes
  <2>2. th' = [th EXCEPT ![c].pc = p, ![c].sector = 0, ![c].crc = FALSE]
    BY <1>1, <1>3 DEF StartTry
  <2> QED BY <1>1, <1>5, <2>1, <2>2, Zenon DEF Put
<1>7. ChunkOf(u) = k /\ \A m, i : Carried(u, m, i) <=> Carried(t, m, i)
  BY <1>2, <1>5, SameChunkFacts, Zenon
<1>8. Placed(t, moved[c]) /\ bm[BusOf[c]] = "stopped"
  BY <1>1, CallerFacts, Zenon DEF OnDma
<1>9. Placed(u, moved[c])
  BY <1>1, <1>2, <1>3, <1>5, <1>7, <1>8 DEF Placed, SameChunk
<1>10. OnPio(u, moved[c], d)
  <2>1. Carried(u, moved[c], 0)
    BY <1>7, <1>8 DEF Placed
  <2>2. t.lba + t.done + 0 = t.lba + t.done /\ k - 0 = k /\ 0 < k /\ t.lba \in Nat /\ t.done \in Nat
    BY <1>1 DEF Caller
  <2> QED BY <1>4, <1>5, <1>7, <2>1, <2>2 DEF OnPio, SameChunk
<1>11. \E s, x : /\ bm' = Put(bm, BusOf[c], s) /\ xfer' = Put(xfer, BusOf[c], x) /\ s \in Busmaster
                 /\ OnDma(c, u, moved[c], d, s, x, bounce[BusOf[c]])
  <2>1. CASE t.can_dma
    <3>1. u.pc = "irq" /\ u.can_dma
      BY <1>3, <1>5, <2>1
    <3>2. PICK x : x = [who |-> c, off |-> t.done, len |-> k, read |-> t.op = "read"]
      BY Zenon
    <3>3. bm' = Put(bm, BusOf[c], "active") /\ xfer' = Put(xfer, BusOf[c], x)
      BY <1>1, <1>2, <2>1, <3>2 DEF StartTry, atadisk_op_dma_init_transfer, Put
    <3>4. OnDma(c, u, moved[c], d, "active", x, bounce[BusOf[c]])
      BY <1>4, <1>5, <1>7, <3>1, <3>2 DEF OnDma, SameChunk
    <3> QED BY <3>3, <3>4 DEF Busmaster
  <2>2. CASE ~t.can_dma
    <3>1. bm' = Put(bm, BusOf[c], bm[BusOf[c]]) /\ xfer' = Put(xfer, BusOf[c], xfer[BusOf[c]])
      BY <1>1, <2>2, Untouched DEF StartTry
    <3>2. OnDma(c, u, moved[c], d, bm[BusOf[c]], xfer[BusOf[c]], bounce[BusOf[c]])
      BY <1>5, <1>8, <2>2 DEF OnDma
    <3> QED BY <3>1, <3>2, CallerFacts
  <2> QED BY <2>1, <2>2
<1>12. PICK s, x : /\ bm' = Put(bm, BusOf[c], s) /\ xfer' = Put(xfer, BusOf[c], x) /\ s \in Busmaster
                   /\ OnDma(c, u, moved[c], d, s, x, bounce[BusOf[c]])
  BY <1>11
<1>13. Good(c, u, moved[c], d, s, x, bounce[BusOf[c]])
  BY <1>9, <1>10, <1>12 DEF Good
<1>14. DmaSession(u) <=> DmaSession(th[c])
  BY <1>1, <1>3, <1>5 DEF DmaSession
<1>15. UNCHANGED <<bus_lock_flag, dma_lock_flag, got_irq, pending, bounce, moved>>
  BY DEF StartTry, busVars
<1>16. /\ moved' = Put(moved, c, moved[c]) /\ bounce' = Put(bounce, BusOf[c], bounce[BusOf[c]])
       /\ bus_lock_flag' \in [Buses -> BOOLEAN] /\ got_irq' \in [Buses -> BOOLEAN]
       /\ pending' \in [Buses -> BOOLEAN] /\ dma_lock_flag' \in BOOLEAN /\ dma_lock_flag' = dma_lock_flag
  BY <1>15, Untouched
<1> QED BY <1>4, <1>6, <1>12, <1>13, <1>14, <1>16, IdeStep, Zenon

\* The end of a chunk, once all its sectors are carried.
Finished(t) == [t EXCEPT !.done = t.done + ChunkOf(t), !.try = 0,
                         !.pc = IF t.done + ChunkOf(t) = t.n THEN "end" ELSE "try"]

\* A command that carried its whole chunk can be counted as done.
LEMMA FinishedGood ==
  ASSUME MaxSectors \in Nat \ {0}, MaxRetries \in Nat, NEW t \in Caller, t.done < t.n,
         t.pc \notin {"idle", "lock", "session", "unlock"},
         NEW m, \A i \in DOMAIN m : i \in Nat /\ i < t.done + ChunkOf(t), Carried(t, m, ChunkOf(t)),
         NEW c, NEW d \in Command, NEW x, NEW y
  PROVE  Good(c, Finished(t), m, d, "stopped", x, y) /\ (DmaSession(Finished(t)) <=> DmaSession(t))
<1>1. t.n \in Nat /\ t.done \in Nat /\ t.lba \in Nat
  BY DEF Caller
<1>2. PICK k \in Nat : k = ChunkOf(t) /\ k > 0 /\ t.done + k <= t.n
  <2>1. ChunkOf(t) \in Nat /\ ChunkOf(t) > 0 /\ t.done + ChunkOf(t) <= t.n
    BY <1>1 DEF ChunkOf
  <2> QED BY <2>1
<1>3. PICK e \in Nat : e = t.done + k /\ e <= t.n
  BY <1>1, <1>2
<1>4. PICK p \in {"end", "try"} : p = IF e = t.n THEN "end" ELSE "try"
  OBVIOUS
<1>5. PICK u \in Caller : /\ u = Finished(t) /\ u.pc = p /\ u.done = e /\ u.try = 0 /\ u.n = t.n /\ u.lba = t.lba
                          /\ u.can_dma = t.can_dma
  <2>1. Finished(t) = [t EXCEPT !.done = e, !.try = 0, !.pc = p]
    BY <1>2, <1>3, <1>4 DEF Finished
  <2>2. [t EXCEPT !.done = e, !.try = 0, !.pc = p] \in Caller
    BY <1>3, <1>4, Zenon DEF Caller, Pcs
  <2> QED BY <2>1, <2>2, Zenon DEF Caller
<1>6. Placed(u, m)
  <2>1. \A i \in DOMAIN m : i \in Nat /\ i < u.done + ChunkOf(u)
    <3>1. ChunkOf(u) \in Nat /\ e <= e + ChunkOf(u)
      BY <1>1, <1>3, <1>5 DEF ChunkOf
    <3>2. \A i \in DOMAIN m : i \in Nat /\ i < e
      BY <1>2, <1>3
    <3> QED BY <1>3, <1>5, <3>1, <3>2
  <2>2. Carried(u, m, 0)
    <3>1. \A i \in 0..(e - 1) : i \in DOMAIN m /\ m[i] = t.lba + i
      <4>1. \A i \in 0..(t.done + k - 1) : i \in DOMAIN m /\ m[i] = t.lba + i
        BY <1>2 DEF Carried
      <4>2. e - 1 = t.done + k - 1
        BY <1>1, <1>2, <1>3
      <4> QED BY <4>1, <4>2
    <3>2. e + 0 - 1 = e - 1
      BY <1>3
    <3> QED BY <1>5, <3>1, <3>2 DEF Carried
  <2>3. u.pc = "try" => u.done < u.n
    BY <1>1, <1>3, <1>4, <1>5
  <2>4. u.pc = "end" => u.done = u.n
    BY <1>1, <1>3, <1>4, <1>5
  <2> QED BY <1>3, <1>4, <1>5, <2>1, <2>2, <2>3, <2>4 DEF Placed
<1>7. OnPio(u, m, d) /\ OnDma(c, u, m, d, "stopped", x, y)
  BY <1>4, <1>5 DEF OnPio, OnDma
<1>8. DmaSession(u) <=> DmaSession(t)
  BY <1>4, <1>5 DEF DmaSession
<1> QED BY <1>5, <1>6, <1>7, <1>8 DEF Good, Busmaster

\* The sector of byte i of the buffer.
LEMMA SectorAt ==
  ASSUME NEW lba \in Nat, NEW done \in Nat, NEW i \in Nat
  PROVE  lba + done + (i - done + 1) - 1 = lba + i
OBVIOUS

\* dma_end_transfer in a session that has DMA, at the buffer it was set up with.
Copied(t, m, y, k) ==
  LET r == t.done .. t.done + k - 1
  IN  [i \in DOMAIN m \cup r |-> IF i \in r THEN y[i - t.done + 1] ELSE m[i]]

\* Copying the DMA buffer completes the chunk.
LEMMA BounceCopied ==
  ASSUME NEW t \in Caller, MaxSectors \in Nat \ {0}, t.done < t.n, NEW m, NEW y, NEW k, k = ChunkOf(t),
         \A i \in DOMAIN m : i \in Nat /\ i < t.done + k, Carried(t, m, 0),
         \A i \in 1..k : y[i] = t.lba + t.done + i - 1
  PROVE  Carried(t, Copied(t, m, y, k), k) /\ \A i \in DOMAIN Copied(t, m, y, k) : i \in Nat /\ i < t.done + k
<1> DEFINE r == t.done .. t.done + k - 1
<1>0. PICK w : w = Copied(t, m, y, k) /\ w = [i \in DOMAIN m \cup r |-> IF i \in r THEN y[i - t.done + 1] ELSE m[i]]
  BY Zenon DEF Copied
<1>1. t.n \in Nat /\ t.done \in Nat /\ t.lba \in Nat /\ k \in Nat
  BY DEF Caller, ChunkOf
<1>2. DOMAIN w = DOMAIN m \cup r
  BY <1>0
<1>3. \A i \in r : i \in Nat /\ i < t.done + k
  BY <1>1
<1>4. \A i \in r : w[i] = t.lba + i
  <2> SUFFICES ASSUME NEW i \in r PROVE w[i] = t.lba + i
    OBVIOUS
  <2>1. i \in Nat /\ i >= t.done /\ i <= t.done + k - 1
    BY <1>1
  <2>2. PICK j \in 1..k : j = i - t.done + 1
    <3>1. i - t.done + 1 \in 1..k
      BY <1>1, <2>1
    <3> QED BY <3>1
  <2>3. t.lba + t.done + j - 1 = t.lba + i
    BY <1>1, <2>1, <2>2, SectorAt
  <2>4. i \in DOMAIN w /\ w[i] = y[j]
    BY <1>0, <1>2, <2>2
  <2> QED BY <2>2, <2>3, <2>4
<1>5. \A i \in 0..(t.done + k - 1) : i \notin r => i \in 0..(t.done + 0 - 1)
  BY <1>1
<1>6. \A i \in 0..(t.done + 0 - 1) : i \in DOMAIN m /\ m[i] = t.lba + i
  BY DEF Carried
<1>7. \A i \in 0..(t.done + k - 1) : i \in DOMAIN w /\ w[i] = t.lba + i
  BY <1>0, <1>2, <1>4, <1>5, <1>6, Zenon
<1> QED BY <1>0, <1>2, <1>3, <1>7 DEF Carried

\* A DMA read ends only when the bus master is done, and takes its sectors over.
LEMMA ReadDmaInv ==
  ASSUME IdeInv, OneCallerPerBus, IdeAssumption, NEW c \in Callers, try_read_dma(c)
  PROVE  IdeInv'
<1>1. PICK t \in Caller : t = th[c] /\ t.pc = "seen" /\ t.can_dma /\ t.op = "read"
  BY CallerFacts DEF try_read_dma
<1>2. Placed(t, moved[c]) /\ OnDma(c, t, moved[c], dev[BusOf[c]], bm[BusOf[c]], xfer[BusOf[c]], bounce[BusOf[c]])
  BY <1>1, CallerFacts
<1>3. PICK s \in Busmaster : s = bm[BusOf[c]] /\ s # "stopped"
  BY <1>1, <1>2, CallerFacts DEF OnDma
<1>4. PICK status : status = atadisk_op_dma_check_transfer(BusOf[c])
  OBVIOUS
<1>5. status = "success" <=> s = "complete"
  BY <1>3, <1>4 DEF atadisk_op_dma_check_transfer, Busmaster
<1>6. UNCHANGED <<bus_lock_flag, dma_lock_flag, got_irq, pending, xfer, bounce, dev>>
  BY DEF try_read_dma, busVars
<1>7. /\ dev' = Put(dev, BusOf[c], dev[BusOf[c]]) /\ xfer' = Put(xfer, BusOf[c], xfer[BusOf[c]])
      /\ bounce' = Put(bounce, BusOf[c], bounce[BusOf[c]])
      /\ bus_lock_flag' \in [Buses -> BOOLEAN] /\ got_irq' \in [Buses -> BOOLEAN]
      /\ pending' \in [Buses -> BOOLEAN] /\ dma_lock_flag' \in BOOLEAN /\ dma_lock_flag' = dma_lock_flag
  BY <1>6, Untouched
<1>8. CASE status # "success"
  <2>1. PICK p \in {"irq", "failed"} : th' = Put(th, c, At(th[c], p)) /\ UNCHANGED <<bm, moved>>
    BY <1>4, <1>8 DEF try_read_dma, Put, At
  <2>2. p \in Pcs
    BY <2>1 DEF Pcs
  <2> QED BY <1>1, <1>6, <1>7, <2>1, <2>2, MoveInv DEF Moves
<1>9. CASE status = "success"
  <2>1. PICK k : k = ChunkOf(t) /\ k = Chunk(c)
    BY <1>1 DEF ChunkOf, Chunk
  <2>2. /\ xfer[BusOf[c]] = [who |-> c, off |-> t.done, len |-> k, read |-> TRUE]
        /\ \A i \in 1..k : bounce[BusOf[c]][i] = t.lba + t.done + i - 1
    BY <1>1, <1>2, <1>3, <1>5, <1>9, <2>1, Zenon DEF OnDma
  <2>3. PICK r : r = t.done .. t.done + k - 1
    OBVIOUS
  <2>4. PICK w : /\ w = Copied(t, moved[c], bounce[BusOf[c]], k)
                 /\ w = [i \in DOMAIN moved[c] \cup r |-> IF i \in r THEN bounce[BusOf[c]][i - t.done + 1] ELSE moved[c][i]]
    BY <2>3, Zenon DEF Copied
  <2>5. moved' = Put(moved, c, w) /\ bm' = Put(bm, BusOf[c], "stopped")
    <3>1. atadisk_op_dma_end_transfer(BusOf[c])
      BY <1>4, <1>9 DEF try_read_dma
    <3>2. PICK x : x = xfer[BusOf[c]] /\ x.who = c /\ x.off = t.done /\ x.len = k /\ x.read
      BY <2>2
    <3>3. r = x.off .. x.off + x.len - 1
      BY <2>3, <3>2
    <3>4. /\ bm' = Put(bm, BusOf[c], "stopped")
          /\ moved' = [moved EXCEPT ![c] = [i \in DOMAIN moved[c] \cup r |->
                           IF i \in r THEN bounce[BusOf[c]][i - t.done + 1] ELSE moved[c][i]]]
      BY <3>1, <3>2, <3>3, Untouched DEF atadisk_op_dma_end_transfer, Put
    <3> QED BY <2>4, <3>4 DEF Put
  <2>6. th' = Put(th, c, Finished(t))
    <3>1. th' = [th EXCEPT ![c] = ChunkDone(c, th[c])] /\ th[c] = t
      BY <1>1, <1>4, <1>9 DEF try_read_dma
    <3>2. ChunkDone(c, t) = Finished(t)
      BY <1>1, <2>1 DEF ChunkDone, Finished
    <3> QED BY <3>1, <3>2 DEF Put
  <2>7. t.done < t.n /\ Carried(t, moved[c], 0) /\ \A i \in DOMAIN moved[c] : i \in Nat /\ i < t.done + k
    BY <1>1, <1>2, <2>1 DEF Placed
  <2>8. Carried(t, w, k) /\ \A i \in DOMAIN w : i \in Nat /\ i < t.done + k
    <3>1. MaxSectors \in Nat \ {0}
      BY CallerFacts
    <3>2. w = Copied(t, moved[c], bounce[BusOf[c]], k)
      BY <2>4
    <3> QED BY <2>1, <2>2, <2>7, <3>1, <3>2, BounceCopied, Zenon
  <2>9. /\ Good(c, Finished(t), w, dev[BusOf[c]], "stopped", xfer[BusOf[c]], bounce[BusOf[c]])
        /\ (DmaSession(Finished(t)) <=> DmaSession(th[c]))
    BY <1>1, <2>1, <2>7, <2>8, FinishedGood, CallerFacts, Zenon
  <2> QED BY <1>7, <2>5, <2>6, <2>9, IdeStep
<1> QED BY <1>8, <1>9

\* What the invariant says of a caller does not depend on its crc flag.
LEMMA CrcGood ==
  ASSUME NEW c, NEW t, NEW m, NEW d, NEW s, NEW x, NEW y, Good(c, t, m, d, s, x, y), NEW v \in BOOLEAN,
         NEW w, w = [t EXCEPT !.crc = v]
  PROVE  Good(c, w, m, d, s, x, y) /\ w.pc = t.pc /\ w.can_dma = t.can_dma /\ w \in Caller
<1>1. t \in Caller /\ Placed(t, m) /\ OnPio(t, m, d) /\ OnDma(c, t, m, d, s, x, y)
  BY DEF Good
<1>2. w \in Caller
  BY <1>1 DEF Caller
<1>3. /\ w.pc = t.pc /\ w.try = t.try /\ w.sector = t.sector /\ w.can_dma = t.can_dma /\ w.failed = t.failed
      /\ w.op = t.op /\ w.lba = t.lba /\ w.n = t.n /\ w.done = t.done
  BY <1>1 DEF Caller
<1>4. ChunkOf(w) = ChunkOf(t) /\ \A n, k : Carried(w, n, k) <=> Carried(t, n, k)
  BY <1>3, SameChunkFacts, Zenon DEF SameChunk
<1>5. Placed(w, m)
  BY <1>1, <1>3, <1>4 DEF Placed
<1>6. OnPio(w, m, d)
  BY <1>1, <1>3, <1>4 DEF OnPio
<1>7. OnDma(c, w, m, d, s, x, y)
  BY <1>1, <1>3, <1>4 DEF OnDma
<1> QED BY <1>2, <1>3, <1>5, <1>6, <1>7 DEF Good

\* A DMA write goes on to the flush only when the bus master is done.
LEMMA WriteDmaInv ==
  ASSUME IdeInv, OneCallerPerBus, IdeAssumption, NEW c \in Callers, try_write_dma(c)
  PROVE  IdeInv'
<1>1. PICK t \in Caller : t = th[c] /\ t.pc = "seen" /\ t.can_dma /\ t.op = "write"
  BY CallerFacts DEF try_write_dma
<1>2. /\ Placed(t, moved[c])
      /\ OnDma(c, t, moved[c], dev[BusOf[c]], bm[BusOf[c]], xfer[BusOf[c]], bounce[BusOf[c]])
      /\ Good(c, t, moved[c], dev[BusOf[c]], bm[BusOf[c]], xfer[BusOf[c]], bounce[BusOf[c]])
  BY <1>1, CallerFacts DEF Good
<1>3. PICK s \in Busmaster : s = bm[BusOf[c]] /\ s # "stopped"
  BY <1>1, <1>2, CallerFacts, Zenon DEF OnDma
<1>4. PICK status : status = atadisk_op_dma_check_transfer(BusOf[c])
  OBVIOUS
<1>5. status = "success" <=> s = "complete"
  BY <1>3, <1>4 DEF atadisk_op_dma_check_transfer, Busmaster
<1>6. UNCHANGED <<bus_lock_flag, dma_lock_flag, got_irq, pending, xfer, bounce, dev>>
  BY DEF try_write_dma, busVars
<1>7. /\ dev' = Put(dev, BusOf[c], dev[BusOf[c]]) /\ xfer' = Put(xfer, BusOf[c], xfer[BusOf[c]])
      /\ bounce' = Put(bounce, BusOf[c], bounce[BusOf[c]])
      /\ bus_lock_flag' \in [Buses -> BOOLEAN] /\ got_irq' \in [Buses -> BOOLEAN]
      /\ pending' \in [Buses -> BOOLEAN] /\ dma_lock_flag' \in BOOLEAN /\ dma_lock_flag' = dma_lock_flag
  BY <1>6, Untouched
<1>8. CASE status # "success"
  <2>1. PICK p \in {"irq", "failed"}, v \in BOOLEAN :
          th' = [th EXCEPT ![c].pc = p, ![c].crc = v] /\ UNCHANGED <<bm, moved>>
    BY <1>4, <1>8, Zenon DEF try_write_dma
  <2>2. PICK w : w = [t EXCEPT !.crc = v]
    BY Zenon
  <2>3. /\ Good(c, w, moved[c], dev[BusOf[c]], bm[BusOf[c]], xfer[BusOf[c]], bounce[BusOf[c]])
        /\ w.pc = "seen" /\ w.can_dma /\ w \in Caller
    BY <1>1, <1>2, <2>1, <2>2, CrcGood
  <2>4. p \in Pcs
    BY <2>1 DEF Pcs
  <2>5. Good(c, At(w, p), moved[c], dev[BusOf[c]], bm[BusOf[c]], xfer[BusOf[c]], bounce[BusOf[c]])
    BY <2>1, <2>3, <2>4, MoveGood, CallerFacts DEF Moves
  <2>6. th' = Put(th, c, At(w, p))
    <3>1. th \in [Callers -> Caller]
      BY DEF IdeInv, IdeTypes
    <3> QED BY <1>1, <2>1, <2>2, <3>1, Zenon DEF Put, At, Caller
  <2>7. DmaSession(At(w, p)) <=> DmaSession(th[c])
    BY <1>1, <2>1, <2>3, <2>4, AtFacts DEF DmaSession
  <2>8. bm' = Put(bm, BusOf[c], bm[BusOf[c]]) /\ moved' = Put(moved, c, moved[c])
    BY <2>1, Untouched
  <2> QED BY <1>7, <2>5, <2>6, <2>7, <2>8, IdeStep
<1>9. CASE status = "success"
  <2>1. ~xfer[BusOf[c]].read /\ Carried(t, moved[c], ChunkOf(t))
    <3>1. xfer[BusOf[c]] = [who |-> c, off |-> t.done, len |-> ChunkOf(t), read |-> t.op = "read"]
      BY <1>2, <1>3 DEF OnDma
    <3>2. Carried(t, moved[c], ChunkOf(t))
      BY <1>1, <1>2, <1>3, <1>5, <1>9 DEF OnDma
    <3>3. (t.op = "read") = FALSE
      BY <1>1
    <3>4. xfer[BusOf[c]] = [who |-> c, off |-> t.done, len |-> ChunkOf(t), read |-> FALSE]
      BY <3>1, <3>3, Zenon
    <3>5. ~xfer[BusOf[c]].read
      BY <3>4
    <3> QED BY <3>2, <3>5
  <2>2. bm' = Put(bm, BusOf[c], "stopped") /\ moved' = moved
    <3>1. atadisk_op_dma_end_transfer(BusOf[c])
      BY <1>4, <1>9 DEF try_write_dma
    <3> QED BY <2>1, <3>1 DEF atadisk_op_dma_end_transfer, Put
  <2>3. th' = Put(th, c, At(t, "settle"))
    BY <1>1, <1>4, <1>9 DEF try_write_dma, Put, At
  <2>4. moved' = Put(moved, c, moved[c])
    BY <2>2, Untouched
  <2>5. Good(c, At(t, "settle"), moved[c], dev[BusOf[c]], "stopped", xfer[BusOf[c]], bounce[BusOf[c]])
    <3>1. "settle" \in Pcs /\ "stopped" \in Busmaster
      BY DEF Pcs, Busmaster
    <3>2. Placed(At(t, "settle"), moved[c])
      BY <1>1, <1>2, <2>1, <3>1, AtFacts DEF Placed
    <3>3. /\ OnPio(At(t, "settle"), moved[c], dev[BusOf[c]])
          /\ OnDma(c, At(t, "settle"), moved[c], dev[BusOf[c]], "stopped", xfer[BusOf[c]], bounce[BusOf[c]])
      BY <3>1, AtFacts DEF OnPio, OnDma
    <3> QED BY <3>1, <3>2, <3>3, AtFacts, CallerFacts DEF Good
  <2>6. DmaSession(At(t, "settle")) <=> DmaSession(th[c])
    BY <1>1, AtFacts DEF DmaSession, Pcs
  <2> QED BY <1>7, <2>2, <2>3, <2>4, <2>5, <2>6, IdeStep
<1> QED BY <1>8, <1>9

\* A failed try ends the DMA transfer before another begins.
LEMMA TryFailedInv ==
  ASSUME IdeInv, OneCallerPerBus, IdeAssumption, NEW c \in Callers, TryFailed(c)
  PROVE  IdeInv'
<1>1. PICK t \in Caller : t = th[c] /\ t.pc = "failed" /\ Placed(t, moved[c])
  BY CallerFacts DEF TryFailed
<1>2. bm' = Put(bm, BusOf[c], "stopped")
  <2>1. ~t.can_dma => bm[BusOf[c]] = "stopped"
    BY <1>1, CallerFacts, Zenon DEF OnDma
  <2>2. CASE t.can_dma
    BY <1>1, <2>2 DEF TryFailed, Put
  <2>3. CASE ~t.can_dma
    <3>1. bm' = bm
      BY <1>1, <2>3 DEF TryFailed
    <3> QED BY <2>1, <2>3, <3>1, Untouched
  <2> QED BY <2>2, <2>3
<1>3. PICK d \in Command : dev' = Put(dev, BusOf[c], d)
  <2>1. dev' = Put(dev, BusOf[c], Idle) \/ dev' = dev
    BY <1>1 DEF TryFailed, Put
  <2>2. Idle \in Command
    BY DEF Idle, NoOne, Command
  <2> QED BY <2>1, <2>2, Untouched, CallerFacts
<1>4. PICK u \in Caller : /\ th' = Put(th, c, u) /\ u.can_dma = t.can_dma /\ SameChunk(u, t) /\ u.try <= MaxRetries
                          /\ u.pc = "try" \/ (u.pc = "end" /\ u.failed)
  <2>1. th \in [Callers -> Caller]
    BY DEF IdeInv, IdeTypes
  <2>2. CASE t.try = MaxRetries
    <3>1. PICK u : u = [t EXCEPT !.pc = "end", !.failed = TRUE]
      OBVIOUS
    <3>2. u \in Caller
      BY <3>1, Zenon DEF Caller, Pcs
    <3>3. u.can_dma = t.can_dma /\ SameChunk(u, t) /\ u.try = t.try /\ u.pc = "end" /\ u.failed
      BY <3>1 DEF Caller, SameChunk
    <3>4. th' = Put(th, c, u)
      BY <1>1, <2>1, <2>2, <3>1, Zenon DEF TryFailed, Put
    <3>5. u.try <= MaxRetries
      BY <1>1, <3>3 DEF Placed
    <3> QED BY <3>2, <3>3, <3>4, <3>5
  <2>3. CASE t.try # MaxRetries
    <3>1. t.try + 1 \in Nat /\ t.try + 1 <= MaxRetries
      <4>1. t.try \in Nat /\ MaxRetries \in Nat /\ t.try <= MaxRetries
        BY <1>1, CallerFacts DEF Caller, Placed
      <4> QED BY <2>3, <4>1
    <3>2. PICK u : u = [t EXCEPT !.pc = "try", !.try = @ + 1]
      OBVIOUS
    <3>3. u \in Caller
      BY <3>1, <3>2, Zenon DEF Caller, Pcs
    <3>4. u.can_dma = t.can_dma /\ SameChunk(u, t) /\ u.try = t.try + 1 /\ u.pc = "try"
      BY <3>2 DEF Caller, SameChunk
    <3>5. th' = Put(th, c, u)
      BY <1>1, <2>1, <2>3, <3>2, Zenon DEF TryFailed, Put
    <3> QED BY <3>1, <3>3, <3>4, <3>5
  <2> QED BY <2>2, <2>3
<1>5. Good(c, u, moved[c], d, "stopped", xfer[BusOf[c]], bounce[BusOf[c]])
  <2>1. ChunkOf(u) = ChunkOf(t) /\ \A m, k : Carried(u, m, k) <=> Carried(t, m, k)
    BY <1>4, SameChunkFacts
  <2>2. Placed(u, moved[c])
    BY <1>1, <1>4, <2>1 DEF Placed, SameChunk
  <2>3. OnPio(u, moved[c], d) /\ OnDma(c, u, moved[c], d, "stopped", xfer[BusOf[c]], bounce[BusOf[c]])
    BY <1>4 DEF OnPio, OnDma
  <2> QED BY <1>4, <2>2, <2>3 DEF Good, Busmaster
<1>6. DmaSession(u) <=> DmaSession(th[c])
  BY <1>1, <1>4 DEF DmaSession
<1>7. UNCHANGED <<bus_lock_flag, dma_lock_flag, got_irq, pending, xfer, bounce, moved>>
  BY DEF TryFailed, busVars
<1>8. /\ moved' = Put(moved, c, moved[c]) /\ xfer' = Put(xfer, BusOf[c], xfer[BusOf[c]])
      /\ bounce' = Put(bounce, BusOf[c], bounce[BusOf[c]])
      /\ bus_lock_flag' \in [Buses -> BOOLEAN] /\ got_irq' \in [Buses -> BOOLEAN]
      /\ pending' \in [Buses -> BOOLEAN] /\ dma_lock_flag' \in BOOLEAN /\ dma_lock_flag' = dma_lock_flag
  BY <1>7, Untouched
<1> QED BY <1>2, <1>3, <1>4, <1>5, <1>6, <1>8, IdeStep

\* One more sector of the chunk carried.
Advanced(t) == [t EXCEPT !.pc = "irq", !.sector = t.sector + 1]
Extended(m, at, v) == [i \in DOMAIN m \cup {at} |-> IF i = at THEN v ELSE m[i]]

\* One more sector by programmed transfer.
LEMMA CarryFacts ==
  ASSUME NEW t \in Caller, NEW m, NEW j \in Nat, j < ChunkOf(t), ChunkOf(t) \in Nat,
         \A i \in DOMAIN m : i \in Nat /\ i < t.done + ChunkOf(t), Carried(t, m, j),
         NEW at, at = t.done + j, NEW v, v = t.lba + t.done + j
  PROVE  /\ Carried(t, Extended(m, at, v), j + 1)
         /\ \A i \in DOMAIN Extended(m, at, v) : i \in Nat /\ i < t.done + ChunkOf(t)
<1>1. t.done \in Nat /\ t.lba \in Nat
  BY DEF Caller
<1>2. PICK w : w = Extended(m, at, v)
  OBVIOUS
<1> HIDE DEF Extended
<1>2a. DOMAIN w = DOMAIN m \cup {at} /\ w[at] = v /\ \A i \in DOMAIN m : i # at => w[i] = m[i]
  BY <1>2 DEF Extended
<1>3. at \in Nat /\ at < t.done + ChunkOf(t) /\ v = t.lba + at
  BY <1>1
<1>4. \A i \in 0..(t.done + (j + 1) - 1) : i # at => i \in 0..(t.done + j - 1)
  BY <1>1
<1>5. \A i \in 0..(t.done + j - 1) : i \in DOMAIN m /\ m[i] = t.lba + i
  BY DEF Carried
<1>6. \A i \in 0..(t.done + (j + 1) - 1) : i \in DOMAIN w /\ w[i] = t.lba + i
  BY <1>2a, <1>3, <1>4, <1>5
<1> QED BY <1>2, <1>2a, <1>3, <1>6 DEF Carried

\* A sector by PIO: the drive is at the position the caller is at.
LEMMA PioInv ==
  ASSUME IdeInv, OneCallerPerBus, IdeAssumption, NEW c \in Callers, try_read_pio(c) \/ try_write_pio(c)
  PROVE  IdeInv'
<1>1. PICK t \in Caller : t = th[c] /\ t.pc = "drq" /\ ~t.can_dma /\ t.done < t.n
  BY CallerFacts DEF try_read_pio, try_write_pio, Placed
<1>2. PICK d \in Command : d = dev[BusOf[c]]
  BY CallerFacts
<1>3. PICK m : m = moved[c] /\ Placed(t, m) /\ OnPio(t, m, d)
  BY <1>1, <1>2, CallerFacts
<1>4. UNCHANGED <<bus_lock_flag, dma_lock_flag, got_irq, pending, bm, xfer, bounce>>
  BY DEF try_read_pio, try_write_pio, busVars, dmaVars
<1>5. /\ bm' = Put(bm, BusOf[c], bm[BusOf[c]]) /\ xfer' = Put(xfer, BusOf[c], xfer[BusOf[c]])
      /\ bounce' = Put(bounce, BusOf[c], bounce[BusOf[c]])
      /\ bus_lock_flag' \in [Buses -> BOOLEAN] /\ got_irq' \in [Buses -> BOOLEAN]
      /\ pending' \in [Buses -> BOOLEAN] /\ dma_lock_flag' \in BOOLEAN /\ dma_lock_flag' = dma_lock_flag
  BY <1>4, Untouched
<1>6. CASE wait_drq_set_failed(c)
  <2>1. th' = Put(th, c, At(th[c], "failed")) /\ UNCHANGED <<moved, dev>>
    BY <1>6 DEF wait_drq_set_failed, Put, At
  <2>2. "failed" \in Pcs
    BY DEF Pcs
  <2> QED BY <1>1, <1>4, <1>5, <2>1, <2>2, MoveInv DEF Moves
<1>7. CASE ~wait_drq_set_failed(c)
  <2>1. PICK k \in Nat : k = ChunkOf(t) /\ k = Chunk(c)
    <3>1. t.n \in Nat /\ t.done \in Nat /\ MaxSectors \in Nat
      BY <1>1, CallerFacts DEF Caller
    <3>2. ChunkOf(t) \in Nat
      BY <1>1, <3>1 DEF ChunkOf
    <3> QED BY <1>1, <3>2 DEF ChunkOf, Chunk
  <2>2. PICK j \in Nat : j = t.sector
    BY <1>1 DEF Caller
  <2>3. d.st = "drq" /\ Carry(c)
    BY <1>2, <1>7 DEF try_read_pio, try_write_pio
  <2>4. /\ d.cmd = t.op /\ d.lba = t.lba + t.done + j /\ d.left = k - j /\ j < k /\ Carried(t, m, j)
        /\ d.lba \in Nat /\ d.left \in Nat /\ t.lba \in Nat /\ t.done \in Nat
    <3>1. d.left > 0 /\ d.left \in Nat /\ d.lba \in Nat /\ t.lba \in Nat /\ t.done \in Nat
      BY <1>1, <1>3, <2>3 DEF OnPio, Command, Caller
    <3>2. d.cmd = t.op /\ d.lba = t.lba + t.done + j /\ d.left = k - j /\ Carried(t, m, j)
      BY <1>1, <1>3, <2>1, <2>2 DEF OnPio
    <3>3. j < k
      BY <3>1, <3>2
    <3> QED BY <3>1, <3>2, <3>3
  <2>5. PICK w : w = Extended(m, t.done + j, d.lba)
    OBVIOUS
  <2>6. moved' = Put(moved, c, w)
    BY <1>1, <1>2, <1>3, <2>2, <2>3, <2>5, Untouched DEF Carry, Extended, Put
  <2>7. Carried(t, w, j + 1) /\ \A i \in DOMAIN w : i \in Nat /\ i < t.done + k
    <3>1. \A i \in DOMAIN m : i \in Nat /\ i < t.done + k
      BY <1>3, <2>1 DEF Placed
    <3> QED BY <2>1, <2>4, <2>5, <3>1, CarryFacts, Zenon
  <2>8. PICK e : e = NextSector(d)
    OBVIOUS
  <2>9. e \in Command /\ e.st = "busy" /\ e.cmd = t.op /\ e.lba = t.lba + t.done + (j + 1) /\ e.left = k - (j + 1)
    <3>1. d.left - 1 \in Nat /\ d.lba + 1 \in Nat
      BY <2>4
    <3>2. e \in Command /\ e.st = "busy" /\ e.cmd = t.op /\ e.lba = d.lba + 1 /\ e.left = d.left - 1
      BY <2>4, <2>8, <3>1, Zenon DEF Command, NextSector
    <3>3. d.lba + 1 = t.lba + t.done + (j + 1) /\ d.left - 1 = k - (j + 1)
      BY <2>4
    <3> QED BY <3>2, <3>3
  <2>10. PICK u : u = Advanced(t)
    OBVIOUS
  <2>11. /\ u \in Caller /\ u.pc = "irq" /\ u.sector = j + 1 /\ ~u.can_dma /\ SameChunk(u, t)
         /\ u.try = t.try /\ u.failed = t.failed
    <3>1. j + 1 \in Nat
      OBVIOUS
    <3> QED BY <1>1, <2>2, <2>10, <3>1, Zenon DEF Caller, Pcs, SameChunk, Advanced
  <2>12. bm[BusOf[c]] = "stopped"
    BY <1>1, CallerFacts, Zenon DEF OnDma
  <2>13. t.op = "write" \/ j + 1 < k => Good(c, u, w, e, bm[BusOf[c]], xfer[BusOf[c]], bounce[BusOf[c]])
    <3>1. ChunkOf(u) = k /\ \A n, i : Carried(u, n, i) <=> Carried(t, n, i)
      BY <2>1, <2>11, SameChunkFacts, Zenon
    <3>2. Carried(u, w, j + 1) /\ Carried(u, w, 0)
      <4>1. \A i \in 0..(t.done + 0 - 1) : i \in 0..(t.done + (j + 1) - 1)
        BY <2>4
      <4>2. Carried(t, w, 0)
        BY <2>7, <4>1 DEF Carried
      <4> QED BY <2>7, <3>1, <4>2
    <3>3. Placed(u, w)
      BY <1>1, <1>3, <2>7, <2>11, <3>1, <3>2 DEF Placed, SameChunk
    <3>4. j + 1 <= k
      BY <2>4
    <3>5. t.op = "write" \/ j + 1 < k => OnPio(u, w, e)
      BY <2>9, <2>11, <3>1, <3>2, <3>4 DEF OnPio, SameChunk
    <3>6. OnDma(c, u, w, e, bm[BusOf[c]], xfer[BusOf[c]], bounce[BusOf[c]])
      BY <2>11, <2>12 DEF OnDma
    <3> QED BY <2>9, <2>11, <3>3, <3>5, <3>6, CallerFacts, Zenon DEF Good
  <2>14. DmaSession(u) <=> DmaSession(th[c])
    BY <1>1, <2>11 DEF DmaSession
  <2>15. th \in [Callers -> Caller]
    BY DEF IdeInv, IdeTypes
  <2>16. CASE try_write_pio(c)
    <3>1. th' = Put(th, c, u) /\ dev' = Put(dev, BusOf[c], e) /\ t.op = "write"
      <4>1. th' = [th EXCEPT ![c].pc = "irq", ![c].sector = @ + 1] /\ t.op = "write"
        BY <1>1, <1>7, <2>16 DEF try_write_pio
      <4>2. th' = Put(th, c, u)
        BY <1>1, <2>10, <2>15, <4>1, Zenon DEF Put, Advanced
      <4>3. dev' = Put(dev, BusOf[c], NextSector(dev[BusOf[c]]))
        BY <1>7, <2>16 DEF try_write_pio, Put
      <4> QED BY <1>2, <2>8, <4>1, <4>2, <4>3
    <3> QED BY <1>5, <2>6, <2>13, <2>14, <3>1, IdeStep
  <2>17. CASE try_read_pio(c) /\ j + 1 # k
    <3>1. th' = Put(th, c, u)
      <4>1. th' = Put(th, c, IF th[c].sector + 1 = Chunk(c) THEN ChunkDone(c, th[c]) ELSE Advanced(th[c]))
        BY <1>7, <2>17 DEF try_read_pio, Put, Advanced
      <4>2. th[c] = t /\ ~(t.sector + 1 = Chunk(c))
        BY <1>1, <2>1, <2>2, <2>17
      <4> QED BY <2>10, <4>1, <4>2
    <3>2. dev' = Put(dev, BusOf[c], e)
      <4>1. d.left # 1
        BY <2>4, <2>17
      <4>2. dev' = Put(dev, BusOf[c], IF dev[BusOf[c]].left = 1 THEN Idle ELSE NextSector(dev[BusOf[c]]))
        BY <1>7, <2>17 DEF try_read_pio, Put
      <4> QED BY <1>2, <2>8, <4>1, <4>2
    <3>3. j + 1 < k
      BY <2>4, <2>17
    <3> QED BY <1>5, <2>6, <2>13, <2>14, <3>1, <3>2, <3>3, IdeStep
  <2>18. CASE try_read_pio(c) /\ j + 1 = k
    <3>1. th' = Put(th, c, Finished(t))
      <4>1. th' = Put(th, c, ChunkDone(c, t))
        BY <1>1, <1>7, <2>1, <2>2, <2>15, <2>18 DEF try_read_pio, Put
      <4>2. ChunkDone(c, t) = Finished(t)
        BY <1>1, <2>1 DEF ChunkDone, Finished
      <4> QED BY <4>1, <4>2
    <3>2. dev' = Put(dev, BusOf[c], Idle)
      <4>1. d.left = 1
        BY <2>4, <2>18
      <4> QED BY <1>2, <1>7, <2>18, <4>1 DEF try_read_pio, Put
    <3>3. Idle \in Command
      BY DEF Idle, NoOne, Command
    <3>4. /\ Good(c, Finished(t), w, Idle, "stopped", xfer[BusOf[c]], bounce[BusOf[c]])
          /\ (DmaSession(Finished(t)) <=> DmaSession(t))
      BY <1>1, <2>1, <2>7, <2>18, <3>3, FinishedGood, CallerFacts, Zenon
    <3> QED BY <1>1, <1>5, <2>6, <2>12, <3>1, <3>2, <3>4, IdeStep
  <2> QED BY <2>16, <2>17, <2>18
<1> QED BY <1>6, <1>7

\* The end of a write: the chunk counts once the drive's cache is flushed.
LEMMA FinishWriteInv ==
  ASSUME IdeInv, OneCallerPerBus, IdeAssumption, NEW c \in Callers, FinishWrite(c)
  PROVE  IdeInv'
<1>1. PICK t \in Caller : t = th[c] /\ t.pc \in {"settle", "flush"}
  BY CallerFacts DEF FinishWrite
<1>2. PICK k : k = ChunkOf(t) /\ k = Chunk(c)
  BY <1>1 DEF ChunkOf, Chunk
<1>3. /\ Placed(t, moved[c]) /\ t.done < t.n /\ Carried(t, moved[c], k) /\ bm[BusOf[c]] = "stopped"
      /\ \A i \in DOMAIN moved[c] : i \in Nat /\ i < t.done + k
  BY <1>1, <1>2, CallerFacts, Zenon DEF Placed, OnDma
<1>4. UNCHANGED <<bus_lock_flag, dma_lock_flag, got_irq, pending, bm, xfer, bounce, moved>>
  BY DEF FinishWrite, busVars, dmaVars
<1>5. /\ bm' = Put(bm, BusOf[c], "stopped") /\ xfer' = Put(xfer, BusOf[c], xfer[BusOf[c]])
      /\ bounce' = Put(bounce, BusOf[c], bounce[BusOf[c]]) /\ moved' = Put(moved, c, moved[c])
      /\ bus_lock_flag' \in [Buses -> BOOLEAN] /\ got_irq' \in [Buses -> BOOLEAN]
      /\ pending' \in [Buses -> BOOLEAN] /\ dma_lock_flag' \in BOOLEAN /\ dma_lock_flag' = dma_lock_flag
  BY <1>3, <1>4, Untouched, Zenon
<1>6. CASE th' = Put(th, c, At(th[c], "failed")) /\ UNCHANGED dev
  <2>1. "failed" \in Pcs /\ th[c].pc \in {"drq", "settle", "flush"}
    BY <1>1, Zenon DEF Pcs
  <2> QED BY <1>4, <1>5, <1>6, <2>1, MoveInv, Zenon DEF Moves
<1>7. CASE /\ t.pc = "settle" /\ th' = Put(th, c, At(t, "flush"))
           /\ dev' = Put(dev, BusOf[c], [Idle EXCEPT !.st = "busy", !.cmd = "flush"])
  <2>1. PICK d \in Command : d = [Idle EXCEPT !.st = "busy", !.cmd = "flush"]
    <3>1. [Idle EXCEPT !.st = "busy", !.cmd = "flush"] \in Command
      BY Zenon DEF Idle, NoOne, Command
    <3> QED BY <3>1
  <2>2. "flush" \in Pcs /\ "stopped" \in Busmaster
    BY DEF Pcs, Busmaster
  <2>3. Placed(At(t, "flush"), moved[c])
    BY <1>1, <1>3, <1>7, <2>2, AtFacts DEF Placed
  <2>4. /\ OnPio(At(t, "flush"), moved[c], d)
        /\ OnDma(c, At(t, "flush"), moved[c], d, "stopped", xfer[BusOf[c]], bounce[BusOf[c]])
    BY <2>2, AtFacts, Zenon DEF OnPio, OnDma
  <2>5. Good(c, At(t, "flush"), moved[c], d, "stopped", xfer[BusOf[c]], bounce[BusOf[c]])
    BY <2>2, <2>3, <2>4, AtFacts, Zenon DEF Good
  <2>6. DmaSession(At(t, "flush")) <=> DmaSession(th[c])
    BY <1>1, <2>2, AtFacts DEF DmaSession
  <2>7. th' = Put(th, c, At(t, "flush")) /\ dev' = Put(dev, BusOf[c], d)
    BY <1>7, <2>1
  <2> QED BY <1>5, <2>5, <2>6, <2>7, IdeStep
<1>8. CASE th' = Put(th, c, ChunkDone(c, th[c])) /\ UNCHANGED dev
  <2>1. th' = Put(th, c, Finished(t))
    <3>1. ChunkDone(c, t) = Finished(t)
      BY <1>1, <1>2 DEF ChunkDone, Finished
    <3> QED BY <1>1, <1>8, <3>1
  <2>2. /\ Good(c, Finished(t), moved[c], dev[BusOf[c]], "stopped", xfer[BusOf[c]], bounce[BusOf[c]])
        /\ (DmaSession(Finished(t)) <=> DmaSession(th[c]))
    BY <1>1, <1>2, <1>3, FinishedGood, CallerFacts, Zenon
  <2>3. dev' = Put(dev, BusOf[c], dev[BusOf[c]])
    BY <1>8, Untouched
  <2> QED BY <1>5, <2>1, <2>2, <2>3, IdeStep, Zenon
<1>9. CASE t.pc = "settle"
  <2>1. CASE Busy(BusOf[c])
    <3>1. th' = Put(th, c, At(th[c], "failed")) /\ UNCHANGED dev
      BY <1>1, <1>9, <2>1 DEF FinishWrite, Put, At
    <3> QED BY <1>6, <3>1
  <2>2. CASE ~Busy(BusOf[c])
    <3>1. /\ th' = Put(th, c, At(t, "flush"))
          /\ dev' = Put(dev, BusOf[c], [Idle EXCEPT !.st = "busy", !.cmd = "flush"])
      BY <1>1, <1>9, <2>2 DEF FinishWrite, Put, At
    <3> QED BY <1>7, <1>9, <3>1
  <2> QED BY <2>1, <2>2
<1>10. CASE t.pc = "flush"
  <2>1. CASE Busy(BusOf[c])
    <3>1. th' = Put(th, c, At(th[c], "failed")) /\ UNCHANGED dev
      BY <1>1, <1>10, <2>1 DEF FinishWrite, Put, At
    <3> QED BY <1>6, <3>1
  <2>2. CASE ~Busy(BusOf[c])
    <3>1. th' = Put(th, c, ChunkDone(c, th[c])) /\ UNCHANGED dev
      BY <1>1, <1>10, <2>2 DEF FinishWrite, Put
    <3> QED BY <1>8, <3>1
  <2> QED BY <2>1, <2>2
<1> QED BY <1>1, <1>9, <1>10

\* What the bus master moves for a write: the sectors of the chunk, from the bus's memory.
Sectors(lba, k) == [i \in 1 .. k |-> lba + i - 1]
Written(m, off, k, lba) ==
  [i \in DOMAIN m \cup {off + j - 1 : j \in DOMAIN Sectors(lba, k)} |->
     IF i < off THEN m[i] ELSE Sectors(lba, k)[i - off + 1]]

\* A write by DMA carries the whole chunk.
LEMMA WrittenFacts ==
  ASSUME NEW t \in Caller, NEW k \in Nat, NEW m, Carried(t, m, 0),
         \A i \in DOMAIN m : i \in Nat /\ i < t.done + k,
         NEW lba, lba = t.lba + t.done
  PROVE  /\ Carried(t, Written(m, t.done, k, lba), k)
         /\ \A i \in DOMAIN Written(m, t.done, k, lba) : i \in Nat /\ i < t.done + k
<1>1. t.done \in Nat /\ t.lba \in Nat /\ lba \in Nat
  BY DEF Caller
<1>2. PICK R : R = {t.done + j - 1 : j \in 1 .. k}
  BY Zenon
<1>3. R = t.done .. t.done + k - 1
  <2>1. \A i \in R : i \in t.done .. t.done + k - 1
    BY <1>1, <1>2
  <2>2. ASSUME NEW i \in t.done .. t.done + k - 1 PROVE i \in R
    <3>1. PICK j \in 1 .. k : j = i - t.done + 1
      <4>1. i - t.done + 1 \in 1 .. k
        BY <1>1
      <4> QED BY <4>1
    <3>2. t.done + j - 1 = i
      BY <1>1, <3>1
    <3> QED BY <1>2, <3>2
  <2> QED BY <2>1, <2>2, Zenon
<1>4. PICK w : w = Written(m, t.done, k, lba)
  OBVIOUS
<1>5. DOMAIN Sectors(lba, k) = 1 .. k /\ \A j \in 1 .. k : Sectors(lba, k)[j] = lba + j - 1
  BY DEF Sectors
<1>6. w = [i \in DOMAIN m \cup R |-> IF i < t.done THEN m[i] ELSE Sectors(lba, k)[i - t.done + 1]]
  BY <1>2, <1>4, <1>5, Zenon DEF Written
<1>7. DOMAIN w = DOMAIN m \cup R
  BY <1>6
<1>8. \A i \in R : i \in Nat /\ i < t.done + k
  BY <1>1, <1>3
<1>9. ASSUME NEW i \in R PROVE w[i] = t.lba + i
  <2>1. i \in Nat /\ ~(i < t.done) /\ i - t.done + 1 \in 1 .. k
    BY <1>1, <1>3
  <2>2. w[i] = lba + (i - t.done + 1) - 1
    BY <1>5, <1>6, <2>1
  <2> QED BY <1>1, <2>1, <2>2, SectorAt
<1>10. ASSUME NEW i \in 0..(t.done + 0 - 1) PROVE i \in DOMAIN w /\ w[i] = t.lba + i
  <2>1. i \in DOMAIN m /\ m[i] = t.lba + i
    BY DEF Carried
  <2>2. i < t.done
    BY <1>1
  <2> QED BY <1>6, <1>7, <2>1, <2>2
<1>11. \A i \in 0..(t.done + k - 1) : i \in R \/ i \in 0..(t.done + 0 - 1)
  BY <1>1, <1>3
<1>12. \A i \in 0..(t.done + k - 1) : i \in DOMAIN w /\ w[i] = t.lba + i
  BY <1>7, <1>9, <1>10, <1>11
<1> QED BY <1>4, <1>7, <1>8, <1>12 DEF Carried

\* The end of a DMA command concerns the caller of its bus alone.
LEMMA DriveDmaInv ==
  ASSUME IdeInv, OneCallerPerBus, IdeAssumption, NEW b \in Buses, DriveDma(b)
  PROVE  IdeInv'
<1>1. PICK c \in Callers : BusOf[c] = b
  BY DEF IdeInv, DriveDma
<1>2. PICK t \in Caller : t = th[c]
  BY CallerFacts
<1>3. PICK k : k = ChunkOf(t)
  OBVIOUS
<1>4. PICK d \in Command : d = dev[b] /\ d.st = "busy" /\ d.cmd = "dma" /\ bm[b] = "active"
  BY <1>1, CallerFacts DEF DriveDma
<1>5. PICK m : m = moved[c] /\ Placed(t, m) /\ OnDma(c, t, m, d, "active", xfer[b], bounce[b])
  BY <1>1, <1>2, <1>4, CallerFacts
<1>6. /\ t.pc \in {"irq", "seen", "failed"} /\ t.can_dma /\ d.lba = t.lba + t.done /\ d.left = k
      /\ xfer[b] = [who |-> c, off |-> t.done, len |-> k, read |-> t.op = "read"]
  BY <1>3, <1>4, <1>5 DEF OnDma
<1>7. /\ t.op \in {"read", "write"} /\ k \in Nat /\ Carried(t, m, 0)
      /\ \A i \in DOMAIN m : i \in Nat /\ i < t.done + k
  <2>1. k \in Nat
    BY <1>4, <1>6 DEF Command
  <2> QED BY <1>2, <1>3, <1>5, <2>1 DEF Caller, Placed
<1>8. PICK x : x = xfer[b] /\ x.who = c /\ x.off = t.done
  BY <1>6
<1>9. UNCHANGED <<bus_lock_flag, dma_lock_flag, got_irq, xfer, th>>
  BY DEF DriveDma, busVars
<1>10. pending' = Put(pending, b, TRUE)
  BY DEF DriveDma, Put
<1>11. /\ xfer' = Put(xfer, BusOf[c], xfer[b]) /\ th' = Put(th, c, t)
       /\ bus_lock_flag' \in [Buses -> BOOLEAN] /\ got_irq' \in [Buses -> BOOLEAN]
       /\ pending' \in [Buses -> BOOLEAN] /\ dma_lock_flag' \in BOOLEAN /\ dma_lock_flag' = dma_lock_flag
  <2>1. th = Put(th, c, th[c])
    BY DEF IdeInv, IdeTypes, Put
  <2>2. pending' \in [Buses -> BOOLEAN]
    BY <1>10, Untouched DEF Put
  <2> QED BY <1>1, <1>2, <1>9, <2>1, <2>2, Untouched
<1>12. DmaSession(t) <=> DmaSession(th[c])
  BY <1>2
<1>13. ASSUME NEW w, NEW e \in Command, NEW s \in Busmaster, NEW y, Placed(t, w),
              OnDma(c, t, w, e, s, xfer[b], y), moved' = Put(moved, c, w), dev' = Put(dev, b, e),
              bm' = Put(bm, b, s), bounce' = Put(bounce, b, y)
       PROVE  IdeInv'
  <2>1. OnPio(t, w, e)
    BY <1>6, Zenon DEF OnPio
  <2>2. Good(c, t, w, e, s, xfer[b], y)
    BY <1>13, <2>1 DEF Good
  <2> QED BY <1>1, <1>11, <1>12, <1>13, <2>2, IdeStep, Zenon
<1>14. moved = Put(moved, c, m) /\ bounce = Put(bounce, b, bounce[b])
  BY <1>1, <1>5, Untouched
<1>15. CASE \E s \in {"crc", "fault", "active"} :
              bm' = Put(bm, b, s) /\ dev' = [dev EXCEPT ![b].st = "error"] /\ UNCHANGED <<bounce, moved>>
  <2>1. PICK s \in {"crc", "fault", "active"} :
              bm' = Put(bm, b, s) /\ dev' = [dev EXCEPT ![b].st = "error"] /\ UNCHANGED <<bounce, moved>>
    BY <1>15
  <2>2. PICK e \in Command : e = [d EXCEPT !.st = "error"] /\ e.st = "error"
    <3>1. [d EXCEPT !.st = "error"] \in Command /\ [d EXCEPT !.st = "error"].st = "error"
      BY DEF Command
    <3> QED BY <3>1, Zenon
  <2>3. dev' = Put(dev, b, e)
    BY <1>4, <2>1, <2>2 DEF Put
  <2>4. s \in Busmaster /\ s # "stopped" /\ s # "complete"
    BY <2>1 DEF Busmaster
  <2>5. OnDma(c, t, m, e, s, xfer[b], bounce[b])
    BY <1>3, <1>6, <2>2, <2>4 DEF OnDma
  <2>6. moved' = Put(moved, c, m) /\ bounce' = Put(bounce, b, bounce[b])
    BY <1>14, <2>1
  <2> QED BY <1>5, <1>13, <2>1, <2>2, <2>3, <2>4, <2>5, <2>6
<1>16. CASE bm' = Put(bm, b, "complete") /\ dev' = Put(dev, b, Idle)
            /\ (IF xfer[b].read THEN bounce' = Put(bounce, b, Sectors(d.lba, k)) /\ UNCHANGED moved
                ELSE moved' = Put(moved, c, Written(m, t.done, k, d.lba)) /\ UNCHANGED bounce)
  <2>1. Idle \in Command /\ Idle.st = "idle"
    BY DEF Idle, NoOne, Command
  <2>2. "complete" \in Busmaster
    BY DEF Busmaster
  <2>3. CASE t.op = "read"
    <3>1. xfer[b].read
      <4>1. xfer[b] = [who |-> c, off |-> t.done, len |-> k, read |-> TRUE]
        BY <1>6, <2>3, Zenon
      <4>2. [who |-> c, off |-> t.done, len |-> k, read |-> TRUE].read
        OBVIOUS
      <4> QED BY <4>1, <4>2, Zenon
    <3>2. PICK y : y = Sectors(d.lba, k)
      OBVIOUS
    <3>3. \A i \in 1 .. k : y[i] = t.lba + t.done + i - 1
      BY <1>6, <3>2 DEF Sectors
    <3>4. OnDma(c, t, m, Idle, "complete", xfer[b], y)
      BY <1>3, <1>6, <2>1, <2>3, <3>3 DEF OnDma
    <3>5. bounce' = Put(bounce, b, y) /\ moved' = Put(moved, c, m)
      BY <1>14, <1>16, <3>1, <3>2
    <3> QED BY <1>5, <1>13, <1>16, <2>1, <2>2, <3>4, <3>5
  <2>4. CASE t.op = "write"
    <3>1. ~xfer[b].read
      <4>1. xfer[b] = [who |-> c, off |-> t.done, len |-> k, read |-> FALSE]
        BY <1>6, <2>4, Zenon
      <4> QED BY <4>1
    <3>2. PICK w : w = Written(m, t.done, k, d.lba)
      OBVIOUS
    <3>3. Carried(t, w, k) /\ \A i \in DOMAIN w : i \in Nat /\ i < t.done + k
      BY <1>6, <1>7, <3>2, WrittenFacts
    <3>4. Carried(t, w, 0)
      <4>1. t.done \in Nat
        BY DEF Caller
      <4>2. \A i \in 0..(t.done + 0 - 1) : i \in 0..(t.done + k - 1)
        BY <1>7, <4>1
      <4> QED BY <3>3, <4>2 DEF Carried
    <3>5. Placed(t, w)
      BY <1>3, <1>5, <1>6, <3>3, <3>4, Zenon DEF Placed
    <3>6. OnDma(c, t, w, Idle, "complete", xfer[b], bounce[b])
      BY <1>3, <1>6, <2>1, <2>4, <3>3 DEF OnDma
    <3>7. moved' = Put(moved, c, w) /\ bounce' = Put(bounce, b, bounce[b])
      BY <1>14, <1>16, <3>1, <3>2
    <3> QED BY <1>13, <1>16, <2>1, <2>2, <3>5, <3>6, <3>7, Zenon
  <2> QED BY <1>7, <2>3, <2>4
<1>17. \/ \E s \in {"crc", "fault", "active"} :
              bm' = Put(bm, b, s) /\ dev' = [dev EXCEPT ![b].st = "error"] /\ UNCHANGED <<bounce, moved>>
       \/ /\ bm' = Put(bm, b, "complete") /\ dev' = Put(dev, b, Idle)
          /\ IF xfer[b].read THEN bounce' = Put(bounce, b, Sectors(dev[b].lba, dev[b].left)) /\ UNCHANGED moved
             ELSE /\ moved' = Put(moved, xfer[b].who, Written(moved[xfer[b].who], xfer[b].off, dev[b].left, dev[b].lba))
                  /\ UNCHANGED bounce
  BY DEF DriveDma, Put, Written, Sectors
<1> QED BY <1>4, <1>5, <1>6, <1>8, <1>15, <1>16, <1>17

\* A PIO command that gets on offers data only while sectors are left.
LEMMA DrivePioInv ==
  ASSUME IdeInv, OneCallerPerBus, IdeAssumption, NEW b \in Buses, DrivePio(b)
  PROVE  IdeInv'
<1>1. PICK s \in {"drq", "idle", "error"} :
        (s = "drq" => dev[b].left > 0) /\ dev' = [dev EXCEPT ![b].st = s]
  BY Zenon DEF DrivePio
<1>2. PICK d \in Command : d = dev[b] /\ d.cmd # "dma"
  BY DEF DrivePio, IdeInv, IdeTypes
<1>3. PICK e \in Command : /\ e = [d EXCEPT !.st = s] /\ e.st = s /\ e.cmd = d.cmd /\ e.lba = d.lba /\ e.left = d.left
  <2>1. [d EXCEPT !.st = s] \in Command
    BY <1>1 DEF Command
  <2> QED BY <2>1 DEF Command
<1>4. dev' = Put(dev, b, e) /\ dev \in [Buses -> Command]
  BY <1>1, <1>2, <1>3 DEF Put, IdeInv, IdeTypes
<1>5. UNCHANGED <<bus_lock_flag, dma_lock_flag, got_irq, bm, xfer, bounce, th, moved>>
  BY DEF DrivePio, busVars, dmaVars
<1>6. /\ bus_lock_flag' \in [Buses -> BOOLEAN] /\ got_irq' \in [Buses -> BOOLEAN]
      /\ pending' \in [Buses -> BOOLEAN] /\ dma_lock_flag' \in BOOLEAN /\ dma_lock_flag' = dma_lock_flag
  <2>1. /\ bus_lock_flag \in [Buses -> BOOLEAN] /\ got_irq \in [Buses -> BOOLEAN]
        /\ pending \in [Buses -> BOOLEAN] /\ dma_lock_flag \in BOOLEAN
    BY DEF IdeInv, IdeTypes
  <2>2. PICK v \in BOOLEAN : pending' = [pending EXCEPT ![b] = v]
    <3>1. PICK v : pending' = [pending EXCEPT ![b] = pending[b] \/ v]
      BY Zenon DEF DrivePio
    <3>2. (pending[b] \/ v) \in BOOLEAN
      OBVIOUS
    <3> QED BY <3>1, <3>2, Zenon
  <2>3. pending' \in [Buses -> BOOLEAN]
    BY <2>1, <2>2
  <2> QED BY <1>5, <2>1, <2>3
<1>7. CASE \E c \in Callers : BusOf[c] = b
  <2>1. PICK c \in Callers : BusOf[c] = b
    BY <1>7
  <2>2. PICK t \in Caller : t = th[c]
    BY CallerFacts, Zenon
  <2>3. /\ Placed(t, moved[c]) /\ OnPio(t, moved[c], d) /\ bm[b] \in Busmaster
        /\ OnDma(c, t, moved[c], d, bm[b], xfer[b], bounce[b])
    BY <1>2, <2>1, <2>2, CallerFacts, Zenon
  <2>4. OnPio(t, moved[c], e)
    BY <1>1, <1>2, <1>3, <2>3 DEF OnPio
  <2>5. OnDma(c, t, moved[c], e, bm[b], xfer[b], bounce[b])
    BY <1>2, <1>3, <2>3 DEF OnDma
  <2>6. Good(c, t, moved[c], e, bm[b], xfer[b], bounce[b])
    BY <2>3, <2>4, <2>5 DEF Good
  <2>7. th = Put(th, c, th[c])
    BY DEF IdeInv, IdeTypes, Put
  <2>8. /\ th' = Put(th, c, t) /\ moved' = Put(moved, c, moved[c]) /\ bm' = Put(bm, BusOf[c], bm[b])
        /\ xfer' = Put(xfer, BusOf[c], xfer[b]) /\ bounce' = Put(bounce, BusOf[c], bounce[b])
        /\ dev' = Put(dev, BusOf[c], e)
    BY <1>4, <1>5, <2>1, <2>2, <2>7, Untouched
  <2>9. DmaSession(t) <=> DmaSession(th[c])
    BY <2>2
  <2> QED BY <1>6, <2>6, <2>8, <2>9, IdeStep, Zenon
<1>8. CASE \A c \in Callers : BusOf[c] # b
  <2>1. dev' \in [Buses -> Command] /\ \A f \in Buses : f # b => dev'[f] = dev[f]
    BY <1>4 DEF Put
  <2>2. \A c \in Callers : dev'[BusOf[c]] = dev[BusOf[c]]
    BY <1>8, <2>1 DEF IdeAssumption
  <2>3. CallersGood'
    BY <1>5, <2>2 DEF IdeInv, CallersGood
  <2>4. LockInv'
    BY <1>5 DEF IdeInv, LockInv
  <2>5. IdeTypes'
    BY <1>5, <1>6, <2>1 DEF IdeInv, IdeTypes
  <2> QED BY <1>5, <2>3, <2>4, <2>5 DEF IdeInv
<1> QED BY <1>7, <1>8

\* The interrupt handler sets a flag.
LEMMA IrqInv ==
  ASSUME IdeInv, NEW b \in Buses, irq_handler(b)
  PROVE  IdeInv'
<1>1. UNCHANGED <<bus_lock_flag, dma_lock_flag, xfer, bm, bounce, dev, th, moved>>
  BY DEF irq_handler, busVars, dmaVars
<1>2. IdeTypes'
  BY <1>1 DEF irq_handler, IdeInv, IdeTypes
<1>3. CallersGood' /\ LockInv'
  BY <1>1, Zenon DEF IdeInv, CallersGood, LockInv
<1> QED BY <1>1, <1>2, <1>3 DEF IdeInv

\* Every step keeps the invariant.
LEMMA IdeNextInv ==
  ASSUME IdeInv, OneCallerPerBus, IdeAssumption, [Next]_(vars)
  PROVE  IdeInv'
<1>1. ASSUME NEW c \in Callers, Request(c) \/ Step(c)
      PROVE  IdeInv'
  BY <1>1, IdeRequestInv, LockStepInv, BeginInv, StartTryInv, IdeWaitInv, ReadDmaInv, WriteDmaInv, PioInv,
     FinishWriteInv, TryFailedInv, EndInv DEF Step
<1>2. ASSUME NEW b \in Buses, irq_handler(b) \/ DriveDma(b) \/ DrivePio(b)
      PROVE  IdeInv'
  BY <1>2, IrqInv, DriveDmaInv, DrivePioInv
<1>3. ASSUME UNCHANGED vars
      PROVE  IdeInv'
  <2>1. UNCHANGED <<bus_lock_flag, dma_lock_flag, got_irq, pending, xfer, bm, bounce, dev, th, moved>>
    BY <1>3 DEF vars
  <2>2. IdeTypes'
    BY <2>1 DEF IdeInv, IdeTypes
  <2>3. CallersGood' /\ LockInv'
    BY <2>1 DEF IdeInv, CallersGood, LockInv
  <2> QED BY <2>1, <2>2, <2>3 DEF IdeInv
<1> QED BY <1>1, <1>2, <1>3 DEF Next

\* Nothing is under way at first.
LEMMA IdeInitInv ==
  ASSUME IdeAssumption, Init
  PROVE  IdeInv
<1>1. PICK t \in Caller : /\ t.pc = "idle" /\ t.done = 0 /\ t.n = 1 /\ t.try = 0 /\ ~t.can_dma
                          /\ t = [pc |-> "idle", op |-> "read", lba |-> 0, n |-> 1, done |-> 0,
                                  expected |-> FALSE, can_dma |-> FALSE, try |-> 0, sector |-> 0,
                                  crc |-> FALSE, failed |-> FALSE, calls |-> 0]
  <2>1. [pc |-> "idle", op |-> "read", lba |-> 0, n |-> 1, done |-> 0, expected |-> FALSE, can_dma |-> FALSE,
         try |-> 0, sector |-> 0, crc |-> FALSE, failed |-> FALSE, calls |-> 0] \in Caller
    BY DEF Caller, Pcs
  <2> QED BY <2>1
<1>2. th = [c \in Callers |-> t]
  BY <1>1 DEF Init
<1>3. Idle \in Command /\ "stopped" \in Busmaster
  BY DEF Idle, NoOne, Command, Busmaster
<1>4. PICK m : m = [i \in {} |-> 0]
  OBVIOUS
<1>5. DOMAIN m = {}
  BY <1>4
<1>6. MaxSectors \in Nat \ {0} /\ MaxRetries \in Nat /\ BusOf \in [Callers -> Buses]
  BY DEF IdeAssumption
<1>7. IdeTypes
  BY <1>2, <1>3, Zenon DEF Init, IdeTypes
<1>8. CallersGood
  <2> SUFFICES ASSUME NEW c \in Callers
               PROVE  Good(c, th[c], moved[c], dev[BusOf[c]], bm[BusOf[c]], xfer[BusOf[c]], bounce[BusOf[c]])
    BY Zenon DEF CallersGood
  <2>1. th[c] = t /\ moved[c] = m /\ dev[BusOf[c]] = Idle /\ bm[BusOf[c]] = "stopped"
    BY <1>2, <1>4, <1>6 DEF Init
  <2>2. Carried(t, m, 0)
    BY <1>1 DEF Carried
  <2>3. Placed(t, m)
    BY <1>1, <1>5, <1>6, <2>2 DEF Placed
  <2>4. OnPio(t, m, Idle) /\ OnDma(c, t, m, Idle, "stopped", xfer[BusOf[c]], bounce[BusOf[c]])
    BY <1>1, Zenon DEF OnPio, OnDma
  <2> QED BY <1>3, <2>1, <2>3, <2>4, Zenon DEF Good
<1>9. LockInv
  BY <1>1, <1>2 DEF Init, LockInv, DmaSession
<1>10. \A b \in Buses : bm[b] = "stopped"
  BY DEF Init
<1> QED BY <1>7, <1>8, <1>9, <1>10 DEF IdeInv

\* The invariant holds in every reachable state of atadisk.c on idebus.c, whatever the
\* drive does, when no two callers use one bus.
THEOREM IdeInvariance == IdeAssumption /\ OneCallerPerBus => (Spec => []IdeInv)
<1> SUFFICES ASSUME IdeAssumption, OneCallerPerBus PROVE Spec => []IdeInv
  OBVIOUS
<1>1. Init => IdeInv
  BY IdeInitInv
<1>2. IdeInv /\ [Next]_(vars) => IdeInv'
  BY IdeNextInv
<1>3. Spec => Init /\ [][Next]_(vars)
  BY PTL DEF Spec
<1> QED BY <1>1, <1>2, <1>3, PTL

\* What a caller of the invariant knows at the end of a request.
LEMMA EndExact ==
  ASSUME IdeAssumption, IdeInv, NEW c \in Callers, th[c].pc = "end", ~th[c].failed
  PROVE  DOMAIN moved[c] = 0 .. th[c].n - 1 /\ \A i \in DOMAIN moved[c] : moved[c][i] = th[c].lba + i
<1>1. PICK t \in Caller : t = th[c] /\ Placed(t, moved[c]) /\ MaxSectors \in Nat \ {0}
  BY CallerFacts
<1>2. t.n \in Nat /\ t.done \in Nat /\ t.done = t.n
  BY <1>1 DEF Caller, Placed
<1>3. ChunkOf(t) = 0
  BY <1>1, <1>2 DEF ChunkOf
<1>4. \A i \in DOMAIN moved[c] : i \in 0 .. t.n - 1
  <2>1. \A i \in DOMAIN moved[c] : i \in Nat /\ i < t.done + 0
    BY <1>1, <1>3 DEF Placed
  <2> QED BY <1>2, <2>1
<1>5. \A i \in 0 .. t.n - 1 : i \in DOMAIN moved[c] /\ moved[c][i] = t.lba + i
  <2>1. \A i \in 0 .. (t.done + 0 - 1) : i \in DOMAIN moved[c] /\ moved[c][i] = t.lba + i
    BY <1>1 DEF Placed, Carried
  <2>2. t.done + 0 - 1 = t.n - 1
    BY <1>2
  <2> QED BY <2>1, <2>2
<1>6. DOMAIN moved[c] = 0 .. t.n - 1
  BY <1>4, <1>5, Zenon
<1> QED BY <1>1, <1>5, <1>6

\* A bus master at work belongs to the session of the caller of its bus.
LEMMA AtWork ==
  ASSUME IdeInv, IdeAssumption, NEW b \in Buses, bm[b] # "stopped"
  PROVE  \E c \in Callers : BusOf[c] = b /\ DmaSession(th[c])
<1>1. PICK c \in Callers : BusOf[c] = b
  BY DEF IdeInv
<1>2. th[c].pc \in {"irq", "seen", "failed"} /\ th[c].can_dma
  BY <1>1, CallerFacts, Zenon DEF OnDma
<1> QED BY <1>1, <1>2 DEF DmaSession

\* atadisk.c: a request of read_sectors or write_sectors that returns 0 has carried every
\* one of its sectors to its place, for any request, any split into chunks, any number of
\* retries and any behaviour of the drive; a simplex controller has one bus master at work
\* at most, and neither the DMA lock nor a bus master outlives its session.
THEOREM RequestSafety ==
  IdeAssumption /\ OneCallerPerBus => (Spec => [](TransferCorrect /\ SimplexDma /\ DmaReleased))
<1> SUFFICES ASSUME IdeAssumption, OneCallerPerBus
             PROVE  Spec => [](TransferCorrect /\ SimplexDma /\ DmaReleased)
  OBVIOUS
<1>1. IdeInv => TransferCorrect
  BY EndExact DEF TransferCorrect
<1>2. \A c \in Callers : DmaSession(th[c]) <=> InSession(c) /\ th[c].can_dma
  BY DEF DmaSession, InSession
<1>3. IdeInv => SimplexDma
  <2> SUFFICES ASSUME IdeInv, DmaLockNeeded, NEW b1 \in Buses, NEW b2 \in Buses,
                      bm[b1] # "stopped", bm[b2] # "stopped"
               PROVE  b1 = b2
    BY DEF SimplexDma
  <2>1. PICK c1 \in Callers : BusOf[c1] = b1 /\ DmaSession(th[c1])
    BY AtWork
  <2>2. PICK c2 \in Callers : BusOf[c2] = b2 /\ DmaSession(th[c2])
    BY AtWork
  <2>3. c1 = c2
    BY <2>1, <2>2 DEF IdeInv, LockInv
  <2> QED BY <2>1, <2>2, <2>3
<1>4. IdeInv => DmaReleased
  <2> SUFFICES ASSUME IdeInv PROVE DmaReleased
    OBVIOUS
  <2>1. dma_lock_flag <=> (DmaLockNeeded /\ \E c \in Callers : InSession(c) /\ th[c].can_dma)
    BY <1>2 DEF IdeInv, LockInv
  <2>2. \A b \in Buses : bm[b] # "stopped" => \E c \in Callers : BusOf[c] = b /\ InSession(c) /\ th[c].can_dma
    BY <1>2, AtWork
  <2> QED BY <2>1, <2>2 DEF DmaReleased
<1>5. Spec => []IdeInv
  BY IdeInvariance
<1> QED BY <1>1, <1>3, <1>4, <1>5, PTL

\* idebus.c: dma_init_transfer never touches a bus whose last transfer was not ended, as
\* the order of operations above the DMA functions of struct atadisk_ops demands.
THEOREM TransferOrder == IdeAssumption /\ OneCallerPerBus => (Spec => DmaOrder)
<1> SUFFICES ASSUME IdeAssumption, OneCallerPerBus PROVE Spec => DmaOrder
  OBVIOUS
<1>1. IdeInv /\ [Next]_(vars) => [\A b \in Buses : xfer'[b] # xfer[b] => bm[b] = "stopped"]_(vars)
  <2> SUFFICES ASSUME IdeInv, Next, NEW b \in Buses, xfer'[b] # xfer[b]
               PROVE  bm[b] = "stopped"
    OBVIOUS
  <2>1. PICK c \in Callers : StartTry(c)
    <3>1. \A c \in Callers : Request(c) \/ atadisk_op_lock(c) \/ atadisk_op_dma_begin_session(c) => xfer' = xfer
      <4>1. \A c \in Callers : Request(c) => xfer' = xfer
        <5>1. ASSUME NEW c \in Callers, Request(c) PROVE UNCHANGED dmaVars
          BY <5>1, Zenon DEF Request
        <5> QED BY <5>1 DEF dmaVars
      <4>2. \A c \in Callers : atadisk_op_lock(c) => xfer' = xfer
        BY DEF atadisk_op_lock, dmaVars
      <4>3. \A c \in Callers : atadisk_op_dma_begin_session(c) => xfer' = xfer
        BY DEF atadisk_op_dma_begin_session, dmaVars
      <4> QED BY <4>1, <4>2, <4>3
    <3>2. \A c \in Callers : wait_irq(c) \/ wait_busy_clear_irq(c) \/ wait_busy_clear(c) => xfer' = xfer
      BY DEF wait_irq, wait_busy_clear_irq, wait_busy_clear, dmaVars
    <3>3. \A c \in Callers : try_read_dma(c) \/ try_write_dma(c) => xfer' = xfer
      BY DEF try_read_dma, try_write_dma
    <3>4. \A c \in Callers : try_read_pio(c) \/ try_write_pio(c) => xfer' = xfer
      BY DEF try_read_pio, try_write_pio, dmaVars
    <3>5. \A c \in Callers : FinishWrite(c) \/ TryFailed(c) => xfer' = xfer
      BY DEF FinishWrite, TryFailed, dmaVars
    <3>6. \A c \in Callers : atadisk_op_dma_end_session(c) \/ atadisk_op_unlock(c) => xfer' = xfer
      BY DEF atadisk_op_dma_end_session, atadisk_op_unlock, dmaVars
    <3>7. \A d \in Buses : irq_handler(d) \/ DriveDma(d) \/ DrivePio(d) => xfer' = xfer
      BY DEF irq_handler, DriveDma, DrivePio, dmaVars
    <3>8. \A c \in Callers : Step(c) => StartTry(c) \/ xfer' = xfer
      BY <3>1, <3>2, <3>3, <3>4, <3>5, <3>6 DEF Step
    <3> QED BY <3>1, <3>7, <3>8 DEF Next
  <2>2. th[c].pc = "try"
    BY <2>1 DEF StartTry
  <2>3. bm[BusOf[c]] = "stopped"
    BY <2>2, CallerFacts, Zenon DEF OnDma
  <2>4. BusOf[c] = b
    <3>1. xfer' = xfer \/ \E x : xfer' = [xfer EXCEPT ![BusOf[c]] = x]
      BY <2>1 DEF StartTry
    <3> QED BY <3>1 DEF IdeInv, IdeTypes
  <2> QED BY <2>3, <2>4
<1>2. Spec => []IdeInv /\ [][Next]_(vars)
  BY IdeInvariance, PTL DEF Spec
<1> QED BY <1>1, <1>2, PTL DEF DmaOrder
=============================================================================
