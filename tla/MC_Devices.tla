----------------------------- MODULE MC_Devices -----------------------------
(* The devices below the files and the consoles: discovery and use of       *)
(* partitions (Disk); requests to the IDE driver (Ide) on a bus with a bus  *)
(* master ("dma"), on one without ("pio"), on the two buses of a simplex    *)
(* controller ("simplex") and from two callers on one bus ("lock"); how     *)
(* the driver brings its controller up (IdeInit), how PCI finds it (Pci);   *)
(* the interrupt controllers and lists of handlers (Pic); the serial port   *)
(* as the console writes to it ("console"), with interrupts enabled         *)
(* ("serial"), and while a reader waits ("wait").  part says which; the     *)
(* variables of the others stay as they are initialised.                    *)
EXTENDS Disk, TLC

CONSTANT None

VARIABLES
    part,
    bus_lock_flag, dma_lock_flag, got_irq, pending, xfer, bm, bounce, dev, th, moved,
    ipc, chan, enabled, want_bm, bm_base, heap, pages, maps, ibm, count,
    ihandlers, buses, ipending, igot_irq, drive, idisks,
    config, root, stack, called,
    irr, isr, mask, want, requests, s_irqs, s_traps, checksum, disturbed,
    text, sent, spc, out, cr, timer, tx_queue, rx_queue, irqpc,
    thr, txint, rbr, line, arrived, accepted, got

P(t, s, c) == [type |-> t, start |-> s, count |-> c]

\* Used and unused entries; the last one reaches over the end of the address
\* space.
MCTables ==
    {NoTable, <<P(1, 0, 2), P(0, 0, 0)>>, <<P(1, 1, 1), P(1, 2, 1)>>,
     <<P(0, 1, 1), P(1, 2, 2)>>}

\* Requests of two commands, and of one.
LongRequests == {[op |-> o, lba |-> 5, n |-> 3] : o \in {"read", "write"}}
ShortRequest == {[op |-> "read", lba |-> 5, n |-> 1]}

Dma == INSTANCE Ide WITH
    Callers <- {"c1"}, Buses <- {"b1"}, BusOf <- [c \in {"c1"} |-> "b1"],
    HasBusmaster <- {"b1"}, DmaLockNeeded <- FALSE, Requests <- LongRequests,
    MaxSectors <- 2, MaxRetries <- 1, MaxRequests <- 2
Pio == INSTANCE Ide WITH
    Callers <- {"c1"}, Buses <- {"b1"}, BusOf <- [c \in {"c1"} |-> "b1"],
    HasBusmaster <- {}, DmaLockNeeded <- FALSE, Requests <- LongRequests,
    MaxSectors <- 2, MaxRetries <- 1, MaxRequests <- 2
Simplex == INSTANCE Ide WITH
    Callers <- {"c1", "c2"}, Buses <- {"b1", "b2"},
    BusOf <- [c \in {"c1", "c2"} |-> IF c = "c1" THEN "b1" ELSE "b2"],
    HasBusmaster <- {"b1", "b2"}, DmaLockNeeded <- TRUE, Requests <- ShortRequest,
    MaxSectors <- 2, MaxRetries <- 1, MaxRequests <- 1

Lock == INSTANCE Ide WITH
    Callers <- {"c1", "c2"}, Buses <- {"b1"}, BusOf <- [c \in {"c1", "c2"} |-> "b1"],
    HasBusmaster <- {"b1"}, DmaLockNeeded <- FALSE, Requests <- ShortRequest,
    MaxSectors <- 2, MaxRetries <- 1, MaxRequests <- 2

BringUp == INSTANCE IdeInit WITH
    PrdCount <- 2, MaxPolls <- 2, pc <- ipc, bm <- ibm, handlers <- ihandlers,
    pending <- ipending, got_irq <- igot_irq, disks <- idisks

\* Host bridges with one or more functions, bridges behind bridges, devices
\* with and without further functions; trees and others.
Func(class, multi, secondary) == [class |-> class, multi |-> multi, secondary |-> secondary]
Absent == Func(<<0, 0>>, FALSE, -1)
Host(multi) == Func(<<6, 0>>, multi, 0)
Bridge(multi, bus) == Func(<<6, 4>>, multi, bus)
IdeFunc(multi) == Func(<<1, 1>>, multi, 0)
Ram == Func(<<5, 0>>, FALSE, 0)
Slots ==
    [a : {Host(FALSE), Host(TRUE)}, b : {Absent, Host(FALSE), IdeFunc(FALSE), Ram},
     c : {Absent, IdeFunc(TRUE), Bridge(TRUE, 1), Bridge(FALSE, 2)},
     d : {Absent, IdeFunc(FALSE), Bridge(FALSE, 2)}, e : {Absent, IdeFunc(FALSE), Bridge(FALSE, 2)},
     f : {Absent, IdeFunc(TRUE)}, g : {Absent, IdeFunc(FALSE)}]
Placed(s) ==
    LET all == (<<0, 0, 0>> :> s.a) @@ (<<0, 0, 1>> :> s.b) @@ (<<0, 1, 0>> :> s.c)
               @@ (<<0, 1, 1>> :> s.d) @@ (<<1, 0, 0>> :> s.e) @@ (<<1, 1, 0>> :> s.f)
               @@ (<<1, 1, 1>> :> s.g) @@ (<<2, 1, 0>> :> s.f)
    IN  [p \in {q \in DOMAIN all : all[q] # Absent} |-> all[p]]
OnlyHost == <<0, 0, 0>> :> Host(FALSE)
Bus == INSTANCE Pci WITH
    MaxDevice <- 1, MaxFunc <- 1, Topologies <- {Placed(s) : s \in Slots} \cup {OnlyHost}

\* The lowest priorities of both controllers, on which spurious interrupts
\* come, and an interrupt that two drivers share.
MCLine == [lpt |-> 7, ide0 |-> 14, ide1 |-> 15, ata |-> 14]
MCHandlers == DOMAIN MCLine

Pics == INSTANCE Pic WITH
    Handlers <- MCHandlers, Line <- MCLine, TrapHandlers <- {"x", "y"},
    TrapLine <- [t \in {"x", "y"} |-> 14], Default <- "default", MaxRequests <- 3

Console == INSTANCE Serial WITH
    Texts <- {<<"a", "nl", "a">>, <<"nl", "nl">>, <<"a", "cr", "nl">>},
    pc <- spc, CrToCrlf <- TRUE, IrqsOn <- FALSE, QueueCap <- 2, MaxIn <- 2, MaxOut <- 7
Port == INSTANCE Serial WITH
    Texts <- {<<"a", "nl">>},
    pc <- spc, CrToCrlf <- FALSE, IrqsOn <- TRUE, QueueCap <- 2, MaxIn <- 3, MaxOut <- 7

Waiting == INSTANCE Serial WITH
    Texts <- {<<"a", "nl", "a">>},
    pc <- spc, CrToCrlf <- FALSE, IrqsOn <- TRUE, QueueCap <- 2, MaxIn <- 1, MaxOut <- 7

ASSUME
    /\ Dma!IdeAssumption /\ Pio!IdeAssumption /\ Simplex!IdeAssumption /\ Lock!IdeAssumption
    /\ BringUp!IdeInitAssumption /\ Bus!PciAssumption /\ Pics!PicAssumption
    /\ Console!SerialAssumption /\ Port!SerialAssumption /\ Waiting!SerialAssumption

ideVars ==
    <<bus_lock_flag, dma_lock_flag, got_irq, pending, xfer, bm, bounce, dev, th, moved>>
bringUpVars ==
    <<ipc, chan, enabled, want_bm, bm_base, heap, pages, maps, ibm, count,
      ihandlers, buses, ipending, igot_irq, drive, idisks>>
pciVars == <<config, root, stack, called>>
picVars == <<irr, isr, mask, want, requests, s_irqs, s_traps, checksum, disturbed>>
serialVars == <<text, sent, spc, out, cr, timer, tx_queue, rx_queue, irqpc,
                thr, txint, rbr, line, arrived, accepted, got>>
allVars == <<part, vars, ideVars, bringUpVars, pciVars, picVars, serialVars>>

Parts == {"disk", "dma", "pio", "simplex", "bringup", "pci", "pic", "console", "serial"}
InitOf(p) ==
    /\ part = p
    /\ Init /\ (p # "disk" => table = [d \in 1 .. NDisks |-> NoTable])
    /\ CASE p = "simplex" -> Simplex!Init [] p = "lock" -> Lock!Init [] OTHER -> Dma!Init
    /\ BringUp!Init
    /\ Bus!Init /\ (p # "pci" => config = OnlyHost)
    /\ Pics!Init
    /\ CASE p = "console" -> Console!Init [] p = "wait" -> Waiting!Init [] OTHER -> Port!Init
MCInit == \E p \in Parts : InitOf(p)

DiskStep ==
    /\ part = "disk" /\ Next
    /\ UNCHANGED <<part, ideVars, bringUpVars, pciVars, picVars, serialVars>>
IdeStep ==
    /\ \/ part = "dma" /\ Dma!Next
       \/ part = "pio" /\ Pio!Next
       \/ part = "simplex" /\ Simplex!Next
    /\ UNCHANGED <<part, vars, bringUpVars, pciVars, picVars, serialVars>>
BringUpStep ==
    /\ part = "bringup" /\ BringUp!Next
    /\ UNCHANGED <<part, vars, ideVars, pciVars, picVars, serialVars>>
PciStep ==
    /\ part = "pci" /\ Bus!Next
    /\ UNCHANGED <<part, vars, ideVars, bringUpVars, picVars, serialVars>>
PicStep ==
    /\ part = "pic" /\ Pics!Next
    /\ UNCHANGED <<part, vars, ideVars, bringUpVars, pciVars, serialVars>>
SerialStep ==
    /\ \/ part = "console" /\ Console!Next
       \/ part = "serial" /\ Port!Next
    /\ UNCHANGED <<part, vars, ideVars, bringUpVars, pciVars, picVars>>

MCNext == DiskStep \/ IdeStep \/ BringUpStep \/ PciStep \/ PicStep \/ SerialStep

\* A thread inside a call is scheduled again and again, as in Ide!Spec, and
\* requests that are not masked get to the processor.
MCFairSpec ==
    /\ MCInit /\ [][MCNext]_allVars
    /\ WF_ideVars(part = "dma" /\ Dma!Step("c1"))
    /\ WF_ideVars(part = "pio" /\ Pio!Step("c1"))
    /\ \A c \in {"c1", "c2"} : WF_ideVars(part = "simplex" /\ Simplex!Step(c))
    /\ \A irq \in 0 .. 15 : WF_picVars(part = "pic" /\ Pics!Interrupt(irq))

\* Two callers on one bus.
LockStep ==
    /\ part = "lock" /\ Lock!Next
    /\ UNCHANGED <<part, vars, bringUpVars, pciVars, picVars, serialVars>>
LockSpec ==
    /\ InitOf("lock") /\ [][LockStep]_allVars
    /\ \A c \in {"c1", "c2"} : WF_ideVars(Lock!Step(c))

\* A reader that waits for a character of a serial port.
WaitStep ==
    /\ part = "wait" /\ Waiting!Next
    /\ UNCHANGED <<part, vars, ideVars, bringUpVars, pciVars, picVars>>
WaitSpec ==
    /\ InitOf("wait") /\ [][WaitStep]_allVars
    /\ WF_serialVars(Waiting!Thread) /\ WF_serialVars(Waiting!Irq)
    /\ WF_serialVars(Waiting!Transmit) /\ WF_serialVars(Waiting!Tick)

-----------------------------------------------------------------------------
\* atadisk.c, idebus.c: a request that returns 0 has carried every one of its
\* sectors; only one channel of a simplex controller does DMA at a time, and the
\* DMA lock is held and a bus master is active exactly inside DMA sessions.
TransferCorrect ==
    /\ part = "dma" => Dma!TypeOK /\ Dma!TransferCorrect
    /\ part = "pio" => Pio!TransferCorrect
    /\ part = "simplex" =>
          Simplex!TransferCorrect /\ Simplex!SimplexDma /\ Simplex!DmaReleased

\* atadisk.c: every request returns, whatever the drive does.
RequestReturns ==
    \A c \in {"c1", "c2"} :
        (c \in DOMAIN th /\ th[c].pc # "idle") ~> (c \notin DOMAIN th \/ th[c].pc = "idle")

\* atadisk.h: the operations on a bus are done in their documented order.
DmaOrder == Lock!DmaOrder

\* idebus.c: whatever fails while the controller is brought up, what is in use
\* is not freed, and a channel has all pages of the bus master or none.
ControllerSound == part = "bringup" => BringUp!ControllerSound

\* pci.c: every function on a bus that hangs together with a host bridge is
\* found exactly once, and those behind a bridge before it.
ProbedOnce == part = "pci" => Bus!ProbedOnce

\* pic.c, trapmanager.c: a device whose handler is registered and unmasked is
\* served when it asks, whatever is registered besides.
RequestsServed == Pics!RequestsServed

\* serial.c: with interrupts disabled exactly the text goes out, and with
\* interrupts enabled a character that arrived is read at most once.
SerialExact ==
    /\ part = "console" => Console!SerialExact
    /\ part = "serial" => Port!SerialExact

\* stream.h:40: stream_wait_char "Returns STREAM_EOF on timeout."
WaitReturns == (part = "wait" /\ spc = "wait" /\ timer = "running") ~> (spc = "idle")
=============================================================================
