------------------------------ MODULE IdeInit ------------------------------
(***************************************************************************)
(* How an IDE controller is brought up (pci_probe_callback and             *)
(* init_controller of kernel/arch/i586/dev/idebus.c): reading its          *)
(* registers from the PCI configuration, allocating the tables and buffers *)
(* of the bus master, resetting each channel and registering its drives.   *)
(* Every allocation may fail, a channel may have nothing on it, and the    *)
(* interrupt that some drives raise after a reset may come at any time.    *)
(* What is allocated is a set of blocks: of the heap, of physical pages    *)
(* and of mappings.  What happens on a bus afterwards is in Ide.           *)
(***************************************************************************)
EXTENDS Integers, FiniteSets

CONSTANTS
    PrdCount,    \* bus->prd_count
    MaxPolls     \* rounds of the wait after a reset, 255 in the code

IdeInitAssumption == PrdCount \in Nat \ {0} /\ MaxPolls \in Nat

Channels == 0 .. 1
Drives == 0 .. 1

VARIABLES
    pc, chan,            \* the boot thread, the channel it initializes
    enabled,             \* channels whose registers are known
    want_bm, bm_base,    \* busmaster_enabled, busmaster_io_base is not zero
    heap, pages, maps,   \* allocated blocks
    bm,                  \* channels with bus->busmaster_enabled
    count,               \* allocated_prdt_count; polls, in the wait
    handlers, buses,     \* registered with the PIC; shared->buses
    pending, got_irq,    \* interrupts of the channels
    drive, disks         \* the drive being probed; registered disks

blocks == <<heap, pages, maps>>
config == <<enabled, want_bm, bm_base>>
irqs == <<handlers, buses, pending, got_irq>>
vars == <<pc, chan, config, blocks, bm, count, irqs, drive, disks>>

Init ==
    /\ pc = "callback" /\ chan = 0
    /\ enabled = {} /\ want_bm = TRUE /\ bm_base = FALSE
    /\ heap = {} /\ pages = {} /\ maps = {} /\ bm = {} /\ count = 0
    /\ handlers = {} /\ buses = {} /\ pending = {} /\ got_irq = {}
    /\ drive = 0 /\ disks = {}

Shared == <<"shared">>
Bus(c) == <<"bus", c>>
Prdt(c) == <<"prdt", c>>
Buffer(c, i) == <<"buffer", c, i>>
Disk(c, d) == <<"disk", c, d>>
PagesOf(c) == {Prdt(c)} \cup {Buffer(c, i) : i \in 1 .. PrdCount}

(***************************************************************************)
(* pci_read_bar and pci_read_io_bar: only an I/O BAR is accepted.          *)
(***************************************************************************)
BarKinds == {"io", "memory", "memory64"}
pci_read_io_bar(kind) == kind = "io"

\* A channel in native mode has its registers where its two BARs say.
read_channel_bar(bars, c) == pci_read_io_bar(bars[2 * c]) /\ pci_read_io_bar(bars[2 * c + 1])

\* native: channels in native mode; master: PROGIF_FLAG_BUSMASTER_SUPPORTED.
\* Without the flag busmaster_enabled stays true and the base stays zero.
pci_probe_callback ==
    /\ pc = "callback"
    /\ \E bars \in [0 .. 4 -> BarKinds], native \in SUBSET Channels, master \in BOOLEAN :
          /\ enabled' = {c \in Channels : c \in native => read_channel_bar(bars, c)}
          /\ want_bm' = (master => pci_read_io_bar(bars[4]))
          /\ bm_base' = (master /\ pci_read_io_bar(bars[4]))
    /\ \/ heap' = heap \cup {Shared} /\ pc' = "channel"
       \/ UNCHANGED heap /\ pc' = "done"
    /\ UNCHANGED <<chan, pages, maps, bm, count, irqs, drive, disks>>

(***************************************************************************)
(* init_controller, for the channel chan.                                  *)
(***************************************************************************)
ChannelDone == IF chan = 0 THEN pc' = "channel" /\ chan' = 1 ELSE pc' = "done" /\ UNCHANGED chan
Goto(label) == pc' = label /\ UNCHANGED chan

init_controller ==
    /\ pc = "channel"
    /\ \/ chan \notin enabled /\ ChannelDone /\ UNCHANGED heap
       \/ /\ chan \in enabled
          /\ \/ heap' = heap \cup {Bus(chan)} /\ Goto(IF want_bm THEN "prdt" ELSE "status")
             \/ ChannelDone /\ UNCHANGED heap
    /\ count' = 0 /\ drive' = 0
    /\ UNCHANGED <<config, pages, maps, bm, irqs, disks>>

\* init_busmaster: the PRDT, its mapping, a buffer per entry.
AllocPrdt ==
    /\ pc = "prdt"
    /\ \/ pages' = pages \cup {Prdt(chan)} /\ Goto("map")
       \/ UNCHANGED pages /\ Goto("oom")
    /\ UNCHANGED <<config, heap, maps, bm, count, irqs, drive, disks>>

MapPrdt ==
    /\ pc = "map"
    /\ \/ maps' = maps \cup {Prdt(chan)} /\ Goto("buffers")
       \/ UNCHANGED maps /\ Goto("oom")
    /\ UNCHANGED <<config, heap, pages, bm, count, irqs, drive, disks>>

AllocBuffer ==
    /\ pc = "buffers"
    /\ IF count = PrdCount
       THEN bm' = bm \cup {chan} /\ Goto("status") /\ UNCHANGED <<pages, count>>
       ELSE /\ \/ pages' = pages \cup {Buffer(chan, count + 1)} /\ count' = count + 1 /\ Goto("buffers")
               \/ UNCHANGED <<pages, count>> /\ Goto("oom")
            /\ UNCHANGED bm
    /\ UNCHANGED <<config, heap, maps, irqs, drive, disks>>

\* Fault: the last buffer is not given back.
FailOom_short ==
    /\ pc = "oom" /\ Goto("status")
    /\ pages' = pages \ ({Buffer(chan, i) : i \in 1 .. count - 1} \cup {Prdt(chan)})
    /\ maps' = maps \ {Prdt(chan)}
    /\ UNCHANGED <<config, heap, bm, count, irqs, drive, disks>>

\* fail_oom: the buffers counted, the mapping and the PRDT, if there are any.
FailOom ==
    /\ pc = "oom" /\ Goto("status")
    /\ pages' = pages \ ({Buffer(chan, i) : i \in 1 .. count} \cup {Prdt(chan)})
    /\ maps' = maps \ {Prdt(chan)}
    /\ UNCHANGED <<config, heap, bm, count, irqs, drive, disks>>

\* A status of 0x7f or 0xff: nothing drives the bus.  The bus is freed, and only
\* the bus.
Floating ==
    /\ pc = "status" /\ heap' = heap \ {Bus(chan)} /\ ChannelDone
    /\ UNCHANGED <<config, pages, maps, bm, count, irqs, drive, disks>>

\* archi586_pic_register_handler, shared->buses, archi586_pic_unmask_irq and
\* reset_bus, after which the drives may raise an interrupt.
RegisterAndReset ==
    /\ pc = "status" /\ Goto("wait")
    /\ handlers' = handlers \cup {chan} /\ buses' = buses \cup {chan}
    /\ pending' \in {pending, pending \cup {chan}}
    /\ count' = 0
    /\ UNCHANGED <<config, blocks, bm, got_irq, drive, disks>>

irq_handler(c) ==
    /\ c \in pending \cap handlers
    /\ pending' = pending \ {c} /\ got_irq' = got_irq \cup {c}
    /\ UNCHANGED <<pc, chan, config, blocks, bm, count, handlers, buses, drive, disks>>

WaitReset ==
    /\ pc = "wait"
    /\ \/ chan \in got_irq /\ got_irq' = got_irq \ {chan} /\ Goto("drive") /\ UNCHANGED count
       \/ /\ chan \notin got_irq /\ UNCHANGED got_irq
          /\ IF count = MaxPolls THEN Goto("drive") /\ UNCHANGED count
             ELSE Goto("wait") /\ count' = count + 1
    /\ UNCHANGED <<config, blocks, bm, handlers, buses, pending, drive, disks>>

\* Fault: a disk that could not be registered keeps its memory.
Unregistered_kept == heap' = heap \cup {Disk(chan, drive)} /\ UNCHANGED disks

\* select_drive, heap_alloc, atadisk_register: no memory, or an error, after
\* which the disk is freed.
Unregistered == UNCHANGED <<heap, disks>>

ProbeDrive ==
    /\ pc = "drive"
    /\ \/ heap' = heap \cup {Disk(chan, drive)} /\ disks' = disks \cup {<<chan, drive>>}
       \/ Unregistered
    /\ IF drive = 0 THEN drive' = 1 /\ Goto("drive") ELSE ChannelDone /\ UNCHANGED drive
    /\ UNCHANGED <<config, pages, maps, bm, count, irqs>>

Next ==
    \/ pci_probe_callback \/ init_controller \/ AllocPrdt \/ MapPrdt \/ AllocBuffer
    \/ FailOom \/ Floating \/ RegisterAndReset \/ WaitReset \/ ProbeDrive
    \/ \E c \in Channels : irq_handler(c)

Spec == Init /\ [][Next]_vars

----------------------------------------------------------------------------
InBusmaster(c) == c = chan /\ pc \in {"prdt", "map", "buffers", "oom"}
BusInUse(c) == c \in handlers \/ c \in buses \/ \E d \in Drives : <<c, d>> \in disks

\* Whatever fails on the way, what is known to the PIC, to the other channel or
\* to the disk layer is never freed, a disk has memory exactly if it is
\* registered, and a channel has all pages of the bus master or none
\* (init_controller, init_busmaster).
ControllerSound ==
    /\ \A c \in Channels :
          /\ BusInUse(c) => {Shared, Bus(c)} \subseteq heap
          /\ (Bus(c) \in heap /\ ~InBusmaster(c)) =>
                /\ pages \cap PagesOf(c) = IF c \in bm THEN PagesOf(c) ELSE {}
                /\ Prdt(c) \in maps <=> c \in bm
    /\ \A c \in Channels, d \in Drives : Disk(c, d) \in heap <=> <<c, d>> \in disks

\* A channel that is given up keeps no pages.  It does: a floating bus is freed
\* without what init_busmaster allocated for it (idebus.c:547).
NoPagesLost ==
    \A c \in Channels : (Bus(c) \notin heap) => pages \cap PagesOf(c) = {}

\* The bus master is only used if the controller has one.  It is used without: if
\* the programming interface has no bus master, busmaster_enabled keeps its
\* initial value (idebus.c:679).
BusmasterHasRegisters == bm # {} => bm_base
============================================================================
