-------------------------------- MODULE Mmu --------------------------------
(***************************************************************************)
(* The page tables of kernel/arch/i586/mmu.c with the processor's TLB, and *)
(* the copies of kernel/lib/pstring.c through the scratch page.            *)
(*                                                                         *)
(* A table entry is a frame with its RW and US flags; PCD, which says how  *)
(* the frame is cached, is left out.  The TLB is the hardware's: it        *)
(* may take a copy of any present entry at any time and keeps it until the *)
(* page is flushed, so what the kernel must do is flush whatever it makes  *)
(* less permissive.  What it makes more permissive may be left: the access *)
(* then faults, and vmm_page_fault finds it valid, flushes and retries.    *)
(*                                                                         *)
(* The kernel's page directory entries all exist from boot and none has US *)
(* set, so create_pd is never called and is not modelled.  Every operation *)
(* runs with interrupts off and is one step, except for the copies, which  *)
(* are one step per page: their other buffer may fault in between.         *)
(***************************************************************************)
EXTENDS Integers, Sequences, FiniteSets

CONSTANTS
    Text,           \* pages of the kernel's text
    RoAfterInit,    \* pages that become read-only after early initialization
    TrapPage,       \* archi586_stackbottomtrap
    Vm,             \* pages of the kernel VM region
    ScratchPage,    \* the page at ARCH_SCRATCH_MAP_BASE
    FrameCount,     \* page frames, numbered from 0
    MapFrames,      \* the ones given to arch_mmu_map
    PageSize,       \* bytes in a page
    MaxLen,         \* bound: bytes in a copy
    NotPresent,     \* no entry (the P flag is clear)
    None            \* no access or no copy is going on

Pages == Text \cup RoAfterInit \cup Vm \cup {TrapPage, ScratchPage}
Frames == 0 .. FrameCount - 1
Entry == [frame : Frames, rw : BOOLEAN, us : BOOLEAN]

MmuAssumption ==
    /\ NotPresent \notin Entry
    /\ Pages = 0 .. Cardinality(Pages) - 1 /\ Pages \cup MapFrames \subseteq Frames
    /\ (Text \cup RoAfterInit) \cap (Vm \cup {TrapPage, ScratchPage}) = {}
    /\ FrameCount \in Nat /\ PageSize \in Nat \ {0} /\ MaxLen \in Nat

VARIABLES
    pagetables,  \* page -> entry, or NotPresent
    tlb,         \* page -> the entry the processor has cached, or NotPresent
    booted,      \* how many of archi586_init's three steps are done
    result,      \* what the call of the last step returned, 0 if there was none
    access,      \* the access the processor is retrying, or None
    refused,     \* how often that access has faulted
    copy         \* the running pmemcpy_in, pmemcpy_out or pmemset, or None

vars == <<pagetables, tlb, booted, result, access, refused, copy>>

Present(p) == pagetables[p] # NotPresent
Range2(p, n) == p .. p + n - 1

(* The table archi586_kernelentry fills: every kernel page, writable. *)
Init ==
    /\ pagetables = [p \in Pages |-> [frame |-> p, rw |-> TRUE, us |-> FALSE]]
    /\ tlb = [p \in Pages |-> NotPresent]
    /\ booted = 0 /\ result = 0
    /\ access = None /\ refused = 0 /\ copy = None

Idle == access = None /\ copy = None

Flush(t, ps) == [p \in Pages |-> IF p \in ps THEN NotPresent ELSE t[p]]

----------------------------------------------------------------------------
(* Fault: a page that moves to another frame is not flushed. *)
ShouldFlush_flags_only(old, new) ==
    old # NotPresent /\ ((old.rw /\ ~new.rw) \/ (old.us /\ ~new.us))

(* The test of map_single_page, remap_single_page and arch_mmu_scratch_map *)
(* whether a cached translation must go.                                   *)
ShouldFlush(old, new) ==
    /\ old # NotPresent
    /\ \/ old.rw /\ ~new.rw
       \/ old.us /\ ~new.us
       \/ old.frame # new.frame

SetEntries(new) ==
    /\ pagetables' = [p \in Pages |-> IF p \in DOMAIN new THEN new[p] ELSE pagetables[p]]
    /\ tlb' = Flush(tlb, {p \in DOMAIN new : ShouldFlush(pagetables[p], new[p])})
    /\ result' = 0

Fail == result' = -1 /\ UNCHANGED <<pagetables, tlb>>

(* arch_mmu_map: n consecutive frames on n consecutive pages. *)
arch_mmu_map(p, n, frame, read, rw, us) ==
    IF read THEN SetEntries([q \in Range2(p, n) |->
            [frame |-> frame + (q - p), rw |-> rw, us |-> us]])
    ELSE Fail

(* arch_mmu_remap: new flags for pages that are all present. *)
arch_mmu_remap(p, n, read, rw, us) ==
    IF read /\ \A q \in Range2(p, n) : Present(q)
    THEN SetEntries([q \in Range2(p, n) |->
            [pagetables[q] EXCEPT !.rw = rw, !.us = us]])
    ELSE Fail

(* arch_mmu_unmap: it always flushes, and returns true. *)
arch_mmu_unmap(ps) ==
    IF \A q \in ps : Present(q)
    THEN /\ pagetables' = [q \in Pages |-> IF q \in ps THEN NotPresent ELSE pagetables[q]]
         /\ tlb' = Flush(tlb, ps)
         /\ result' = 1
    ELSE Fail

(* arch_mmu_scratch_map. *)
arch_mmu_scratch_map(frame) ==
    SetEntries([q \in {ScratchPage} |->
        [frame |-> frame, rw |-> TRUE, us |-> FALSE]])

----------------------------------------------------------------------------
(* archi586_mmu_init, archi586_mmu_write_protect_kernel_text and           *)
(* arch_mmu_write_protect_after_early_init, in the order of archi586_init. *)
(* The two unmaps of archi586_mmu_init are of present pages.               *)
archi586_mmu_init ==
    booted = 0 /\ arch_mmu_unmap(Vm \cup {TrapPage})

WriteProtect(ps) ==
    SetEntries([q \in ps |-> [pagetables[q] EXCEPT !.rw = FALSE, !.us = FALSE]])

BootStep ==
    /\ Idle /\ booted < 3 /\ booted' = booted + 1
    /\ \/ archi586_mmu_init
       \/ booted = 1 /\ WriteProtect(Text)
       \/ booted = 2 /\ WriteProtect(RoAfterInit)
    /\ UNCHANGED <<access, refused, copy>>

(* A call from the memory manager on pages of the VM region. *)
Map ==
    /\ booted = 3 /\ access = None
    /\ \E p \in Vm, n \in 1 .. Cardinality(Vm), frame \in MapFrames, read, rw, us \in BOOLEAN :
        /\ Range2(p, n) \subseteq Vm /\ frame + n <= FrameCount
        /\ arch_mmu_map(p, n, frame, read, rw, us)
    /\ UNCHANGED <<booted, access, refused, copy>>

Remap ==
    /\ booted = 3 /\ Idle
    /\ \E p \in Vm, n \in 1 .. Cardinality(Vm), read, rw, us \in BOOLEAN :
        /\ Range2(p, n) \subseteq Vm
        /\ arch_mmu_remap(p, n, read, rw, us)
    /\ UNCHANGED <<booted, access, refused, copy>>

Unmap ==
    /\ booted = 3 /\ Idle
    /\ \E p \in Vm, n \in 1 .. Cardinality(Vm) :
        Range2(p, n) \subseteq Vm /\ arch_mmu_unmap(Range2(p, n))
    /\ UNCHANGED <<booted, access, refused, copy>>

----------------------------------------------------------------------------
(* The processor caches a translation. *)
Fill(p) ==
    /\ Present(p) /\ tlb[p] = NotPresent
    /\ tlb' = [tlb EXCEPT ![p] = pagetables[p]]
    /\ result' = 0 /\ UNCHANGED <<pagetables, booted, access, refused, copy>>

Allows(entry, write) == entry # NotPresent /\ (write => entry.rw)

(* arch_mmu_emulate, for the kernel's own accesses. *)
arch_mmu_emulate(p, write) == Allows(pagetables[p], write)

(* The kernel starts an access.  It goes through the TLB; if the TLB has   *)
(* no translation, through the tables.                                     *)
Touch(p, write) ==
    /\ Idle
    /\ access' = [page |-> p, write |-> write] /\ refused' = 0
    /\ result' = 0 /\ UNCHANGED <<pagetables, tlb, booted, copy>>

Complete ==
    /\ access # None
    /\ LET p == access.page
           entry == IF tlb[p] # NotPresent THEN tlb[p] ELSE pagetables[p]
       IN  Allows(entry, access.write) /\ tlb' = [tlb EXCEPT ![p] = entry]
    /\ access' = None /\ refused' = 0
    /\ result' = 0 /\ UNCHANGED <<pagetables, booted, copy>>

(* A fault: vmm_page_fault flushes and the access is retried when it is    *)
(* valid.  What it does with one that is not valid (commit the page, or    *)
(* panic) is in Vmm.                                                       *)
vmm_page_fault ==
    /\ access # None
    /\ ~Allows(IF tlb[access.page] # NotPresent THEN tlb[access.page]
               ELSE pagetables[access.page], access.write)
    /\ IF arch_mmu_emulate(access.page, access.write)
       THEN /\ tlb' = Flush(tlb, {access.page})
            /\ refused' = refused + 1 /\ UNCHANGED access
       ELSE access' = None /\ refused' = 0 /\ UNCHANGED tlb
    /\ result' = 0 /\ UNCHANGED <<pagetables, booted, copy>>

----------------------------------------------------------------------------
(* A copy of len bytes at a physical address begins: pmemcpy_in,           *)
(* pmemcpy_out or pmemset.                                                 *)
CopyBegin ==
    /\ Idle
    /\ \E at \in 0 .. FrameCount * PageSize - 1, len \in 0 .. MaxLen :
        /\ at + len <= FrameCount * PageSize
        /\ copy' = [at |-> at, len |-> len, touched |-> <<>>,
                    frame |-> at \div PageSize, offset |-> at % PageSize, i |-> 0]
    /\ result' = 0 /\ UNCHANGED <<pagetables, tlb, booted, access, refused>>

(* Fault: the offset of the first page is kept for the next ones. *)
NextOffset_kept(c) == c.offset

(* The offset the loop goes on with: `offset = 0'. *)
NextOffset(c) == 0

(* One round of the loop: map the page, and copy what is in it through the *)
(* scratch page, wherever the TLB says that is.                            *)
CopyRound ==
    /\ copy # None /\ copy.i < copy.len
    /\ arch_mmu_scratch_map(copy.frame)
    /\ LET left == copy.len - copy.i
           maxlen == PageSize - copy.offset
           copylen == IF maxlen < left THEN maxlen ELSE left
           through == IF tlb'[ScratchPage] # NotPresent THEN tlb'[ScratchPage]
                      ELSE pagetables'[ScratchPage]
           base == through.frame * PageSize + copy.offset
       IN  copy' = [copy EXCEPT
                !.touched = @ \o [k \in 1 .. copylen |-> base + k - 1],
                !.frame = @ + 1, !.i = @ + copylen, !.offset = NextOffset(copy)]
    /\ UNCHANGED <<booted, access, refused>>

CopyEnd ==
    /\ copy # None /\ copy.i >= copy.len
    /\ copy' = None
    /\ result' = 0 /\ UNCHANGED <<pagetables, tlb, booted, access, refused>>

Next ==
    \/ BootStep \/ Map \/ Remap \/ Unmap
    \/ \E p \in Pages : Fill(p) \/ \E write \in BOOLEAN : Touch(p, write)
    \/ Complete \/ vmm_page_fault
    \/ CopyBegin \/ CopyRound \/ CopyEnd

Spec == Init /\ [][Next]_vars

----------------------------------------------------------------------------
(* Tables and TLB hold well-formed entries. *)
TypeOK ==
    /\ pagetables \in [Pages -> Entry \cup {NotPresent}]
    /\ tlb \in [Pages -> Entry \cup {NotPresent}]
    /\ booted \in 0 .. 3 /\ result \in -1 .. 1 /\ refused \in Nat

(* The flushes of mmu.c are enough: no cached translation leads to another *)
(* frame than the table, or allows a write or a user access that the table *)
(* does not.                                                               *)
TlbSound ==
    \A p \in Pages : tlb[p] # NotPresent =>
        /\ Present(p)
        /\ tlb[p].frame = pagetables[p].frame
        /\ tlb[p].rw => pagetables[p].rw
        /\ tlb[p].us => pagetables[p].us

(* The flushes mmu.c leaves out are made good by vmm_page_fault: an access *)
(* that the tables allow is refused at most once.                          *)
ValidAccessRefusedOnce ==
    access # None /\ arch_mmu_emulate(access.page, access.write) => refused <= 1

(* Once archi586_init has write-protected it, no write to the kernel's     *)
(* text or to its read-only data gets through, from the TLB or the tables. *)
WriteProtected ==
    \A p \in Text \cup RoAfterInit :
        booted >= (IF p \in Text THEN 2 ELSE 3) =>
            ~Allows(tlb[p], TRUE) /\ ~Allows(pagetables[p], TRUE)

(* A call that fails has changed nothing (the presence of all pages is     *)
(* checked before the first one is changed).                               *)
FailedCallChangesNothing ==
    [][result' = -1 => UNCHANGED <<pagetables, tlb>>]_vars

(* The copies of pstring.c touch the bytes they were asked for, in order,  *)
(* across page boundaries and whatever the TLB held for the scratch page.  *)
CopyExact ==
    copy # None => copy.touched = [k \in 1 .. copy.i |-> copy.at + k - 1]

(* mmu.c, pstring.c: the TLB never allows what the tables do not, text and *)
(* read-only data stay protected, a valid access faults at most once, and  *)
(* copies by physical address touch the right bytes.                       *)
TlbHarmless ==
    TypeOK /\ TlbSound /\ WriteProtected /\ ValidAccessRefusedOnce /\ CopyExact
============================================================================
