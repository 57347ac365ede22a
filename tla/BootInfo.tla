------------------------------ MODULE BootInfo ------------------------------
(***************************************************************************)
(* What the boot loader passes on (kernel/arch/i586/bootinfo.c): the map   *)
(* of memory, whose available regions without the excluded ones are given  *)
(* to the page allocator, and the video mode, which decides the primary    *)
(* console (fb_init_rgb, fb_init_indexed, fbtty_init, archi586_vgatty_init).*)
(* Addresses and sizes are 32 bits wide, M stands for 2^32; the entries of *)
(* the map have 64 bits, M * M.                                            *)
(***************************************************************************)
EXTENDS Integers, Sequences, SequencesExt, FiniteSets

CONSTANTS
    M, PageSize,           \* 2^32, ARCH_PAGESIZE
    LowEnd,                \* 0x100000
    KernelBegin, KernelEnd,\* ARCHI586_KERNEL_PHYSICAL_ADDRESS_BEGIN and _END
    MemMaps,               \* memory maps: sequences of [addr, len, available]
    Depths                 \* bits per pixel

BootInfoAssumption ==
    /\ M \in Nat \ {0} /\ PageSize \in 1 .. M /\ M % PageSize = 0
    /\ LowEnd \in 0 .. M - 1 /\ KernelBegin \in LowEnd .. M - 1
    /\ KernelEnd \in KernelBegin .. M - 1 /\ KernelBegin + KernelEnd < M

VARIABLES
    mmap, next,      \* the memory map and the entry to process next
    registered,      \* calls of pmm_register_mem: [base, pages]
    overrun,         \* whether the assertion of exclude_regions failed
    console,         \* the primary console: "none", "fb" or "vga"
    live             \* heap blocks of the video code that are allocated

vars == <<mmap, next, registered, overrun, console, live>>

Region(base, len) == [base |-> base, len |-> len]
NoRegion == Region(0, 0)
UINTPTR_MAX == M - 1

\* The length of the second one is the end of the kernel.
REGIONS_TO_EXCLUDE == <<Region(0, LowEnd), Region(KernelBegin, KernelEnd)>>

(***************************************************************************)
(* exclude_region: what is before and what is after the excluded region.   *)
(***************************************************************************)
Wrapped(r) == (r.base + r.len) % M
EndOf(r) == IF UINTPTR_MAX - r.base < r.len THEN UINTPTR_MAX ELSE Wrapped(r)
Between(from, to) == IF from < to THEN Region(from, to - from) ELSE NoRegion

\* Fault: regions that only touch count as overlapping, and those that are
\* apart are cut.
exclude_region_touch(r, x) ==
    <<Between(r.base, x.base), Between(EndOf(x), EndOf(r))>>

exclude_region(r, x) ==
    IF Wrapped(r) <= x.base \/ Wrapped(x) <= r.base
    THEN <<r, NoRegion>>
    ELSE <<Between(r.base, x.base), Between(EndOf(x), EndOf(r))>>

(***************************************************************************)
(* exclude_regions: one pass over the regions for each excluded one.       *)
(***************************************************************************)
Cut(r, x) == IF r.len = 0 THEN <<r, NoRegion>> ELSE exclude_region(r, x)
Kept(cut) == IF cut[1].len # 0 THEN cut[1] ELSE cut[2]
Added(cut) == IF cut[1].len # 0 /\ cut[2].len # 0 THEN <<cut[2]>> ELSE << >>
AfterCuts(cuts) ==
    [j \in DOMAIN cuts |-> Kept(cuts[j])] \o FlattenSeq([j \in DOMAIN cuts |-> Added(cuts[j])])
ExcludeOne(regions, x) == AfterCuts([j \in DOMAIN regions |-> Cut(regions[j], x)])

exclude_regions(r) == FoldLeft(ExcludeOne, <<r>>, REGIONS_TO_EXCLUDE)

MAX_RESULT_REGIONS == 2 ^ Len(REGIONS_TO_EXCLUDE)

(***************************************************************************)
(* limit_to_32bit_addr, for an address below M.                            *)
(***************************************************************************)
LastAddr(e) == (e.addr + e.len - 1) % (M * M)
limit_to_32bit_addr(e) ==
    Region(e.addr, (IF UINTPTR_MAX < LastAddr(e) THEN M - e.addr ELSE LastAddr(e) - e.addr + 1) % M)

\* register_region: the calls of pmm_register_mem.
Gap(r) == (PageSize - (r.base % PageSize)) % PageSize

\* Fault: the length is not shortened by what the start is moved.
Aligned_long(r) == Region((r.base + Gap(r)) % M, r.len)

Aligned(r) == Region((r.base + Gap(r)) % M, (r.len - Gap(r)) % M)

register_region(r) ==
    LET a == Aligned(r)
    IN  IF a.len \div PageSize = 0 THEN << >>
        ELSE <<[base |-> a.base, pages |-> a.len \div PageSize]>>

(***************************************************************************)
(* process_mem_map, one entry; print_mem_map changes nothing.              *)
(***************************************************************************)
Register(regions) ==
    /\ overrun' = (overrun \/ Len(regions) > MAX_RESULT_REGIONS)
    /\ registered' = registered \o FlattenSeq([i \in DOMAIN regions |-> register_region(regions[i])])

process_mem_map ==
    /\ next <= Len(mmap) /\ next' = next + 1
    /\ LET e == mmap[next]
       IN  IF e.addr > UINTPTR_MAX \/ ~e.available
           THEN UNCHANGED <<registered, overrun>>
           ELSE Register(exclude_regions(limit_to_32bit_addr(e)))
    /\ UNCHANGED <<mmap, console, live>>

(***************************************************************************)
(* process_framebuffer_info.  Every allocation may fail: got is the set of *)
(* blocks that are allocated.                                              *)
(***************************************************************************)
TtyBlocks == {"lineinfos", "chars", "s_linetempbuf"}
Blocks == {"colors", "s_backbuffer", "s_unicodetable"} \cup TtyBlocks

\* Fault: a line buffer that is missing goes unnoticed.
fbtty_init_unchecked(got) ==
    IF {"lineinfos", "chars"} \subseteq got
    THEN console' = "fb" /\ live' = got
    ELSE live' = got \ TtyBlocks /\ UNCHANGED console

fbtty_init(got) ==
    IF TtyBlocks \subseteq got
    THEN console' = "fb" /\ live' = got
    ELSE live' = got \ TtyBlocks /\ UNCHANGED console

\* Without a back buffer or with an unknown depth the rest is not reached.
fb_init(got, bpp, depths) ==
    IF "s_backbuffer" \in got /\ bpp \in depths
    THEN fbtty_init(got)
    ELSE live' = got \cap {"colors"} /\ UNCHANGED console

process_framebuffer_info ==
    /\ next = Len(mmap) + 1 /\ next' = next + 1
    /\ \E type \in {"indexed", "rgb", "text", "unknown"}, bpp \in Depths, got \in SUBSET Blocks :
          \/ /\ type = "indexed" /\ "colors" \in got
             /\ fb_init(got, bpp, {8, 1})
          \/ /\ type = "rgb"
             /\ fb_init(got \ {"colors"}, bpp, {32, 24, 16, 15})
          \/ /\ type = "text" /\ bpp = 16
             /\ console' = "vga" /\ UNCHANGED live
          \/ /\ type = "unknown" /\ UNCHANGED <<console, live>>
    /\ UNCHANGED <<mmap, registered, overrun>>

Init ==
    /\ mmap \in MemMaps /\ next = 1 /\ registered = << >> /\ overrun = FALSE
    /\ console = "none" /\ live = {}

Next == process_mem_map \/ process_framebuffer_info

Spec == Init /\ [][Next]_vars

-----------------------------------------------------------------------------
Bytes(base, len) == base .. base + len - 1
ExcludedBytes ==
    UNION {Bytes(REGIONS_TO_EXCLUDE[i].base, REGIONS_TO_EXCLUDE[i].len) : i \in DOMAIN REGIONS_TO_EXCLUDE}

\* Pages that are wholly available and not excluded.
UsablePages(e) ==
    {p \in 0 .. M \div PageSize - 1 :
        Bytes(p * PageSize, PageSize) \subseteq Bytes(e.addr, e.len) \ ExcludedBytes}

PagesOf(call) == {call.base \div PageSize + i : i \in 0 .. call.pages - 1}

\* Entries for which the arithmetic is right: one that overlaps an excluded
\* region ends below 2^32, and what is left of it reaches the next page boundary.
ReachesBoundary(from, end) == from < end => from + Gap(Region(from, 0)) <= end
Regular(e) ==
    LET bytes == Bytes(e.addr, e.len)
        end == e.addr + e.len
    IN  /\ bytes \cap ExcludedBytes = {} \/ end < M
        /\ \A from \in {e.addr} \cup {x \in bytes : x - 1 \in ExcludedBytes} :
              from \notin ExcludedBytes => ReachesBoundary(from, end)

\* The page allocator gets every page of the available memory once, and none
\* that is excluded, wherever the excluded regions begin and end in a region of
\* the map; and the regions fit into their array (process_mem_map,
\* exclude_regions, register_region).
RegisteredExact ==
    (\A i \in DOMAIN mmap : Regular(mmap[i])) =>
        /\ ~overrun
        /\ \A i, j \in DOMAIN registered :
              i # j => PagesOf(registered[i]) \cap PagesOf(registered[j]) = {}
        /\ UNION {PagesOf(registered[i]) : i \in DOMAIN registered} =
              UNION {UsablePages(mmap[i]) : i \in {k \in 1 .. next - 1 : k <= Len(mmap) /\ mmap[k].available}}

\* A terminal becomes the primary console only with all its buffers, whichever
\* allocation fails (fb_init_rgb, fb_init_indexed, fbtty_init).
ConsoleBacked == console = "fb" => TtyBlocks \cup {"s_backbuffer"} \subseteq live

\* bootinfo.c:35 makes a region that wraps end at UINTPTR_MAX.  The test before
\* it takes the wrapped end: an entry that reaches 2^32 keeps what is excluded.
ExcludedNeverRegistered ==
    \A i \in DOMAIN registered : \A p \in PagesOf(registered[i]) :
        Bytes(p * PageSize, PageSize) \cap ExcludedBytes = {}

\* Only the memory below 1 MiB and the kernel are kept back.  More is: the size
\* of the second excluded region is the end address of the kernel
\* (bootinfo.c:66).
OnlyKernelKept ==
    next > Len(mmap) =>
    \A p \in 0 .. M \div PageSize - 1 :
        (\E i \in DOMAIN mmap : mmap[i].available /\
             Bytes(p * PageSize, PageSize) \subseteq Bytes(mmap[i].addr, mmap[i].len)
                                                     \ ((0 .. LowEnd - 1) \cup (KernelBegin .. KernelEnd - 1)))
        => \E j \in DOMAIN registered : p \in PagesOf(registered[j])
=============================================================================
