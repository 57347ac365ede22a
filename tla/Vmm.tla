-------------------------------- MODULE Vmm --------------------------------
(***************************************************************************)
(* The kernel address space of kernel/mem/vmm.c: the list of free ranges,  *)
(* allocated objects, and the pages of them that are not committed yet.    *)
(* Pages are numbered from the start of the kernel VM region; an object is *)
(* its first and last page.  The page table and the page frames are what   *)
(* vmm.c sees of arch_mmu_map, arch_mmu_unmap, pmm_alloc and pmm_free.     *)
(*                                                                         *)
(* The calls come from the boot thread, one at a time, so a call is one    *)
(* step; a page fault may follow on any page of an allocated object.       *)
(***************************************************************************)
EXTENDS Integers, Sequences, FiniteSetsExt

CONSTANTS
    RegionPages,    \* pages of the kernel VM region
    Frames,         \* page frames pmm_alloc can give
    DeviceFrames,   \* frames of memory-mapped devices, in address order
    Sizes,          \* page counts asked for
    HeapMayFail,    \* whether heap_alloc may run out inside a call
    MaxObjects      \* bound: objects allocated at a time

None == "none"

VmmAssumption ==
    /\ RegionPages \in Nat \ {0}
    /\ DeviceFrames \in Seq(STRING) /\ Frames \cap Range(DeviceFrames) = {}
    /\ None \notin Frames \cup Range(DeviceFrames)
    /\ Sizes \subseteq Nat \ {0} /\ HeapMayFail \in BOOLEAN /\ MaxObjects \in Nat

VARIABLES
    object_list,          \* free ranges, in list order
    live,                 \* allocated objects
    uncommited_objects,   \* [object, bitmap]: pages still to be committed
    pt,                   \* page -> frame, or None
    frames,               \* free page frames
    result,               \* how the last call ended
    returned              \* page the last vmm_ezmap returned a pointer to

vars == <<object_list, live, uncommited_objects, pt, frames, result, returned>>

Pages == 0 .. RegionPages - 1
PagesOf(o) == o.start .. o.end
Devices == Range(DeviceFrames)

(* list_insert_after so that the new element becomes element i, and         *)
(* list_remove_node of element i.                                          *)
InsertAt(s, i, e) == SubSeq(s, 1, i - 1) \o <<e>> \o SubSeq(s, i, Len(s))
RemoveAt(s, i) == SubSeq(s, 1, i - 1) \o SubSeq(s, i + 1, Len(s))

(* vmm_init_address_space on the kernel's region. *)
Init ==
    /\ object_list = <<[start |-> 0, end |-> RegionPages - 1]>>
    /\ live = {}
    /\ uncommited_objects = <<>>
    /\ pt = [p \in Pages |-> None]
    /\ frames = Frames
    /\ result = None
    /\ returned = -1

(* Fault: the object it should follow is overwritten. *)
add_object_replacing(list, o) ==
    LET below == {i \in DOMAIN list : list[i].end < o.start}
    IN  IF below = {} THEN Append(list, o) ELSE [list EXCEPT ![Max(below)] = o]

(* add_object_to_address_space: after the last object in the list that     *)
(* ends below the new one, at the back when there is none, and not at all  *)
(* when it would overlap the next one.                                     *)
add_object_to_address_space(list, o) ==
    LET below == {i \in DOMAIN list : list[i].end < o.start}
    IN  IF below = {} THEN Append(list, o)
        ELSE LET i == Max(below)
             IN  IF i < Len(list) /\ list[i + 1].start <= o.end THEN list
                 ELSE InsertAt(list, i + 1, o)

(* Position of the object take_object_with_min_size takes, 0 if none.      *)
take_object_with_min_size(n) ==
    LET fits == {i \in DOMAIN object_list : n <= object_list[i].end - object_list[i].start + 1}
    IN  IF fits = {} THEN 0 ELSE Min(fits)

(* vmm_alloc_object with create_object and create_uncommited_object, for   *)
(* memory (phys = 0) or device memory starting at frame number phys.  On   *)
(* success the object is live and wholly uncommitted.  On failure the      *)
(* objects are freed, a free range that was taken with them, and the       *)
(* pointer to the freed new object is still what is returned.  A missing   *)
(* uncommited_object is not noticed and its node is written through null.  *)
vmm_alloc_object(n, phys, heap) ==
    LET i == take_object_with_min_size(n)
        taken == RemoveAt(object_list, i)
        rest == [start |-> object_list[i].start + n, end |-> object_list[i].end]
        new == [start |-> object_list[i].start, end |-> object_list[i].start + n - 1,
                phys |-> phys]
    IN  \/ /\ object_list = <<>>
           /\ result' = "assert"
           /\ UNCHANGED <<object_list, live, uncommited_objects>>
        \/ /\ object_list # <<>>
           /\ i = 0 \/ heap = "no object"
           /\ result' = IF heap = "no object" THEN "null" ELSE "freed"
           /\ object_list' = IF i = 0 THEN object_list ELSE taken
           /\ UNCHANGED <<live, uncommited_objects>>
        \/ /\ i # 0 /\ heap = "ok"
           /\ object_list' = IF rest.end < rest.start THEN taken
                             ELSE add_object_to_address_space(taken, rest)
           /\ live' = live \cup {new}
           /\ uncommited_objects' = Append(uncommited_objects,
                                           [object |-> new, bitmap |-> PagesOf(new)])
           /\ result' = "ok"
        \/ /\ i # 0 /\ heap = "no bitmap"
           /\ result' = "panic"
           /\ UNCHANGED <<object_list, live, uncommited_objects>>

Running == result \notin {"panic", "assert"}
HeapOutcomes == IF HeapMayFail THEN {"ok", "no object", "no bitmap"} ELSE {"ok"}

vmm_alloc(n) ==
    /\ Running /\ Cardinality(live) < MaxObjects
    /\ \E heap \in HeapOutcomes : vmm_alloc_object(n, 0, heap)
    /\ returned' = -1
    /\ UNCHANGED <<pt, frames>>

(* vmm_ezmap: panics on nullptr, otherwise returns a pointer into the      *)
(* object; the freed object's start is the dummy value 0, below the region *)
(* (written -2 here).                                                      *)
vmm_ezmap(n, phys) ==
    /\ Running /\ Cardinality(live) < MaxObjects
    /\ \E heap \in HeapOutcomes : vmm_alloc_object(n, phys, heap)
    /\ returned' = IF result' = "ok" THEN object_list[take_object_with_min_size(n)].start
                   ELSE IF result' = "freed" THEN -2 ELSE -1
    /\ UNCHANGED <<pt, frames>>

(* Position of the uncommitted object whose range holds page p, 0 if none. *)
find_object_in_uncommited(p) ==
    LET holds == {i \in DOMAIN uncommited_objects : p \in PagesOf(uncommited_objects[i].object)}
    IN  IF holds = {} THEN 0 ELSE Min(holds)

(* Frames vmm_free gives back. *)
FreedFrames(o) == IF o.phys = 0 THEN {pt[p] : p \in PagesOf(o)} \ {None} ELSE {}

(* The whole of vmm_free, with the loop over the object's pages. *)
vmm_free(o) ==
    /\ Running /\ o \in live
    /\ LET i == find_object_in_uncommited(o.start)
       IN  uncommited_objects' = IF i = 0 THEN uncommited_objects
                                 ELSE RemoveAt(uncommited_objects, i)
    /\ frames' = frames \cup FreedFrames(o)
    /\ pt' = [p \in Pages |-> IF p \in PagesOf(o) THEN None ELSE pt[p]]
    /\ object_list' = add_object_to_address_space(object_list, [start |-> o.start, end |-> o.end])
    /\ live' = live \ {o}
    /\ result' = "ok" /\ returned' = -1

(* Fault: the bit stays set. *)
Committed_keep(i, p) == uncommited_objects

(* The bookkeeping of a committed page: its bit is cleared, and an object  *)
(* with no bit left leaves the list.                                       *)
Committed(i, p) ==
    LET left == uncommited_objects[i].bitmap \ {p}
    IN  IF left = {} THEN RemoveAt(uncommited_objects, i)
        ELSE [uncommited_objects EXCEPT ![i].bitmap = left]

(* Frame of page p of a device object. *)
BackingFrame(o, p) == DeviceFrames[o.phys + (p - o.start)]

(* vmm_page_fault on page p of an allocated object that is not mapped.  It *)
(* panics when no uncommitted object holds the page, when its bit is       *)
(* already clear, or when no page frame is left.                           *)
vmm_page_fault(p) ==
    /\ Running /\ \E o \in live : p \in PagesOf(o)
    /\ pt[p] = None
    /\ LET i == find_object_in_uncommited(p)
           o == uncommited_objects[i].object
           backed == o.phys # 0
       IN  IF i = 0 \/ (i # 0 /\ p \notin uncommited_objects[i].bitmap)
           THEN result' = "lost" /\ UNCHANGED <<uncommited_objects, pt, frames>>
           ELSE IF ~backed /\ frames = {}
           THEN result' = "panic" /\ UNCHANGED <<uncommited_objects, pt, frames>>
           ELSE \E f \in IF backed THEN {BackingFrame(o, p)} ELSE frames :
                  /\ pt' = [pt EXCEPT ![p] = f]
                  /\ frames' = frames \ {f}
                  /\ uncommited_objects' = Committed(i, p)
                  /\ result' = "ok"
    /\ returned' = -1
    /\ UNCHANGED <<object_list, live>>

Next ==
    \/ \E n \in Sizes : vmm_alloc(n)
    \/ \E n \in Sizes : \E phys \in DOMAIN DeviceFrames :
         phys + n - 1 <= Len(DeviceFrames) /\ vmm_ezmap(n, phys)
    \/ \E o \in live : vmm_free(o)
    \/ \E p \in Pages : vmm_page_fault(p)

Spec == Init /\ [][Next]_vars

FreeRanges == {object_list[i] : i \in DOMAIN object_list}

TypeOK ==
    /\ \A o \in FreeRanges \cup live : o.start \in Pages /\ o.end \in Pages /\ o.start <= o.end
    /\ pt \in [Pages -> Frames \cup Devices \cup {None}]
    /\ frames \subseteq Frames
    /\ result \in {None, "ok", "null", "freed", "lost", "panic", "assert"}

(* Every page of the region is in exactly one free range or allocated      *)
(* object: no call of vmm_alloc_object and vmm_free, in any order, loses   *)
(* or duplicates address space.                                            *)
AddressSpacePartitioned ==
    \A p \in Pages :
        Cardinality({i \in DOMAIN object_list : p \in PagesOf(object_list[i])})
          + Cardinality({o \in live : p \in PagesOf(o)}) = 1

(* A page of an allocated object is either waiting in exactly one bitmap   *)
(* or mapped, never both and never neither, and nothing else is mapped: a  *)
(* fault always finds its page and panics for lack of memory only.         *)
CommitStateExact ==
    /\ result # "lost"
    /\ \A p \in Pages :
         LET owners == {o \in live : p \in PagesOf(o)}
             waits == {i \in DOMAIN uncommited_objects : p \in uncommited_objects[i].bitmap}
         IN  IF pt[p] # None THEN owners # {} /\ waits = {}
             ELSE Cardinality(waits) = Cardinality(owners)

(* Each page frame is free or mapped at one page, none is lost by          *)
(* vmm_free, and frames of devices never get into the free memory.         *)
FramesExact ==
    /\ Frames \ frames = {pt[p] : p \in Pages} \cap Frames
    /\ frames \subseteq Frames
    /\ \A p, q \in Pages : (p # q /\ pt[p] \in Frames) => pt[p] # pt[q]

(* A device page is mapped to the frame that corresponds to its place in   *)
(* the object, whatever the order its pages are touched in.                *)
DeviceMappedInOrder ==
    \A o \in live : o.phys # 0 =>
        \A p \in PagesOf(o) : pt[p] \in {None, DeviceFrames[o.phys + (p - o.start)]}

(* All of it; address space is lost only when the heap runs out inside a   *)
(* call of vmm_alloc_object.                                               *)
MappingsExact ==
    /\ TypeOK /\ CommitStateExact /\ FramesExact /\ DeviceMappedInOrder
    /\ ~HeapMayFail => AddressSpacePartitioned

(* The assertion in take_object_with_min_size that some free range exists  *)
(* holds in every call.                                                    *)
FreeListNotEmptyAssert == result # "assert"

(* vmm_ezmap returns only pointers into an allocated object; otherwise it  *)
(* panics, as its documentation says.                                      *)
EzmapMapsOrPanics ==
    returned = -1 \/ \E o \in live : returned \in PagesOf(o)
============================================================================
