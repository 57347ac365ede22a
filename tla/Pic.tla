-------------------------------- MODULE Pic --------------------------------
(***************************************************************************)
(* The way of an interrupt from the two cascaded interrupt controllers     *)
(* through trapmanager_trap (kernel/trapmanager.c) and default_irq_handler *)
(* (kernel/arch/i586/pic.c) to the handlers of the drivers.  A handler     *)
(* serves its device and sends the EOI itself.  Everything from the trap   *)
(* to the last handler runs with interrupts disabled and is one action.    *)
(* The controllers and the devices are external; a request that goes away  *)
(* before it is acknowledged gives a spurious interrupt.                   *)
(***************************************************************************)
EXTENDS Integers, Sequences, FiniteSets, SequencesExt, FiniteSetsExt

CONSTANTS
    Handlers,      \* IRQ handlers of the drivers
    Line,          \* the interrupt each of them is for
    TrapHandlers,  \* further trap handlers, beside the one of pic.c
    TrapLine,      \* the interrupt each of them is for
    Default,       \* the trap handler of pic.c
    MaxRequests,   \* bound on the requests of devices
    None

IRQs == 0 .. 15
SLAVEPIN_ON_MASTER == 2

PicAssumption ==
    /\ IsFiniteSet(Handlers) /\ Line \in [Handlers -> IRQs \ {SLAVEPIN_ON_MASTER}]
    /\ TrapLine \in [TrapHandlers -> IRQs]
    /\ Default \notin TrapHandlers /\ None \notin TrapHandlers \cup {Default}
    /\ MaxRequests \in Nat

VARIABLES
    irr, isr, mask,  \* controllers: requested, in service, masked
    want, requests,  \* devices that wait for service, number of requests
    s_irqs, s_traps, \* lists of handlers for each interrupt
    checksum,        \* of each trap handler in a list
    disturbed        \* handlers were called for a spurious interrupt

vars == <<irr, isr, mask, want, requests, s_irqs, s_traps, checksum, disturbed>>

\* The fields of the k-th trap handler of a list that registrations change.
calculate_checksum(list, k) ==
    <<IF k > 1 THEN list[k - 1] ELSE None, IF k < Len(list) THEN list[k + 1] ELSE None>>

Init ==
    /\ irr = {} /\ isr = {} /\ mask = IRQs \ {SLAVEPIN_ON_MASTER}
    /\ want = {} /\ requests = 0
    /\ s_irqs = [i \in IRQs |-> << >>]
    /\ s_traps = [i \in IRQs |-> <<Default>>]
    /\ checksum = [i \in IRQs |-> << <<None, None>> >>]
    /\ disturbed = FALSE

(***************************************************************************)
(* The controllers.  A non-specific EOI ends the service of the highest    *)
(* priority, the lowest number, of the controller it is sent to.           *)
(***************************************************************************)
Slave == 8 .. 15

Top(S) == IF S = {} THEN {} ELSE {Min(S)}

\* Only the master gets the EOI.
archi586_pic_send_eoi_master(serving, irq) == serving \ Top(serving \ Slave)

archi586_pic_send_eoi(serving, irq) ==
    serving \ (Top(serving \ Slave)
               \cup (IF irq \in Slave THEN Top(serving \cap Slave) ELSE {}))

\* What is in service keeps requests of the same or a lower priority back.
Open(irq) ==
    /\ irq \notin mask
    /\ IF irq \in Slave
       THEN /\ \A j \in isr \cap Slave : j > irq
            /\ \A j \in isr \ Slave : j > SLAVEPIN_ON_MASTER
       ELSE \A j \in isr \ Slave : j > irq

(***************************************************************************)
(* default_irq_handler, given what is in service: what is in service after *)
(* it.                                                                     *)
(***************************************************************************)

checkspuriousirq(serving, irq) ==
    IF irq = 15 /\ irq \notin serving
    THEN archi586_pic_send_eoi(serving, SLAVEPIN_ON_MASTER) ELSE serving

is_real(serving, irq) == irq \in {7, 15} => irq \in serving

default_irq_handler(serving, irq) ==
    LET checked == checkspuriousirq(serving, irq)
        served == FoldLeft(LAMBDA s, h : archi586_pic_send_eoi(s, irq), checked, s_irqs[irq])
    IN  IF s_irqs[irq] = << >> THEN checked
        ELSE IF is_real(serving, irq) THEN served
        ELSE archi586_pic_send_eoi(served, irq)

\* Trap handlers with a wrong checksum are skipped.
Intact(irq) ==
    {k \in 1 .. Len(s_traps[irq]) : checksum[irq][k] = calculate_checksum(s_traps[irq], k)}

trapmanager_trap(serving, irq) ==
    IF \E k \in Intact(irq) : s_traps[irq][k] = Default
    THEN /\ isr' = default_irq_handler(serving, irq)
         /\ want' = want \ Range(s_irqs[irq])
         /\ disturbed' = (disturbed \/ (~is_real(serving, irq) /\ s_irqs[irq] # << >>))
    ELSE isr' = serving /\ UNCHANGED <<want, disturbed>>

lists == <<mask, s_irqs, s_traps, checksum>>

Interrupt(irq) ==
    /\ irq \in irr /\ Open(irq)
    /\ irr' = irr \ {irq}
    /\ trapmanager_trap(isr \cup {irq} \cup (IF irq \in Slave THEN {SLAVEPIN_ON_MASTER} ELSE {}), irq)
    /\ UNCHANGED <<requests, lists>>

\* A request on the line of irq goes away.  The slave has told the master, or
\* the master notices itself.
Spurious(irq) ==
    /\ irq \notin irr /\ Open(irq) /\ requests < MaxRequests
    /\ requests' = requests + 1
    /\ \/ trapmanager_trap(isr, 7)
       \/ irq \in Slave /\ trapmanager_trap(isr \cup {SLAVEPIN_ON_MASTER}, 15)
    /\ UNCHANGED <<irr, lists>>

\* A device may ask before its handler is registered, its interrupt is masked
\* then; on a shared interrupt the driver starts it after registering.
Request(h) ==
    /\ h \notin want /\ requests < MaxRequests
    /\ \/ h \in Range(s_irqs[Line[h]])
       \/ \A g \in Handlers : Line[g] = Line[h] => g = h
    /\ requests' = requests + 1
    /\ want' = want \cup {h} /\ irr' = irr \cup {Line[h]}
    /\ UNCHANGED <<isr, disturbed, lists>>

(***************************************************************************)
(* Registrations, with interrupts disabled, and unmasking.                 *)
(***************************************************************************)
archi586_pic_register_handler(h) ==
    /\ h \notin Range(s_irqs[Line[h]])
    /\ s_irqs' = [s_irqs EXCEPT ![Line[h]] = Append(@, h)]
    /\ UNCHANGED <<irr, isr, mask, want, requests, s_traps, checksum, disturbed>>

\* Drivers unmask an interrupt after they registered its handler.
archi586_pic_unmask_irq(h) ==
    /\ h \in Range(s_irqs[Line[h]]) /\ Line[h] \in mask
    /\ mask' = mask \ {Line[h]}
    /\ UNCHANGED <<irr, isr, want, requests, s_irqs, s_traps, checksum, disturbed>>

\* Fault: only the checksum of the handler that was inserted is calculated.
Checksums_new(old, list) == Append(old, calculate_checksum(list, Len(list)))

\* The checksums of a list after a handler was inserted at its end: its own and
\* its neighbour's are calculated.
Checksums(old, list) ==
    [k \in 1 .. Len(list) |->
        IF k >= Len(list) - 1 THEN calculate_checksum(list, k) ELSE old[k]]

trapmanager_register_trap(t) ==
    LET irq == TrapLine[t]
        list == Append(s_traps[irq], t)
    IN  /\ t \notin Range(s_traps[irq])
        /\ s_traps' = [s_traps EXCEPT ![irq] = list]
        /\ checksum' = [checksum EXCEPT ![irq] = Checksums(@, list)]
        /\ UNCHANGED <<irr, isr, mask, want, requests, s_irqs, disturbed>>

Next ==
    \/ \E h \in Handlers :
          archi586_pic_register_handler(h) \/ archi586_pic_unmask_irq(h) \/ Request(h)
    \/ \E t \in TrapHandlers : trapmanager_register_trap(t)
    \/ \E irq \in IRQs : Interrupt(irq) \/ Spurious(irq)

Spec == Init /\ [][Next]_vars

\* Requests that are not masked get to the processor.
FairSpec == Spec /\ \A irq \in IRQs : WF_vars(Interrupt(irq))

-----------------------------------------------------------------------------
\* After every interrupt, real or spurious, with or without a handler, nothing
\* is left in service that would keep later interrupts back forever
\* (archi586_pic_send_eoi, checkspuriousirq, default_irq_handler).
NothingInService == isr = {}

\* A device whose handler is registered and unmasked is served when it asks,
\* however many trap handlers are added to its interrupt: no registration
\* makes the checksum of a handler wrong (trapmanager_register_trap,
\* trapmanager_trap).
RequestsServed ==
    \A h \in Handlers :
        (h \in want /\ Line[h] \notin mask /\ h \in Range(s_irqs[Line[h]])) ~> (h \notin want)

\* trapmanager.h:14: the PIC driver "also takes care of suprious IRQ handling":
\* a spurious interrupt reaches no driver.
SpuriousIgnored == ~disturbed
=============================================================================
