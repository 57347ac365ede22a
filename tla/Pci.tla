-------------------------------- MODULE Pci --------------------------------
(***************************************************************************)
(* The walk over the PCI buses (kernel/dev/pci.c).  pci_probe_bus probes a *)
(* bus for each host bridge among the functions of device 0; probe_dev     *)
(* probes the bus behind a bridge before it calls back for the bridge.     *)
(* stack holds the functions that are being probed, the innermost last.    *)
(* The configuration space (arch_pci_read_config) is the constant set of   *)
(* topologies: present functions with their classes.                       *)
(***************************************************************************)
EXTENDS Integers, Sequences, SequencesExt, FiniteSets

CONSTANTS
    MaxDevice, MaxFunc,    \* 31 and 7 in the code
    Topologies             \* functions from paths to [class, multi, secondary]

\* A class is <<base class, subclass>>.
HostBridge == <<6, 0>>
PciBridge == <<6, 4>>

PciAssumption ==
    /\ MaxDevice \in Nat /\ MaxFunc \in Nat
    /\ \A t \in Topologies : DOMAIN t \subseteq Nat \X (0 .. MaxDevice) \X (0 .. MaxFunc)

VARIABLES
    config,     \* the topology
    root,       \* the function of device 0 that pci_probe_bus looks at
    stack,      \* functions being probed: path <<bus, device, function>>, and
                \* whether the bus behind it has been probed
    called      \* the callbacks, in order

vars == <<config, root, stack, called>>

Init == config \in Topologies /\ root = 0 /\ stack = << >> /\ called = << >>

Present(path) == path \in DOMAIN config

\* The functions of a device that are looked at: one, unless function 0 is
\* marked as part of a multifunction device.
LastFunc(bus, device) ==
    IF Present(<<bus, device, 0>>) /\ config[<<bus, device, 0>>].multi THEN MaxFunc ELSE 0

\* pci.c:122: a function of device 0 is skipped if its base class is not 0x60
\* and its subclass is not 0.
IsRoot(path) == Present(path) /\ (config[path].class[1] = 96 \/ config[path].class[2] = 0)

Frame(path) == [path |-> path, entered |-> FALSE]

pci_probe_bus ==
    /\ stack = << >> /\ root <= LastFunc(0, 0)
    /\ root' = root + 1
    /\ stack' = IF IsRoot(<<0, 0, root>>) THEN <<Frame(<<root, 0, 0>>)>> ELSE << >>
    /\ UNCHANGED <<config, called>>

\* Fault: only function 0 of a device is looked at.
NextPath_single(path) ==
    IF path[2] < MaxDevice THEN <<Frame(<<path[1], path[2] + 1, 0>>)>> ELSE << >>

\* The loops of probe_dev and probe_bus: what follows on the same bus.
NextPath(path) ==
    IF path[3] < LastFunc(path[1], path[2])
    THEN <<Frame(<<path[1], path[2], path[3] + 1>>)>>
    ELSE IF path[2] < MaxDevice THEN <<Frame(<<path[1], path[2] + 1, 0>>)>> ELSE << >>

Top == Last(stack)
Continue == stack' = Front(stack) \o NextPath(Top.path)

IsBridge(path) == Present(path) /\ config[path].class = PciBridge

ProbeAbsent ==
    /\ stack # << >> /\ ~Present(Top.path) /\ Continue
    /\ UNCHANGED <<config, root, called>>

ProbeBridge ==
    /\ stack # << >> /\ IsBridge(Top.path) /\ ~Top.entered
    /\ stack' = Append([stack EXCEPT ![Len(stack)].entered = TRUE],
                       Frame(<<config[Top.path].secondary, 0, 0>>))
    /\ UNCHANGED <<config, root, called>>

Callback ==
    /\ stack # << >> /\ Present(Top.path) /\ (IsBridge(Top.path) => Top.entered)
    /\ called' = Append(called, Top.path) /\ Continue
    /\ UNCHANGED <<config, root>>

Next == pci_probe_bus \/ ProbeAbsent \/ ProbeBridge \/ Callback

Spec == Init /\ [][Next]_vars

----------------------------------------------------------------------------
Done == stack = << >> /\ root > LastFunc(0, 0)

Visible(path) == Present(path) /\ path[3] <= LastFunc(path[1], path[2])
HostBridges == {f \in 0 .. LastFunc(0, 0) : Present(<<0, 0, f>>) /\ config[<<0, 0, f>>].class = HostBridge}
Bridges == {p \in DOMAIN config : Visible(p) /\ IsBridge(p)}

\* A tree: no bus is behind two bridges, and every bridge leads from a lower to
\* a higher bus.
Tree ==
    /\ \A p, q \in Bridges : p # q => config[p].secondary # config[q].secondary
    /\ \A p \in Bridges : p[1] < config[p].secondary /\ config[p].secondary \notin HostBridges

\* The buses that hang together with a host bridge.
Buses ==
    LET Behind(buses) == buses \cup {config[p].secondary : p \in {b \in Bridges : b[1] \in buses}}
        Step(buses, i) == Behind(buses)
    IN  FoldLeft(Step, HostBridges, [i \in 1 .. Cardinality(Bridges) |-> i])

\* The functions of device 0 for which the test of pci.c:122 is right.
RootsClear ==
    \A f \in 0 .. LastFunc(0, 0) : IsRoot(<<0, 0, f>>) => f \in HostBridges

\* Every function on a bus that hangs together with a host bridge is called back
\* for exactly once, and a bridge after all that is behind it; nothing else is
\* (pci_probe_bus, probe_dev, probe_bus).
ProbedOnce ==
    (Tree /\ RootsClear) =>
        /\ IsInjective(called)
        /\ Done => Range(called) = {p \in DOMAIN config : Visible(p) /\ p[1] \in Buses}
        /\ \A i, j \in DOMAIN called :
              (i < j /\ IsBridge(called[i])) => called[j][1] # config[called[i]].secondary

\* pci.c:123: "Not a host bridge" is what a function is that is skipped; the
\* others are probed as host bridges.
ProbedFromHostBridges == Tree => IsInjective(called)
============================================================================
