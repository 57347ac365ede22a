------------------------------ MODULE MC_Input ------------------------------
(* The way from the PS/2 ports to keyboard events, from the controller's    *)
(* initialization ("ctrl") over finding out what is attached ("timely",     *)
(* "late") and the keyboard's initialization ("init", "timeout") to keys    *)
(* being typed ("keys") and events being read ("events").  A behaviour is   *)
(* in one of these phases, chosen by part.                                  *)
EXTENDS Integers, Sequences, FiniteSets

VARIABLES
    part,
    s_keysdown, s_flags, s_event_queue, view, dropped,
    pc, at, isqueueempty, cmd, cmd_queue, scancodes_supported, ops_set,
    input, fakes, next_key_byte_index, line, wire, kb, resends,
    kind, output, scanning, ident_keys,
    recvqueue, ident_pc, ret, reset_ack, reset_aa, ident, type,
    dual, bad, config, outbuf, irq, timeouts, ctrl_keys,
    ctrl_pc, ctrl_config, port_count, port_ok, i,
    masked, handlers, queues, ports, freed, received, asserted

\* Keys pressed and released in any order, and a reader.
Events == INSTANCE Kbd WITH
    Keys <- {"LSHIFT", "NUM_LOCK", "NUMPAD_7"}, QueueCap <- 3

\* A key hit at any time and bytes asked for again, more often than the driver
\* is willing to resend them.
InitPart == INSTANCE Ps2Kbd WITH
    Keys <- {"PRINT_SCREEN"}, QueueCap <- 1, SupportedSets <- {2, 3}, MaxResends <- 4,
    MaxWire <- 0, CanTimeout <- FALSE, HeapMayFail <- FALSE
\* Bytes the controller does not take in time, and failing allocations.
TimeoutPart == INSTANCE Ps2Kbd WITH
    Keys <- {"PRINT_SCREEN"}, QueueCap <- 1, SupportedSets <- {2, 3}, MaxResends <- 1,
    MaxWire <- 0, CanTimeout <- TRUE, HeapMayFail <- TRUE
\* Keys of every kind of scancode.
KeysPart == INSTANCE Ps2Kbd WITH
    Keys <- {"A", "LSHIFT", "PRINT_SCREEN", "PAUSE", "NUMPAD_7", "HOME", "NUM_LOCK"},
    QueueCap <- 1, SupportedSets <- {1, 2, 3}, MaxResends <- 0,
    MaxWire <- 0, CanTimeout <- FALSE, HeapMayFail <- FALSE

AllKinds == {"keyboard", "old_keyboard", "mouse", "absent"}
Timely == INSTANCE Ps2Ident WITH
    Kinds <- AllKinds, MaxKeys <- 3, MayBeLate <- FALSE, QueueCap <- 3,
    pc <- ident_pc, keys <- ident_keys
Late == INSTANCE Ps2Ident WITH
    Kinds <- AllKinds, MaxKeys <- 2, MayBeLate <- TRUE, QueueCap <- 3,
    pc <- ident_pc, keys <- ident_keys

\* Configurations as sets of bits: what the firmware left, and what the self
\* test may reset it to.
Ctrl == INSTANCE Ps2Ctrl WITH
    BiosConfigs <- {{0, 1, 2, 6}, {0, 2, 5, 6}}, ResetConfigs <- {{4, 5, 6}, {0, 6}},
    ScanCodes <- {{2, 3, 4}, {1, 5}}, MaxTimeouts <- 2, MaxKeys <- 2,
    pc <- ctrl_pc, keys <- ctrl_keys

ASSUME Events!KbdAssumption /\ InitPart!KbdAssumption /\ KeysPart!KbdAssumption
ASSUME Timely!Ps2IdentAssumption /\ Late!Ps2IdentAssumption /\ Ctrl!Ps2CtrlAssumption

eventVars == <<s_keysdown, s_flags, s_event_queue, view, dropped>>
driverVars == <<pc, at, isqueueempty, cmd, cmd_queue, scancodes_supported, ops_set,
                input, fakes, next_key_byte_index, line, wire, kb, resends>>
identVars == <<kind, output, scanning, ident_keys,
               recvqueue, ident_pc, ret, reset_ack, reset_aa, ident, type>>
ctrlVars == <<dual, bad, config, outbuf, irq, timeouts, ctrl_keys,
              ctrl_pc, ctrl_config, port_count, port_ok, i,
              masked, handlers, queues, ports, freed, received, asserted>>

MCInit ==
    /\ part \in {"events", "init", "timeout", "keys", "timely", "late", "ctrl"}
    /\ IF part = "keys" THEN KeysPart!ReadyInit ELSE InitPart!Init
    /\ Timely!Init /\ (part \in {"timely", "late"} \/ kind = "absent")
    /\ Ctrl!Init
    /\ part = "ctrl" \/ (~dual /\ bad = {} /\ config = {0, 2, 5, 6} /\ outbuf = << >>)

EventStep ==
    /\ part = "events" /\ Events!KbdNext
    /\ UNCHANGED <<part, driverVars, identVars, ctrlVars>>
DriverStep ==
    /\ \/ part = "init" /\ InitPart!Next
       \/ part = "timeout" /\ TimeoutPart!Next
       \/ part = "keys" /\ KeysPart!Next
    /\ UNCHANGED <<part, identVars, ctrlVars>>
IdentStep ==
    /\ \/ part = "timely" /\ Timely!Next
       \/ part = "late" /\ Late!Next
    /\ UNCHANGED <<part, eventVars, driverVars, ctrlVars>>
CtrlStep ==
    /\ part = "ctrl" /\ Ctrl!Next
    /\ UNCHANGED <<part, eventVars, driverVars, identVars>>

MCNext == EventStep \/ DriverStep \/ IdentStep \/ CtrlStep

\* The boot thread is scheduled, interrupts are taken, the keyboard deals with
\* every byte it is sent and what a device sends arrives.
MCFairSpec ==
    /\ MCInit /\ [][MCNext]_<<part, eventVars, driverVars, identVars, ctrlVars>>
    /\ WF_<<eventVars, driverVars>>(part = "init" /\ InitPart!Thread)
    /\ WF_<<eventVars, driverVars>>(part = "init" /\ InitPart!Irq)
    /\ WF_<<eventVars, driverVars>>(
           part = "init" /\ (InitPart!KeyboardResend \/ InitPart!KeyboardAnswer))
    /\ WF_identVars(part = "late" /\ Late!Thread)
    /\ WF_identVars(part = "late" /\ Late!ps2port_received_byte)

-----------------------------------------------------------------------------
\* kbd.c, ps2kbd.c: answers and scancodes are never taken for each other, so the
\* keys the kernel thinks are down are held, a sequence fits in keybytes, the
\* modifiers of an event are the ones that are held or locked, and a reader of
\* all events knows which keys are down, if none was lost.
KeysFollowKeyboard ==
    /\ part = "timeout" => TimeoutPart!KeysFollowKeyboard
    /\ part = "keys" => KeysPart!KeysFollowKeyboard /\ KeysPart!KeyBytesFit
    /\ part = "events" =>
          Events!KbdTypeOK /\ Events!ModifiersExact /\ Events!ReaderKnowsKeys

\* ps2ctrl.c, ps2.c, ps2kbd.c: a registered port exists and works unless a wait
\* timed out, and only a timeout aborts the initialization; a device that answers
\* in time is recognised, and scanning is on again on every way out of the
\* identification, however late the answers are; the scancode sets found are sets
\* of the keyboard, which ends up in set 2, also when bytes are not taken in time.
BringUpCorrect ==
    /\ part = "ctrl" => /\ Ctrl!RegisteredPortsWork /\ Ctrl!OnlyExistingPorts
                        /\ Ctrl!AbortsOnlyOnTimeout
    /\ part = "timely" => Timely!KeyboardRecognised /\ Timely!MouseRecognised
    /\ part = "late" => Late!ScanningRestored
    /\ part = "init" => InitPart!TypeOK /\ InitPart!KeyboardConfigured
    /\ part = "timeout" => TimeoutPart!KeyboardConfigured

\* ps2.c, ps2kbd.c: the bring-up of a port and the initialization of a keyboard
\* end, whatever is typed, asked for again or answered late.
BringUpReturns ==
    /\ <>(part = "init" => pc \in {"done", "failed"})
    /\ <>(part = "late" => ident_pc = "done")
=============================================================================
