------------------------------ MODULE Ps2Ident ------------------------------
(***************************************************************************)
(* Bringing up the device on one PS/2 port (kernel/dev/ps2.c, init_device):*)
(* reset it, throw away what it sends afterwards, find out what it is.     *)
(* The thread talks to the device through the port's receive queue, which  *)
(* the interrupt handler fills; each wait ends with a byte or a timeout.   *)
(*                                                                         *)
(* The device is external: it answers each command with the bytes of the   *)
(* PS/2 protocol, in order, at any time, and sends a scan code for a key   *)
(* that is pressed while scanning is on.  A keyboard clears its unsent     *)
(* output when a command arrives, or does not.                             *)
(***************************************************************************)
EXTENDS Integers, Sequences

CONSTANTS
    Kinds,     \* devices that may be attached
    MaxKeys,   \* keys pressed during the whole bring-up
    MayBeLate, \* whether an answer may take longer than PS2_TIMEOUT
    QueueCap   \* 127 in the code

Ps2IdentAssumption ==
    /\ Kinds \subseteq {"keyboard", "old_keyboard", "mouse", "absent"}
    /\ MaxKeys \in Nat /\ QueueCap \in Nat \ {0} /\ MayBeLate \in BOOLEAN

VARIABLES
    kind, output, scanning, keys, \* the device and its user
    recvqueue,                    \* port->recvqueue
    pc, ret, reset_ack, reset_aa, ident, type

device == <<kind, output, scanning, keys>>
vars == <<device, recvqueue, pc, ret, reset_ack, reset_aa, ident, type>>

ACK == 250
BAT_OK == 170
STREAM_EOF == 256
EIO == -5
KEYBOARD == 75
MOUSE == 77
F5 == 3 \* the scan code that is also a mouse's identification

Answer(cmd) ==
    CASE kind = "absent" -> << >>
      [] cmd = "reset" /\ kind = "mouse" -> <<ACK, BAT_OK, 0>>
      [] cmd = "reset" -> <<ACK, BAT_OK>>
      [] cmd = "identify" /\ kind = "keyboard" -> <<ACK, 171, 131>>
      [] cmd = "identify" /\ kind = "mouse" -> <<ACK, 0>>
      [] OTHER -> <<ACK>>

\* stream_put_char: the device gets a command.
Send(cmd) ==
    /\ output' \in {Answer(cmd), output \o Answer(cmd)}
    /\ scanning' = CASE cmd = "reset" -> kind \notin {"mouse", "absent"}
                     [] cmd = "disablescanning" -> FALSE
                     [] cmd = "enablescanning" -> kind # "absent"
                     [] OTHER -> scanning
    /\ UNCHANGED <<kind, keys>>

\* A byte arrives: irqhandler and ps2port_received_byte.  A full queue loses it.
ps2port_received_byte ==
    /\ output # << >>
    /\ output' = Tail(output)
    /\ recvqueue' = IF Len(recvqueue) < QueueCap
                    THEN Append(recvqueue, Head(output)) ELSE recvqueue
    /\ UNCHANGED <<kind, scanning, keys, pc, ret, reset_ack, reset_aa, ident, type>>

PressKey ==
    /\ scanning /\ kind # "mouse" /\ keys < MaxKeys
    /\ keys' = keys + 1
    /\ output' = Append(output, F5)
    /\ UNCHANGED <<kind, scanning, recvqueue, pc, ret, reset_ack, reset_aa,
                   ident, type>>

\* stream_wait_char(PS2_TIMEOUT): the next byte, or STREAM_EOF.
stream_wait_char(c) ==
    \/ /\ recvqueue # << >>
       /\ c = Head(recvqueue)
       /\ recvqueue' = Tail(recvqueue)
    \/ /\ recvqueue = << >>
       /\ output = << >> \/ MayBeLate
       /\ c = STREAM_EOF
       /\ UNCHANGED recvqueue

Bytes == {ACK, BAT_OK, 171, 131, 0, F5, STREAM_EOF}

(***************************************************************************)
(* The thread.                                                             *)
(***************************************************************************)
Init ==
    /\ kind \in Kinds
    /\ output = << >> /\ recvqueue = << >>
    /\ scanning = (kind \notin {"mouse", "absent"})
    /\ keys = 0
    /\ pc = "reset" /\ ret = 0 /\ reset_ack = FALSE /\ reset_aa = FALSE
    /\ ident = << >> /\ type = 0

reset_device_send ==
    /\ pc = "reset"
    /\ Send("reset")
    /\ pc' = "reset1"
    /\ UNCHANGED <<recvqueue, ret, reset_ack, reset_aa, ident, type>>

\* Two answers in either order; a repeated one is a failure, a missing one
\* is not.
reset_device_wait(c) ==
    /\ pc \in {"reset1", "reset2"}
    /\ stream_wait_char(c)
    /\ LET bad == (c = ACK /\ reset_ack) \/ (c = BAT_OK /\ reset_aa)
       IN  /\ reset_ack' = (reset_ack \/ c = ACK)
           /\ reset_aa' = (reset_aa \/ c = BAT_OK)
           /\ ret' = IF bad THEN EIO ELSE c
           /\ pc' = CASE bad -> "done"
                      [] ~bad /\ pc = "reset1" -> "reset2"
                      [] OTHER -> "drain"
    /\ UNCHANGED <<device, ident, type>>

\* Fault: nothing is thrown away.
Drain_skipped(c) ==
    /\ pc = "drain" /\ c = STREAM_EOF
    /\ Send("disablescanning")
    /\ pc' = "disabled"
    /\ UNCHANGED <<recvqueue, ret, reset_ack, reset_aa, ident, type>>

\* "Some devices also send its ID when it resets. We throw that away here."
Drain(c) ==
    /\ pc = "drain"
    /\ stream_wait_char(c)
    /\ IF c = STREAM_EOF
       THEN Send("disablescanning") /\ pc' = "disabled"
       ELSE UNCHANGED <<device, pc>>
    /\ UNCHANGED <<ret, reset_ack, reset_aa, ident, type>>

\* Leaving identify_device always goes through enabling the scanning.
Leave(r) ==
    /\ Send("enablescanning")
    /\ pc' = "enabled"
    /\ ret' = r

DisableAcked(c) ==
    /\ pc = "disabled"
    /\ stream_wait_char(c)
    /\ IF c = ACK THEN Send("identify") /\ pc' = "identified" /\ UNCHANGED ret
       ELSE Leave(EIO)
    /\ UNCHANGED <<reset_ack, reset_aa, ident, type>>

\* Whether the command was acknowledged is not looked at.
IdentifyAcked(c) ==
    /\ pc = "identified"
    /\ stream_wait_char(c)
    /\ pc' = "ident"
    /\ UNCHANGED <<device, ret, reset_ack, reset_aa, ident, type>>

DeviceType(id) ==
    IF Len(id) = 1 /\ id[1] \in {0, 3, 4} THEN MOUSE ELSE KEYBOARD

\* One identification byte, or the end of them.
IdentByte(c) ==
    /\ pc = "ident"
    /\ stream_wait_char(c)
    /\ LET id == IF c = STREAM_EOF THEN ident ELSE Append(ident, c)
       IN  /\ ident' = id
           /\ IF c # STREAM_EOF /\ Len(id) < 2
              THEN UNCHANGED <<device, pc, ret>>
              ELSE Leave(DeviceType(id))
    /\ UNCHANGED <<reset_ack, reset_aa, type>>

EnableAcked(c) ==
    /\ pc = "enabled"
    /\ stream_wait_char(c)
    /\ pc' = "decide"
    /\ UNCHANGED <<device, ret, reset_ack, reset_aa, ident, type>>

\* A failed identification is taken for a keyboard; ps2kbd_init follows in
\* module Ps2Kbd and returns 0 or an error.
Decide ==
    /\ pc = "decide"
    /\ type' = IF ret = EIO THEN KEYBOARD ELSE ret
    /\ ret' \in IF type' = KEYBOARD THEN {0, EIO} ELSE {MOUSE}
    /\ pc' = "done"
    /\ UNCHANGED <<device, recvqueue, reset_ack, reset_aa, ident>>

Thread ==
    \/ reset_device_send
    \/ \E c \in Bytes : reset_device_wait(c) \/ Drain(c) \/ DisableAcked(c)
                        \/ IdentifyAcked(c) \/ IdentByte(c) \/ EnableAcked(c)
    \/ Decide

Next == Thread \/ ps2port_received_byte \/ PressKey

Spec == Init /\ [][Next]_vars

\* The thread runs and a byte the device has is delivered.
FairSpec == Spec /\ WF_vars(Thread) /\ WF_vars(ps2port_received_byte)

-----------------------------------------------------------------------------
\* A keyboard that answers in time is given to the keyboard driver, whatever
\* is typed during the bring-up (identify_device, init_device).  With answers
\* later than the timeouts a scan code can pass for a mouse's identification.
KeyboardRecognised ==
    pc = "done" /\ kind \in {"keyboard", "old_keyboard"} => type = KEYBOARD

\* A mouse that answers in time is recognised, although it sends its
\* identification after the reset too.
MouseRecognised == pc = "done" /\ kind = "mouse" => type = MOUSE

\* Scanning is on again on every way out of the identification, failed ones
\* included: a keyboard left with scanning off would be dead.
ScanningRestored ==
    pc \in {"enabled", "decide"} /\ kind # "absent" => scanning

\* Once keys are no longer pressed the bring-up ends: every wait is bounded
\* by its timeout, and so is throwing away what the device sends.
BringUpReturns == <>(pc = "done")

\* ps2.c:159: "Returns 0, or IOERROR_~ value on failure."
InitReturnsZeroOrError == pc = "done" => ret <= 0
=============================================================================
