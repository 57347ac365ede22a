------------------------------- MODULE Ps2Kbd ------------------------------
(***************************************************************************)
(* The PS/2 keyboard driver of kernel/dev/ps2kbd.c on top of Kbd.  The     *)
(* boot thread runs ps2kbd_init, a script of commands that it sends one at *)
(* a time, spinning until the interrupt handler has seen the answer.  The  *)
(* handler, ps2_op_bytereceived, tells answers from scancodes, which the   *)
(* keyboard sends at any time, and decodes the scancodes of set 2.         *)
(*                                                                         *)
(* The keyboard is external: it answers every byte it is sent, asks for a  *)
(* byte again at most MaxResends times, and sends whole sequences for the  *)
(* keys that are pressed and released.  It is assumed to send keys only    *)
(* once the driver has the port and while it is in set 2, not in the       *)
(* moments in which ps2kbd_init tries the others.  Nobody reads the key    *)
(* events meanwhile (Kbd has the reader).  put_char may time out in the    *)
(* thread (if CanTimeout); in the handler the clock stands still, so it    *)
(* cannot.                                                                 *)
(***************************************************************************)
EXTENDS Kbd

CONSTANTS
    SupportedSets,  \* scancode sets the keyboard has
    MaxResends,     \* bound: how often the keyboard asks for a byte again
    MaxWire,        \* bound: bytes on the way when a key is hit
    CanTimeout,     \* whether the controller may refuse a byte
    HeapMayFail     \* whether allocations may fail

VARIABLES
    pc,             \* of ps2kbd_init: "start", "check", "insert", "send", "wait", "register",
                    \* "done", "failed"
    at,             \* the request of Script it is at
    isqueueempty,   \* local of request_cmd
    cmd,            \* request -> state of its cmd_context and resendcount
    cmd_queue,      \* requests in ctx->cmd_queue, front first
    scancodes_supported,
    ops_set,        \* whether port->ops is set
    input,          \* ctx->state
    fakes,          \* ctx->flags
    next_key_byte_index,
    line,           \* byte on its way to the keyboard, or None
    wire,           \* bytes on their way to the handler
    kb,             \* keyboard: set in use, data it expects, keys held
    resends

ctxvars == <<cmd, cmd_queue, input, fakes, next_key_byte_index>>
initvars == <<pc, at, isqueueempty, scancodes_supported, ops_set>>
kbvars == <<line, wire, kb, resends>>
vars == <<kbdvars, ctxvars, initvars, kbvars>>

None == "none"
MAX_RESEND_COUNT == 3

Request(byte, noretry, needdata) == [byte |-> byte, noretry |-> noretry, needdata |-> needdata]
SetBytes == <<"set1", "set2", "set3">>
DataBytes == <<"01", "02", "03">>
set_scancode_set(set) == <<Request("f0", FALSE, FALSE), Request(SetBytes[set], TRUE, FALSE)>>
get_scancode_set == <<Request("f0", FALSE, FALSE), Request("query", TRUE, TRUE)>>

(* The requests of ps2kbd_init: echo, setledstate, a set and a get for     *)
(* every scancode set, and the final set.                                  *)
Script ==
    <<Request("ee", FALSE, FALSE), Request("ed", FALSE, FALSE), Request("leds", TRUE, FALSE)>>
    \o set_scancode_set(1) \o get_scancode_set
    \o set_scancode_set(2) \o get_scancode_set
    \o set_scancode_set(3) \o get_scancode_set
    \o set_scancode_set(2)

TestedSet(i) == (i - 4) \div 4 + 1

Init ==
    /\ KbdInit
    /\ pc = "start" /\ at = 1 /\ isqueueempty = FALSE
    /\ cmd = [i \in DOMAIN Script |-> [state |-> "unused", resendcount |-> MAX_RESEND_COUNT]]
    /\ cmd_queue = <<>> /\ scancodes_supported = {} /\ ops_set = FALSE
    /\ input = "DEFAULT" /\ fakes = {} /\ next_key_byte_index = 0
    /\ line = None /\ wire = <<>> /\ resends = 0
    /\ kb = [set |-> 2, expects |-> None, held |-> {}]

----------------------------------------------------------------------------
(* Where ps2kbd_init goes on after a request that failed: it gives up in   *)
(* echo and setledstate (and frees ctx), goes to the next set in the       *)
(* tests, and only warns at the end.                                       *)
AfterFailure ==
    \/ at <= 3 /\ pc' = "failed" /\ UNCHANGED at
    \/ at \in 4 .. 15 /\ pc' = "check" /\ at' = 4 + 4 * TestedSet(at)
    \/ at > 15 /\ pc' = "register" /\ UNCHANGED at

AfterSuccess ==
    IF at = Len(Script) THEN pc' = "register" /\ UNCHANGED at
    ELSE pc' = "check" /\ at' = at + 1

(* ps2kbd_init allocates its context and takes over the port. *)
ps2kbd_init ==
    /\ pc = "start"
    /\ \/ ops_set' = TRUE /\ pc' = "check"
       \/ HeapMayFail /\ pc' = "failed" /\ UNCHANGED ops_set
    /\ UNCHANGED <<kbdvars, ctxvars, at, isqueueempty, scancodes_supported, kbvars>>

request_cmd_check ==
    /\ pc = "check"
    /\ \/ isqueueempty' = (cmd_queue = <<>>) /\ pc' = "insert" /\ UNCHANGED at
       \/ HeapMayFail /\ AfterFailure /\ UNCHANGED isqueueempty
    /\ UNCHANGED <<kbdvars, ctxvars, scancodes_supported, ops_set, kbvars>>

(* Fault: the command that is sent is still marked as queued. *)
request_cmd_insert_queued ==
    /\ pc = "insert"
    /\ cmd' = [cmd EXCEPT ![at].state = "QUEUED"]
    /\ cmd_queue' = <<at>> \o cmd_queue
    /\ pc' = IF isqueueempty THEN "send" ELSE "wait"
    /\ UNCHANGED <<kbdvars, input, fakes, next_key_byte_index, at, isqueueempty,
                   scancodes_supported, ops_set, kbvars>>

request_cmd_insert ==
    /\ pc = "insert"
    /\ cmd' = [cmd EXCEPT ![at].state = IF isqueueempty THEN "WAITINGRESPONSE" ELSE "QUEUED"]
    /\ cmd_queue' = <<at>> \o cmd_queue
    /\ pc' = IF isqueueempty THEN "send" ELSE "wait"
    /\ UNCHANGED <<kbdvars, input, fakes, next_key_byte_index, at, isqueueempty,
                   scancodes_supported, ops_set, kbvars>>

(* stream_put_char: when it times out the command stays in the queue. *)
request_cmd_send ==
    /\ pc = "send"
    /\ \/ /\ line = None /\ line' = Script[at].byte /\ pc' = "wait"
          /\ UNCHANGED at
       \/ CanTimeout /\ AfterFailure /\ UNCHANGED line
    /\ UNCHANGED <<kbdvars, ctxvars, isqueueempty, scancodes_supported, ops_set, wire, kb, resends>>

(* The spinning loop ends when the handler has set a final state. *)
request_cmd_wait ==
    /\ pc = "wait"
    /\ \/ cmd[at].state = "FAILED" /\ AfterFailure /\ UNCHANGED scancodes_supported
       \/ /\ cmd[at].state \notin {"QUEUED", "WAITINGRESPONSE", "FAILED"}
          /\ AfterSuccess
          /\ scancodes_supported' = IF Script[at].needdata /\ cmd[at].state = DataBytes[TestedSet(at)]
                                    THEN scancodes_supported \cup {TestedSet(at)}
                                    ELSE scancodes_supported
    /\ UNCHANGED <<kbdvars, ctxvars, isqueueempty, ops_set, kbvars>>

(* The last call of ps2kbd_init, which may have to allocate. *)
kbd_register ==
    /\ pc = "register"
    /\ pc' = "done" \/ (HeapMayFail /\ pc' = "failed")
    /\ UNCHANGED <<kbdvars, ctxvars, at, isqueueempty, scancodes_supported, ops_set, kbvars>>

----------------------------------------------------------------------------

(* cmd_finished: the command leaves the queue, and the next one is sent.   *)
(* A SUCCESS with data is recorded as the byte received.                   *)
cmd_finished(final) ==
    LET rest == Front(cmd_queue)
        done == [cmd EXCEPT ![Last(cmd_queue)].state = final]
    IN  /\ cmd_queue' = rest
        /\ IF rest = <<>> THEN cmd' = done /\ UNCHANGED line
           ELSE /\ cmd' = [done EXCEPT ![Last(rest)].state = "WAITINGRESPONSE"]
                /\ line = None /\ line' = Script[Last(rest)].byte

Current == Last(cmd_queue)
Waiting == cmd_queue # <<>> /\ cmd[Current].state = "WAITINGRESPONSE"
NoCommandChange == UNCHANGED <<cmd, cmd_queue, line>>

ack_received ==
    IF ~Waiting THEN NoCommandChange /\ UNCHANGED input
    ELSE IF Script[Current].needdata
    THEN input' = "RESPONSEDATA" /\ NoCommandChange
    ELSE cmd_finished("SUCCESS") /\ UNCHANGED input

(* Fault: a command that was refused too often counts as done. *)
resend_received_success ==
    /\ UNCHANGED input
    /\ IF ~Waiting THEN NoCommandChange
       ELSE IF cmd[Current].resendcount > 0 /\ ~Script[Current].noretry
       THEN /\ cmd' = [cmd EXCEPT ![Current].resendcount = @ - 1]
            /\ line = None /\ line' = Script[Current].byte
            /\ UNCHANGED cmd_queue
       ELSE cmd_finished("SUCCESS")

resend_received ==
    /\ UNCHANGED input
    /\ IF ~Waiting THEN NoCommandChange
       ELSE IF cmd[Current].resendcount > 0 /\ ~Script[Current].noretry
       THEN /\ cmd' = [cmd EXCEPT ![Current].resendcount = @ - 1]
            /\ line = None /\ line' = Script[Current].byte
            /\ UNCHANGED cmd_queue
       ELSE cmd_finished("FAILED")

echo_received ==
    /\ UNCHANGED input
    /\ IF Waiting /\ Script[Current].byte = "ee" THEN cmd_finished("SUCCESS")
       ELSE NoCommandChange

(* Without a command the input state is left as it is. *)
response_byte_received(byte) ==
    IF cmd_queue = <<>> THEN NoCommandChange /\ UNCHANGED input
    ELSE /\ input' = "DEFAULT"
         /\ IF Waiting THEN cmd_finished(byte) ELSE NoCommandChange

----------------------------------------------------------------------------
KEYMAP_DEFAULT ==
    "1c" :> "A" @@ "12" :> "LSHIFT" @@ "14" :> "LCTRL" @@ "77" :> "NUM_LOCK"
    @@ "7c" :> "NUMPAD_MUL" @@ "6c" :> "NUMPAD_7" @@ "01" :> "F9" @@ "03" :> "F5"
KEYMAP_E0 == "14" :> "RCTRL" @@ "6c" :> "HOME"

KeyOf(keymap, byte) == IF byte \in DOMAIN keymap THEN keymap[byte] ELSE "INVALID"

key_pressed(key) == IF key = "INVALID" THEN UNCHANGED kbdvars ELSE kbd_key_pressed(key)
key_released(key) == IF key = "INVALID" THEN UNCHANGED kbdvars ELSE kbd_key_released(key)

FakeOf(byte) == CASE byte = "12" -> {"lshift"} [] byte = "7c" -> {"numpadmul"}
                  [] byte = "14" -> {"lctrl"} [] byte = "77" -> {"numlock"} [] OTHER -> {}
PrintScreenFakes == {"lshift", "numpadmul"}
PauseFakes == {"lctrl", "numlock"}

(* check_printscreen_press and check_pause_press, check_*_release. *)
PressIfAll(mask, key) ==
    IF mask \subseteq fakes' THEN kbd_key_pressed(key) ELSE UNCHANGED kbdvars
ReleaseIfNone(mask, key) ==
    IF mask \cap fakes' = {} THEN kbd_key_released(key) ELSE UNCHANGED kbdvars

scancode_first_byte_received(byte) ==
    /\ UNCHANGED fakes
    /\ CASE byte = "e0" -> input' = "E0EXT" /\ UNCHANGED kbdvars
         [] byte = "e1" -> input' = "E1EXT1" /\ UNCHANGED kbdvars
         [] byte = "f0" -> input' = "NORMALRELEASE" /\ UNCHANGED kbdvars
         [] OTHER -> key_pressed(KeyOf(KEYMAP_DEFAULT, byte)) /\ UNCHANGED input

normal_release_received(byte) ==
    /\ input' = "DEFAULT" /\ UNCHANGED fakes
    /\ key_released(KeyOf(KEYMAP_DEFAULT, byte))

e0_ext_received(byte) ==
    IF byte = "f0" THEN input' = "E0RELEASE" /\ UNCHANGED <<fakes, kbdvars>>
    ELSE /\ input' = "DEFAULT"
         /\ fakes' = fakes \cup (FakeOf(byte) \cap PrintScreenFakes)
         /\ IF byte \in {"12", "7c"} THEN PressIfAll(PrintScreenFakes, "PRINT_SCREEN")
            ELSE key_pressed(KeyOf(KEYMAP_E0, byte))

(* Fault: the fake keys of Print Screen stay down. *)
e0_release_keeping(byte) ==
    /\ input' = "DEFAULT" /\ UNCHANGED fakes
    /\ IF byte \in {"12", "7c"} THEN ReleaseIfNone(PrintScreenFakes, "PRINT_SCREEN")
       ELSE key_released(KeyOf(KEYMAP_E0, byte))

e0_release_received(byte) ==
    /\ input' = "DEFAULT"
    /\ fakes' = fakes \ (FakeOf(byte) \cap PrintScreenFakes)
    /\ IF byte \in {"12", "7c"} THEN ReleaseIfNone(PrintScreenFakes, "PRINT_SCREEN")
       ELSE key_released(KeyOf(KEYMAP_E0, byte))

e1_ext1_received(byte) ==
    /\ input' = IF byte = "f0" THEN "E1RELEASE1" ELSE "E1EXT2"
    /\ fakes' = fakes \cup (FakeOf(byte) \cap PauseFakes)
    /\ UNCHANGED kbdvars

e1_release1_received(byte) ==
    /\ input' = "E1EXT2" /\ fakes' = fakes \ (FakeOf(byte) \cap PauseFakes)
    /\ UNCHANGED kbdvars

e1_ext2_received(byte) ==
    /\ input' = IF byte = "f0" THEN "E1RELEASE2" ELSE "DEFAULT"
    /\ fakes' = fakes \cup (FakeOf(byte) \cap PauseFakes)
    /\ IF byte \in {"14", "77"} THEN PressIfAll(PauseFakes, "PAUSE") ELSE UNCHANGED kbdvars

e1_release2_received(byte) ==
    /\ input' = "DEFAULT" /\ fakes' = fakes \ (FakeOf(byte) \cap PauseFakes)
    /\ IF byte \in {"14", "77"} THEN ReleaseIfNone(PauseFakes, "PAUSE") ELSE UNCHANGED kbdvars

(* A sequence is stored from the start of keybytes. *)
FirstIndex == IF input = "DEFAULT" THEN 0 ELSE next_key_byte_index

(* Answers are recognised first, in any input state; everything else is    *)
(* read according to the input state.                                      *)
ps2_op_bytereceived(byte) ==
    /\ next_key_byte_index' = FirstIndex + 1
    /\ IF byte \in {"fa", "fe", "ee"} THEN
          /\ UNCHANGED <<kbdvars, fakes>>
          /\ CASE byte = "fa" -> ack_received
               [] byte = "fe" -> resend_received
               [] byte = "ee" -> echo_received
       ELSE IF input = "RESPONSEDATA" THEN
          response_byte_received(byte) /\ UNCHANGED <<kbdvars, fakes>>
       ELSE
          /\ NoCommandChange
          /\ CASE input = "DEFAULT" -> scancode_first_byte_received(byte)
               [] input = "NORMALRELEASE" -> normal_release_received(byte)
               [] input = "E0EXT" -> e0_ext_received(byte)
               [] input = "E0RELEASE" -> e0_release_received(byte)
               [] input = "E1EXT1" -> e1_ext1_received(byte)
               [] input = "E1RELEASE1" -> e1_release1_received(byte)
               [] input = "E1EXT2" -> e1_ext2_received(byte)
               [] input = "E1RELEASE2" -> e1_release2_received(byte)

(* A byte arrives.  After a failed ps2kbd_init ctx is freed memory, and    *)
(* what the handler then does is not modelled.                             *)
Irq ==
    /\ wire # <<>> /\ ops_set /\ pc # "failed"
    /\ wire' = Tail(wire)
    /\ ps2_op_bytereceived(Head(wire))
    /\ UNCHANGED <<initvars, kb, resends>>

----------------------------------------------------------------------------
(* The keyboard takes a byte and answers, or asks for it again. *)
KeyboardResend ==
    /\ line # None /\ line' = None
    /\ \/ resends < MaxResends /\ resends' = resends + 1
       \/ kb.expects = "f0" /\ line \in {SetBytes[s] : s \in 1 .. 3 \ SupportedSets}
          /\ UNCHANGED resends
    /\ wire' = Append(wire, "fe")
    /\ kb' = [kb EXCEPT !.expects = None]
    /\ UNCHANGED <<kbdvars, ctxvars, initvars>>

KeyboardAnswer ==
    /\ line # None /\ line' = None
    /\ \/ line = "ee" /\ wire' = Append(wire, "ee") /\ kb' = [kb EXCEPT !.expects = None]
       \/ /\ line \in {"ed", "f0"}
          /\ wire' = Append(wire, "fa") /\ kb' = [kb EXCEPT !.expects = line]
       \/ /\ line = "leds" /\ kb.expects = "ed"
          /\ wire' = Append(wire, "fa") /\ kb' = [kb EXCEPT !.expects = None]
       \/ \E s \in SupportedSets :
          /\ line = SetBytes[s] /\ kb.expects = "f0"
          /\ wire' = Append(wire, "fa") /\ kb' = [kb EXCEPT !.expects = None, !.set = s]
       \/ /\ line = "query" /\ kb.expects = "f0"
          /\ wire' = wire \o <<"fa", DataBytes[kb.set]>>
          /\ kb' = [kb EXCEPT !.expects = None]
    /\ UNCHANGED <<kbdvars, ctxvars, initvars, resends>>

(* The sequences of scancode set 2. *)
Make(key) ==
    CASE key = "PRINT_SCREEN" -> <<"e0", "12", "e0", "7c">>
      [] key = "PAUSE" -> <<"e1", "14", "77", "e1", "f0", "14", "f0", "77">>
      [] key = "RCTRL" -> <<"e0", "14">>
      [] key = "HOME" -> <<"e0", "6c">>
      [] OTHER -> <<CHOOSE b \in DOMAIN KEYMAP_DEFAULT : KEYMAP_DEFAULT[b] = key>>
Break(key) ==
    CASE key = "PRINT_SCREEN" -> <<"e0", "f0", "7c", "e0", "f0", "12">>
      [] key = "RCTRL" -> <<"e0", "f0", "14">>
      [] key = "HOME" -> <<"e0", "f0", "6c">>
      [] OTHER -> <<"f0", CHOOSE b \in DOMAIN KEYMAP_DEFAULT : KEYMAP_DEFAULT[b] = key>>

(* A key goes down (or repeats) or up.  Pause has no release. *)
KeyboardKey(key) ==
    /\ ops_set /\ kb.set = 2 /\ kb.expects = None /\ Len(wire) <= MaxWire
    /\ \/ wire' = wire \o Make(key)
          /\ kb' = IF key = "PAUSE" THEN kb ELSE [kb EXCEPT !.held = @ \cup {key}]
       \/ /\ key \in kb.held
          /\ wire' = wire \o Break(key) /\ kb' = [kb EXCEPT !.held = @ \ {key}]
    /\ UNCHANGED <<kbdvars, ctxvars, initvars, line, resends>>

Thread ==
    \/ ps2kbd_init \/ kbd_register
    \/ request_cmd_check \/ request_cmd_insert \/ request_cmd_send \/ request_cmd_wait

Next ==
    \/ Thread \/ Irq \/ KeyboardResend \/ KeyboardAnswer
    \/ \E key \in Keys : KeyboardKey(key)

Spec == Init /\ [][Next]_vars

(* The same from the end of ps2kbd_init on, when only keys are left. *)
ReadyInit ==
    /\ KbdInit
    /\ pc = "done" /\ at = Len(Script) /\ isqueueempty = TRUE
    /\ cmd = [i \in DOMAIN Script |-> [state |-> "SUCCESS", resendcount |-> MAX_RESEND_COUNT]]
    /\ cmd_queue = <<>> /\ scancodes_supported = SupportedSets /\ ops_set = TRUE
    /\ input = "DEFAULT" /\ fakes = {} /\ next_key_byte_index = 2
    /\ line = None /\ wire = <<>> /\ resends = 0
    /\ kb = [set |-> 2, expects |-> None, held |-> {}]

ReadySpec == ReadyInit /\ [][Next]_vars

(* The boot thread is scheduled, interrupts are taken, and the keyboard    *)
(* deals with every byte it is sent.                                       *)
FairSpec ==
    Spec /\ WF_vars(Thread) /\ WF_vars(Irq) /\ WF_vars(KeyboardResend \/ KeyboardAnswer)

----------------------------------------------------------------------------
(* The command queue and the decoder have their types, and the queue of a  *)
(* driver without timeouts never holds two commands.                       *)
TypeOK ==
    /\ KbdTypeOK
    /\ cmd_queue \in Seq(DOMAIN Script) /\ (CanTimeout \/ Len(cmd_queue) <= 1)
    /\ scancodes_supported \subseteq 1 .. 3
    /\ input \in {"DEFAULT", "RESPONSEDATA", "NORMALRELEASE", "E0EXT", "E0RELEASE", "E1EXT1",
                  "E1RELEASE1", "E1EXT2", "E1RELEASE2"}

(* Answers and scancodes are never taken for each other: when no byte is   *)
(* on the way the decoder is back at the start of a sequence, and the keys *)
(* the kernel thinks are down are keys that are held (all of them, if no   *)
(* NumLock key releases keys).                                             *)
KeysFollowKeyboard ==
    wire = <<>> /\ pc # "failed" =>
        /\ input = "DEFAULT" /\ fakes \subseteq (IF "PRINT_SCREEN" \in kb.held THEN PrintScreenFakes ELSE {})
        /\ s_keysdown \subseteq kb.held
        /\ "NUM_LOCK" \notin Keys => s_keysdown = kb.held

(* The bytes of a sequence fit in keybytes, and report_bad_scancode can    *)
(* print them.                                                             *)
KeyBytesFit == next_key_byte_index <= 8

(* The scancode sets that ps2kbd_init finds are sets the keyboard has, and *)
(* unless the keyboard refused one of the last bytes it ends up in set 2.  *)
KeyboardConfigured ==
    /\ scancodes_supported \subseteq SupportedSets
    /\ pc = "done" /\ cmd[Len(Script)].state = "SUCCESS" => kb.set = 2

(* ps2kbd_init returns, whatever is typed and however often the keyboard   *)
(* asks for a byte again.                                                  *)
InitReturns == <>(pc \in {"done", "failed"})

(* "When ops is set (= device-specific driver is ready)": the callback is  *)
(* only set while the driver behind it is there.                           *)
OpsMeansReady == ops_set => pc # "failed"
============================================================================
