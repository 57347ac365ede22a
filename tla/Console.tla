------------------------------ MODULE Console ------------------------------
(***************************************************************************)
(* The console multiplexer (kernel/io/co.c) with the character input of    *)
(* streams (stream_wait_char) and of the text terminals (stream_op_read of *)
(* vt100tty.c and vgatty.c).  The boot thread sets the consoles up, asks   *)
(* the user for the primary one and then reads from it; other threads      *)
(* print at any time.  Only the calls that print disable interrupts.       *)
(* The streams are the terminal of the screen and keyboard, "tty", whose   *)
(* read returns at once, and the serial port, "serial", whose read waits   *)
(* for a byte.                                                             *)
(***************************************************************************)
EXTENDS Integers, Sequences, Functions

CONSTANTS
    MaxMessages,   \* messages that are printed
    QueueCap,      \* characters that a stream holds for its reader
    None

Streams == {"tty", "serial"}

ConsoleAssumption == MaxMessages \in Nat /\ QueueCap \in Nat \ {0} /\ None \notin Streams

VARIABLES
    s_primary_stream, s_debug_stream,
    printed,       \* number of messages printed
    shown,         \* the messages each stream has shown
    input,         \* what waits to be read on each stream
    pc, temp,      \* the boot thread
    timer,         \* of stream_wait_char: "running" or "over"
    last           \* what co_get_char returned last

consoles == <<s_primary_stream, s_debug_stream>>
output == <<printed, shown>>
vars == <<consoles, output, input, pc, temp, timer, last>>

Init ==
    /\ s_primary_stream = None /\ s_debug_stream = None
    /\ printed = 0 /\ shown = [d \in Streams |-> << >>]
    /\ input = [d \in Streams |-> << >>]
    /\ pc = "boot_debug" /\ temp = None /\ timer = "over" /\ last = None

(***************************************************************************)
(* Printing: co_put_char, co_put_string and co_vprintf.                    *)
(***************************************************************************)
\* The message goes to stream d, if there is one.
PrintOn(d, all) == IF d = None THEN all ELSE [all EXCEPT ![d] = Append(@, printed + 1)]

\* Fault: a stream that has both roles is written to twice.
PrintedOnAll_twice == PrintOn(s_debug_stream, PrintOn(s_primary_stream, shown))

PrintedOnAll ==
    PrintOn(IF s_primary_stream # s_debug_stream THEN s_debug_stream ELSE None,
            PrintOn(s_primary_stream, shown))

co_vprintf ==
    /\ printed < MaxMessages /\ pc # "crashed"
    /\ printed' = printed + 1
    /\ shown' = PrintedOnAll
    /\ UNCHANGED <<consoles, input, pc, temp, timer, last>>

(***************************************************************************)
(* Input: the keyboard also reports key releases and keys without a        *)
(* character, "other", which the terminal's read swallows.                 *)
(***************************************************************************)
Keys(d) == IF d = "tty" THEN {"1", "x", "other"} ELSE {"2", "cr"}

Type(d, key) ==
    /\ Len(input[d]) < QueueCap
    /\ input' = [input EXCEPT ![d] = Append(@, key)]
    /\ UNCHANGED <<consoles, output, pc, temp, timer, last>>

(***************************************************************************)
(* The boot thread: boot.c and bootinfo.c set the consoles there are, then *)
(* kernel.c asks.                                                          *)
(***************************************************************************)
Goto(label) == pc' = label /\ UNCHANGED <<output, input, last>>

co_set_debug_console ==
    /\ pc = "boot_debug" /\ Goto("boot_primary")
    /\ s_debug_stream' \in {None, "serial"}
    /\ UNCHANGED <<s_primary_stream, temp, timer>>

co_set_primary_console ==
    /\ pc = "boot_primary" /\ Goto("ask")
    /\ s_primary_stream' \in {None, "tty"}
    /\ UNCHANGED <<s_debug_stream, temp, timer>>

\* Without any console the prompt is written through a null pointer.
co_ask_primary_console ==
    /\ pc = "ask"
    /\ IF s_primary_stream # None /\ s_debug_stream = None
       THEN Goto("shell") /\ UNCHANGED s_primary_stream
       ELSE IF s_primary_stream = None /\ s_debug_stream # None
       THEN Goto("only_debug") /\ s_primary_stream' = s_debug_stream
       ELSE Goto(IF s_primary_stream = None THEN "crashed" ELSE "start_primary")
            /\ UNCHANGED s_primary_stream
    /\ UNCHANGED <<s_debug_stream, temp, timer>>

OnlyDebug ==
    /\ pc = "only_debug" /\ Goto("shell")
    /\ s_debug_stream' = None
    /\ UNCHANGED <<s_primary_stream, temp, timer>>

\* The loop: stream_wait_char on each console with a timeout of 10 ticks.
WaitStart ==
    /\ \/ pc = "start_primary" /\ Goto("wait_primary")
       \/ pc = "start_debug" /\ Goto("wait_debug")
    /\ timer' = "running"
    /\ UNCHANGED <<consoles, temp>>

Tick ==
    /\ timer = "running" /\ timer' = "over"
    /\ UNCHANGED <<consoles, output, input, pc, temp, last>>

\* The timeout is looked at between two reads; a read of the serial port does
\* not return without a byte.
WaitTimeout ==
    /\ timer = "over"
    /\ \/ pc = "wait_primary" /\ Goto("start_debug")
       \/ pc = "wait_debug" /\ Goto("start_primary")
    /\ UNCHANGED <<consoles, temp, timer>>

Pull(d) == input' = [input EXCEPT ![d] = Tail(@)]

\* Fault: the answers of the two consoles are exchanged.
Answer_exchanged(c) == c = IF pc = "wait_primary" THEN "2" ELSE "1"

Answer(c) == c = IF pc = "wait_primary" THEN "1" ELSE "2"

AfterRead(c) ==
    IF pc = "wait_primary"
    THEN IF c = "other" THEN pc ELSE IF Answer(c) THEN "shell" ELSE "start_debug"
    ELSE IF Answer(c) THEN "swap" ELSE "start_primary"

PollTty ==
    /\ pc = "wait_primary" /\ timer = "running" /\ input["tty"] # << >>
    /\ Pull("tty") /\ pc' = AfterRead(Head(input["tty"]))
    /\ UNCHANGED <<consoles, output, temp, timer, last>>

ReadSerial ==
    /\ pc = "wait_debug" /\ timer = "running" /\ Goto("read_debug")
    /\ UNCHANGED <<consoles, temp, timer>>

Received ==
    /\ pc = "read_debug" /\ input["serial"] # << >>
    /\ Pull("serial") /\ pc' = AfterRead(Head(input["serial"]))
    /\ UNCHANGED <<consoles, output, temp, timer, last>>

Swap ==
    /\ \/ /\ pc = "swap" /\ Goto("swap2")
          /\ temp' = s_primary_stream /\ s_primary_stream' = s_debug_stream
          /\ UNCHANGED s_debug_stream
       \/ /\ pc = "swap2" /\ Goto("shell")
          /\ s_debug_stream' = temp /\ UNCHANGED <<s_primary_stream, temp>>
    /\ UNCHANGED timer

\* The shell reads from the primary console.
co_get_char ==
    /\ pc = "shell" /\ input[s_primary_stream] # << >> /\ Pull(s_primary_stream)
    /\ LET c == Head(input[s_primary_stream])
       IN  last' = IF c = "other" THEN last ELSE IF c = "cr" THEN "nl" ELSE c
    /\ UNCHANGED <<consoles, output, pc, temp, timer>>

Boot ==
    \/ co_set_debug_console \/ co_set_primary_console \/ co_ask_primary_console
    \/ OnlyDebug \/ WaitStart \/ WaitTimeout
    \/ PollTty \/ ReadSerial \/ Received \/ Swap

Next ==
    \/ co_vprintf \/ Boot \/ co_get_char \/ Tick
    \/ \E d \in Streams : \E key \in Keys(d) : Type(d, key)

Spec == Init /\ [][Next]_vars

\* The user holds down 1, as kernel.c asks for, and types something on the serial
\* line; no thread is kept from running for the length of every timeout.
FairSpec ==
    /\ Spec /\ WF_vars(Boot) /\ SF_vars(PollTty)
    /\ SF_vars(Type("tty", "1")) /\ WF_vars(Type("serial", "cr"))

----------------------------------------------------------------------------
\* No console shows a message twice or out of order, and once one has shown a
\* message no later one is lost on all of them, although the roles of the streams
\* change one after the other with interrupts enabled (co_vprintf,
\* co_ask_primary_console).
OutputOnce ==
    \A d \in Streams :
        /\ \A i, j \in DOMAIN shown[d] : i < j => shown[d][i] < shown[d][j]
        /\ \A n \in Range(shown[d]) : \A m \in n .. printed :
              \E e \in Streams : m \in Range(shown[e])

\* The answer selects the console it was given on, and no console is lost by
\* it: where there was one at boot there is a primary console in the end
\* (co_ask_primary_console).
ConsolesKept ==
    pc = "shell" =>
        /\ s_primary_stream # None
        /\ s_debug_stream # s_primary_stream
        /\ temp = "tty" => s_primary_stream = "serial" /\ s_debug_stream = "tty"

ConsolesSound == OutputOnce /\ ConsolesKept

\* The question ends when the user answers it and something arrives on the
\* serial line, whose read ignores the timeout (co_ask_primary_console,
\* stream_wait_char).
SelectionEnds == (pc = "ask") ~> (pc \in {"shell", "crashed"})

\* A console that has shown a message shows all later ones.  It does not: while
\* the roles are swapped both are the same stream (co.c:46).
AllConsolesShow ==
    \A d \in Streams : \A n \in Range(shown[d]) : n .. printed \subseteq Range(shown[d])
============================================================================
