------------------------------- MODULE Serial -------------------------------
(***************************************************************************)
(* One serial port (kernel/arch/i586/serial.c) and the character input of  *)
(* streams on top of it (kernel/io/stream.c).  A thread writes a text and  *)
(* waits for characters; the interrupt handler moves bytes between the     *)
(* queues and the UART.  The console (co_put_char) writes with interrupts  *)
(* disabled, the window server with interrupts enabled; both read with     *)
(* interrupts enabled.  The UART is external: one transmit and one receive *)
(* register, without FIFOs, and interrupts that may be delivered late.     *)
(***************************************************************************)
EXTENDS Integers, Sequences, Functions

CONSTANTS
    Texts,       \* texts to write: sequences of "a", "nl" and "cr"
    CrToCrlf,    \* cr_to_crlf: TRUE for the console
    IrqsOn,      \* whether the writer has interrupts enabled
    QueueCap,    \* ARCHI586_SERIAL_QUEUE_SIZE, 64 in the code
    MaxIn,       \* bytes that arrive
    MaxOut,      \* output that is recorded: bytes on the line, bytes accepted
    None

Chars == {"a", "nl", "cr"}

\* Where a text has carriage returns of its own, every newline after the first
\* of them has one.
OwnCrs(t) ==
    \A i, j \in DOMAIN t : (i < j /\ t[i] = "cr" /\ t[j] = "nl") => t[j - 1] = "cr"

SerialAssumption ==
    /\ Texts \subseteq Seq(Chars)
    /\ \A t \in Texts : OwnCrs(t) /\ 2 * Len(t) <= MaxOut
    /\ CrToCrlf \in BOOLEAN /\ IrqsOn \in BOOLEAN
    /\ QueueCap \in Nat \ {0} /\ MaxIn \in Nat /\ MaxOut \in Nat
    /\ None \notin Nat /\ None \notin Nat \X Chars

VARIABLES
    text, sent,          \* what to write, how much of it was written
    pc, out, cr,         \* the thread, the byte it sends, self->cr
    timer,               \* of stream_wait_char: "never", "running" or "over"
    tx_queue, rx_queue,
    irqpc,               \* the interrupt handler
    thr, txint, rbr,     \* UART: transmit and receive registers, interrupt
    line, arrived,       \* bytes on the line, number of bytes received
    accepted, got        \* bytes queued or written, characters read

thread == <<text, sent, pc, out, cr, timer>>
uart == <<thr, txint, rbr, line, arrived>>
vars == <<thread, tx_queue, rx_queue, irqpc, uart, accepted, got>>

Init ==
    /\ text \in Texts /\ sent = 0
    /\ pc = "idle" /\ out = None /\ cr = FALSE /\ timer = "never"
    /\ tx_queue = << >> /\ rx_queue = << >> /\ irqpc = "none"
    /\ thr = None /\ txint = TRUE /\ rbr = None /\ line = << >> /\ arrived = 0
    /\ accepted = 0 /\ got = << >>

(***************************************************************************)
(* The UART.                                                               *)
(***************************************************************************)
Transmit ==
    /\ thr # None
    /\ line' = IF Len(line) < MaxOut THEN Append(line, thr) ELSE line
    /\ thr' = None /\ txint' = TRUE
    /\ UNCHANGED <<thread, tx_queue, rx_queue, irqpc, rbr, arrived, accepted, got>>

Arrive ==
    /\ arrived < MaxIn
    /\ arrived' = arrived + 1 /\ rbr' = arrived + 1
    /\ UNCHANGED <<thread, tx_queue, rx_queue, irqpc, thr, txint, line, accepted, got>>

(***************************************************************************)
(* The interrupt handler.  Received data comes before the transmit         *)
(* interrupt; reading IIR acknowledges the latter.                         *)
(***************************************************************************)
Interruptible ==
    irqpc = "none" /\ (IrqsOn \/ pc \notin {"send", "enqueue", "poll"})

irq_handler_rx ==
    /\ Interruptible /\ rbr # None
    /\ rx_queue' = IF Len(rx_queue) < QueueCap THEN Append(rx_queue, rbr) ELSE rx_queue
    /\ rbr' = None
    /\ UNCHANGED <<thread, tx_queue, irqpc, thr, txint, line, arrived, accepted, got>>

irq_handler_tx ==
    /\ Interruptible /\ rbr = None /\ txint
    /\ irqpc' = "tx" /\ txint' = FALSE
    /\ UNCHANGED <<thread, tx_queue, rx_queue, thr, rbr, line, arrived, accepted, got>>

\* The queue is emptied into the register without waiting for it.
irq_handler_send ==
    /\ irqpc = "tx"
    /\ IF tx_queue # << >>
       THEN /\ thr' = Head(tx_queue) /\ txint' = FALSE
            /\ tx_queue' = Tail(tx_queue) /\ UNCHANGED irqpc
       ELSE irqpc' = "none" /\ UNCHANGED <<thr, txint, tx_queue>>
    /\ UNCHANGED <<thread, rx_queue, rbr, line, arrived, accepted, got>>

(***************************************************************************)
(* Writing.  stream_op_write sends a carriage return before a newline      *)
(* until the text holds a carriage return of its own: cr is then set and   *)
(* only cleared where it is not set.                                       *)
(***************************************************************************)
other == <<rx_queue, irqpc, rbr, line, arrived, got>>

\* The byte that is sent first for the next character.
FirstByte(c) ==
    IF CrToCrlf /\ c = "nl" /\ ~cr THEN "cr" ELSE c

stream_op_write ==
    /\ irqpc = "none" /\ pc = "idle" /\ sent < Len(text)
    /\ LET c == text[sent + 1]
       IN  /\ out' = <<sent + 1, FirstByte(c)>>
           /\ cr' = (cr \/ (CrToCrlf /\ c = "cr"))
    /\ pc' = "send"
    /\ UNCHANGED <<text, sent, timer, tx_queue, thr, txint, accepted, other>>

\* What follows the byte that was sent: the newline itself, or nothing.
Sent ==
    IF text[out[1]] = out[2]
    THEN sent' = sent + 1 /\ pc' = "idle" /\ out' = None
    ELSE pc' = "send" /\ out' = <<out[1], text[out[1]]>> /\ UNCHANGED sent

Accept == accepted' = IF accepted < MaxOut THEN accepted + 1 ELSE accepted

wait_and_send ==
    /\ irqpc = "none" /\ pc = "send"
    /\ pc' = IF thr # None /\ IrqsOn THEN "enqueue" ELSE "poll"
    /\ UNCHANGED <<text, sent, out, cr, timer, tx_queue, thr, txint, accepted, other>>

\* QUEUE_ENQUEUE returns 0 when it succeeds: the loop goes on until it fails.
EnqueueLoop ==
    /\ irqpc = "none" /\ pc = "enqueue"
    /\ IF Len(tx_queue) < QueueCap
       THEN /\ tx_queue' = Append(tx_queue, out) /\ Accept
            /\ UNCHANGED <<sent, pc, out>>
       ELSE Sent /\ UNCHANGED <<tx_queue, accepted>>
    /\ UNCHANGED <<text, cr, timer, thr, txint, other>>

\* Fault: the register is not looked at.
CanWrite_always == TRUE

CanWrite == thr = None

\* wait_lsr_ready_to_send and write_data.
PollLoop ==
    /\ irqpc = "none" /\ pc = "poll" /\ CanWrite
    /\ thr' = out /\ txint' = FALSE /\ Accept
    /\ Sent
    /\ UNCHANGED <<text, cr, timer, tx_queue, other>>

(***************************************************************************)
(* Reading: stream_wait_char, with or without a timeout, and wait_and_recv. *)
(***************************************************************************)
rest == <<text, sent, out, cr, tx_queue, irqpc, thr, txint, line, arrived, accepted>>

stream_wait_char ==
    /\ irqpc = "none" /\ pc = "idle"
    /\ pc' = "wait" /\ timer' \in {"never", "running"}
    /\ UNCHANGED <<rest, rx_queue, rbr, got>>

Tick ==
    /\ pc \in {"wait", "rx_queue", "rx_poll"} /\ timer = "running"
    /\ timer' = "over"
    /\ UNCHANGED <<rest, pc, rx_queue, rbr, got>>

\* Either STREAM_EOF, or a read of one character.
WaitLoop ==
    /\ irqpc = "none" /\ pc = "wait"
    /\ pc' = IF timer = "over" THEN "idle"
             ELSE IF rbr = None THEN "rx_queue" ELSE "rx_poll"
    /\ UNCHANGED <<rest, timer, rx_queue, rbr, got>>

\* Fault: the queue keeps the character.
DequeueRest_kept == rx_queue

DequeueRest == Tail(rx_queue)

DequeueLoop ==
    /\ irqpc = "none" /\ pc = "rx_queue" /\ rx_queue # << >>
    /\ got' = Append(got, Head(rx_queue)) /\ rx_queue' = DequeueRest
    /\ pc' = "idle"
    /\ UNCHANGED <<rest, timer, rbr>>

\* wait_lsr_ready_to_recv and read_data.
PollRecv ==
    /\ irqpc = "none" /\ pc = "rx_poll" /\ rbr # None
    /\ got' = Append(got, rbr) /\ rbr' = None
    /\ pc' = "idle"
    /\ UNCHANGED <<rest, timer, rx_queue>>

Thread ==
    \/ stream_op_write \/ wait_and_send \/ EnqueueLoop \/ PollLoop
    \/ WaitLoop \/ DequeueLoop \/ PollRecv

Irq == irq_handler_rx \/ irq_handler_tx \/ irq_handler_send

Next == Thread \/ stream_wait_char \/ Irq \/ Transmit \/ Arrive \/ Tick

Spec == Init /\ [][Next]_vars

\* The thread and the handler run, the UART transmits and time passes.
FairSpec == /\ Spec /\ WF_vars(Thread) /\ WF_vars(Irq)
            /\ WF_vars(Transmit) /\ WF_vars(Tick)

-----------------------------------------------------------------------------
\* What character i of the text is on the line: a newline comes with a carriage
\* return unless there is one before it.
Bytes(i) ==
    IF text[i] = "nl" /\ CrToCrlf /\ (i = 1 \/ text[i - 1] # "cr")
    THEN {<<i, "cr">>, <<i, "nl">>} ELSE {<<i, text[i]>>}

Before(a, b) == a[1] < b[1] \/ (a[1] = b[1] /\ a[2] = "cr" /\ b[2] = "nl")

\* What was written to the port: on the line and in the register.
Output == line \o (IF thr = None THEN << >> ELSE <<thr>>)

\* With interrupts disabled, as the console writes, exactly the text goes out,
\* nothing lost, repeated or out of order, although interrupts come in between
\* the characters (stream_op_write, wait_and_send, irq_handler).
OutputExact ==
    pc = "idle" =>
        /\ Range(Output) = UNION {Bytes(i) : i \in 1 .. sent}
        /\ \A i, j \in DOMAIN Output : i < j => Before(Output[i], Output[j])

\* A character that arrived is read at most once, whether the handler or the
\* polling loop takes it (wait_and_recv, irq_handler).
ReadOnce ==
    LET all == got \o rx_queue \o (IF rbr = None THEN << >> ELSE <<rbr>>)
    IN  IsInjective(all)

\* Both, the first for the writer with interrupts disabled.
SerialExact == ReadOnce /\ (~IrqsOn => OutputExact)

\* stream.h:15: write "Returns written length, or IOERROR_~ values on failure."
WritesReportedLength == pc = "idle" => accepted = sent

\* The same promise of stream_ops, "written": what a write with interrupts
\* enabled left in the queue goes out, without waiting for another write
\* (wait_and_send, irq_handler).
QueueDrains == (tx_queue # << >>) ~> (tx_queue = << >>)

\* stream.h:40: stream_wait_char "Returns STREAM_EOF on timeout."
WaitReturns == (pc = "wait" /\ timer = "running") ~> (pc = "idle")
=============================================================================
