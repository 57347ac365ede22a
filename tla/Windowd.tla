------------------------------ MODULE Windowd ------------------------------
(***************************************************************************)
(* The window server (kernel/windowd.c): its thread waits on a serial port *)
(* for the connection setup of an X11 client, a byte at a time, and        *)
(* refuses it.  Bytes have ByteMod values, so that small numbers need both *)
(* bytes of a CARD16.                                                      *)
(***************************************************************************)
EXTENDS Integers, Sequences, SequencesExt

CONSTANTS
    ByteMod,     \* 256 in the code
    Setups,      \* [order, major, minor, name, data]: what a client may send
    Reason       \* the text of the refusal

MSB == 2
LSB == 1
WindowdAssumption ==
    /\ ByteMod \in Nat /\ ByteMod > MSB /\ Len(Reason) < ByteMod
    /\ \A s \in Setups : s.order \in {MSB, LSB}

VARIABLES
    request, unsent, queue,   \* the client's setup, what it has yet to send, the port
    pc, field, buf, setup,    \* the thread, the field it receives, what it has
    strings,                  \* blocks of the heap it holds
    sent                      \* the bytes of its reply

vars == <<request, unsent, queue, pc, field, buf, setup, strings, sent>>

(***************************************************************************)
(* CARD16 and padding.                                                     *)
(***************************************************************************)
Card16(order, value) ==
    IF order = MSB THEN <<value \div ByteMod, value % ByteMod>>
    ELSE <<value % ByteMod, value \div ByteMod>>

\* Fault: the byte order is not looked at.
proto_recv_card16_lsb(order, b) == b[2] * ByteMod + b[1]

proto_recv_card16(order, b) ==
    IF order = MSB THEN b[1] * ByteMod + b[2] ELSE b[2] * ByteMod + b[1]

\* Fault: a multiple of four is padded too.
proto_pad_always(len) == 4 - (len % 4)

proto_pad(len) == (4 - (len % 4)) % 4

Unused(n) == [i \in 1 .. n |-> 0]

\* What X11 clients send: strings are followed by bytes up to a multiple of four.
UpToFour(len) == CHOOSE p \in 0 .. 3 : (len + p) % 4 = 0
Padded(s) == s \o Unused(UpToFour(Len(s)))
Encode(s) ==
    <<s.order, 0>> \o Card16(s.order, s.major) \o Card16(s.order, s.minor)
    \o Card16(s.order, Len(s.name)) \o Card16(s.order, Len(s.data)) \o Unused(2)
    \o Padded(s.name) \o Padded(s.data)

NoSetup == [order |-> LSB, major |-> 0, minor |-> 0, n |-> 0, d |-> 0, name |-> <<>>, data |-> <<>>]

Init ==
    /\ request \in Setups /\ unsent = Encode(request) /\ queue = <<>>
    /\ pc = "setup" /\ field = "order" /\ buf = <<>> /\ setup = NoSetup
    /\ strings = {} /\ sent = <<>>

Send ==
    /\ unsent # <<>> /\ queue' = Append(queue, Head(unsent)) /\ unsent' = Tail(unsent)
    /\ UNCHANGED <<request, pc, field, buf, setup, strings, sent>>

(***************************************************************************)
(* proto_recv_connection_setup: the fields in order, each of some length.  *)
(***************************************************************************)
Fields == <<"order", "unused", "major", "minor", "n", "d", "unused2",
            "name", "name_pad", "data", "data_pad">>
After(f) == IF f = "data_pad" THEN "end" ELSE Fields[1 + CHOOSE i \in DOMAIN Fields : Fields[i] = f]
Length(f) ==
    CASE f \in {"order", "unused"} -> 1
      [] f = "name" -> IF "name" \in strings THEN setup.n ELSE 0
      [] f = "data" -> IF "data" \in strings THEN setup.d ELSE 0
      [] f = "name_pad" -> proto_pad(setup.n)
      [] f = "data_pad" -> proto_pad(setup.d)
      [] OTHER -> 2

\* proto_recv_string8 allocates before it receives; without memory it receives
\* nothing.
Allocate ==
    /\ pc = "setup" /\ field \in {"name", "data"} /\ buf = <<>> /\ pc' = "string"
    /\ strings' \in {strings, strings \cup {field}}
    /\ UNCHANGED <<request, unsent, queue, field, buf, setup, sent>>

Receiving == pc = "string" \/ (pc = "setup" /\ field \notin {"name", "data", "end"})

RecvByte ==
    /\ Receiving /\ Len(buf) < Length(field) /\ queue # <<>>
    /\ buf' = Append(buf, Head(queue)) /\ queue' = Tail(queue)
    /\ UNCHANGED <<request, unsent, pc, field, setup, strings, sent>>

FieldDone ==
    /\ Receiving /\ Len(buf) = Length(field)
    /\ setup' = CASE field = "order" -> [setup EXCEPT !.order = IF buf[1] = MSB THEN MSB ELSE LSB]
                  [] field \in {"major", "minor", "n", "d"} ->
                        [setup EXCEPT ![field] = proto_recv_card16(setup.order, buf)]
                  [] field \in {"name", "data"} -> [setup EXCEPT ![field] = buf]
                  [] OTHER -> setup
    /\ field' = After(field) /\ buf' = <<>> /\ pc' = "setup"
    /\ UNCHANGED <<request, unsent, queue, strings, sent>>

(***************************************************************************)
(* proto_handle_connection_setup and tmain: without memory the machine is  *)
(* halted, otherwise the client is refused.                                *)
(***************************************************************************)
proto_send_connection_refuse ==
    LET n == Len(Reason)
        p == proto_pad(n)
    IN  <<0, n>> \o Card16(setup.order, setup.major) \o Card16(setup.order, setup.minor)
        \o Card16(setup.order, (n + p) \div 4) \o Reason \o Unused(p)

Answer ==
    /\ pc = "setup" /\ field = "end"
    /\ IF strings = {"name", "data"}
       THEN pc' = "listening" /\ sent' = proto_send_connection_refuse /\ UNCHANGED strings
       ELSE pc' = "halted" /\ strings' = {} /\ UNCHANGED sent
    /\ UNCHANGED <<request, unsent, queue, field, buf, setup>>

Next == Send \/ Allocate \/ RecvByte \/ FieldDone \/ Answer

\* The client goes on sending, the thread is scheduled again and again.
FairSpec == Init /\ [][Next]_vars /\ WF_vars(Send) /\ WF_vars(Allocate \/ RecvByte \/ FieldDone \/ Answer)

----------------------------------------------------------------------------
\* When windowd has answered, it has received every field of the setup the
\* client sent, in the client's byte order, and nothing after it; and its reply
\* is as long as the header of the reply says to a client that reads it in its
\* own byte order, with the version the client asked for
\* (proto_recv_connection_setup, proto_send_connection_refuse).
SetupExact ==
    pc = "listening" =>
        /\ setup.major = request.major /\ setup.minor = request.minor
        /\ setup.name = request.name /\ setup.data = request.data
        /\ unsent = <<>> /\ queue = <<>>
        /\ Len(sent) >= 8
        /\ Len(sent) = 8 + 4 * proto_recv_card16(request.order, SubSeq(sent, 7, 8))
        /\ proto_recv_card16(request.order, SubSeq(sent, 3, 4)) = request.major
        /\ SubSeq(sent, 9, 8 + sent[2]) = Reason

\* Every setup is answered, or the machine is halted (tmain).
SetupAnswered == <>(pc \in {"listening", "halted"})

\* The strings of a setup are freed when it has been answered.  They are not
\* (windowd.c:229).
StringsFreed == pc = "listening" => strings = {}
============================================================================
