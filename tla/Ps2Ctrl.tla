------------------------------- MODULE Ps2Ctrl -------------------------------
(***************************************************************************)
(* Initialising the PS/2 controller (kernel/arch/i586/dev/ps2ctrl.c): the  *)
(* ports are disabled, the controller tested and configured, each port     *)
(* tested, and the good ones enabled and registered.  A byte from the      *)
(* controller is the set of its bits, so that an answer read in the wrong  *)
(* place means what it would mean there.  The controller is external.      *)
(***************************************************************************)
EXTENDS Integers, Sequences, FiniteSets

CONSTANTS
    BiosConfigs,  \* configurations the firmware may leave behind
    ResetConfigs, \* what the self test may reset the configuration to
    ScanCodes,    \* bytes a keyboard sends
    MaxTimeouts,  \* waits that end in a timeout
    MaxKeys       \* bytes typed while the ports are being registered

Ports == {0, 1}
Byte == SUBSET (0..7)

Ps2CtrlAssumption ==
    /\ BiosConfigs \cup ResetConfigs \cup ScanCodes \subseteq Byte
    /\ MaxTimeouts \in Nat /\ MaxKeys \in Nat

VARIABLES
    dual, bad,             \* two ports or one; ports whose self test fails
    config, outbuf, irq,   \* the controller: registers and raised interrupts
    timeouts, keys,        \* what happened so far
    pc, ctrl_config, port_count, port_ok, i,
    masked, handlers,      \* IRQ lines masked, ports with a handler
    queues,                \* ports whose recvqueue is initialised
    ports, freed,          \* s_ports, and those of them that were freed
    received, asserted     \* bytes in the queues; queue.c:23 failed

hw == <<dual, bad, config, outbuf, irq>>
thread == <<pc, ctrl_config, port_count, port_ok, i>>
kernel == <<masked, handlers, queues, ports, freed>>
io == <<keys, received, asserted>>
vars == <<hw, timeouts, thread, kernel, io>>

\* CONFIG_FLAG_*
INT(p) == p
CLK_OFF(p) == 4 + p
TRANS == 6

(***************************************************************************)
(* The controller's answer to a command: the new configuration, and the    *)
(* byte it puts in the output buffer, if any.  The code relies on the clock*)
(* of a second port that is not there being always off.                    *)
(***************************************************************************)
Held(c) == IF dual THEN c ELSE c \cup {CLK_OFF(1)}

Answer(c, v) == config' \in {Held(x) : x \in c} /\ outbuf' = outbuf \o v

Controller(cmd) ==
    CASE cmd = "DISABLE_PORT0" -> Answer({config \cup {CLK_OFF(0)}}, << >>)
      [] cmd = "DISABLE_PORT1" -> Answer({config \cup {CLK_OFF(1)}}, << >>)
      [] cmd = "ENABLE_PORT0" -> Answer({config \ {CLK_OFF(0)}}, << >>)
      [] cmd = "ENABLE_PORT1" ->
            Answer({config \ {CLK_OFF(1)}}, << >>)
      [] cmd = "READ_CTRL_CONFIG" -> Answer({config}, <<config>>)
      [] cmd = "TEST_CTRL" ->
            Answer({config} \cup ResetConfigs, <<{0, 2, 4, 6}>>)
      [] cmd = "TEST_PORT0" ->
            Answer({config}, <<IF 0 \in bad THEN {0} ELSE {}>>)
      [] cmd = "TEST_PORT1" ->
            Answer({config}, <<IF 1 \in bad THEN {0} ELSE {}>>)

Timeout ==
    /\ timeouts < MaxTimeouts
    /\ timeouts' = timeouts + 1
    /\ UNCHANGED hw

\* waitforsend, then the command; the thread goes on at ok or at fail.
send_to_ctrl(cmd, ok, fail) ==
    /\ \/ /\ Controller(cmd)
          /\ pc' = ok
          /\ UNCHANGED <<dual, bad, irq, timeouts>>
       \/ Timeout /\ pc' = fail

\* waitforrecv, then the byte; an answer that is late stays in the buffer.
recv_from_ctrl(v, ok, fail) ==
    \/ /\ outbuf # << >>
       /\ v = Head(outbuf)
       /\ outbuf' = Tail(outbuf)
       /\ pc' = ok
       /\ UNCHANGED <<dual, bad, config, irq, timeouts>>
    \/ Timeout /\ v = {} /\ pc' = fail

\* Two sends.  None of the callers looks at the result.
write_ctrl_config(v, next) ==
    /\ \/ config' = Held(v) /\ UNCHANGED <<dual, bad, outbuf, irq, timeouts>>
       \/ Timeout
    /\ pc' = next

Init ==
    /\ dual \in BOOLEAN
    /\ bad \in SUBSET (IF dual THEN {0, 1} ELSE {0})
    /\ config \in {Held(c) : c \in BiosConfigs}
    /\ outbuf \in {<< >>} \cup {<<s>> : s \in ScanCodes}
    /\ irq = {} /\ timeouts = 0 /\ keys = 0
    /\ pc = "mask" /\ ctrl_config = {} /\ port_count = 2 /\ port_ok = Ports
    /\ i = 0
    /\ masked = {0, 1} /\ handlers = {} /\ queues = {} /\ ports = {} /\ freed = {}
    /\ received = [p \in Ports |-> 0] /\ asserted = FALSE

local == <<ctrl_config, port_count, port_ok, i>>

disable_all ==
    /\ \/ pc = "mask" /\ send_to_ctrl("DISABLE_PORT0", "disable1", "fail")
       \/ pc = "disable1" /\ send_to_ctrl("DISABLE_PORT1", "empty", "fail")
    /\ UNCHANGED <<local, kernel, io>>

empty_output_buffer ==
    /\ pc = "empty"
    /\ IF outbuf # << >>
       THEN outbuf' = Tail(outbuf) /\ UNCHANGED pc
       ELSE pc' = "config_a" /\ UNCHANGED outbuf
    /\ UNCHANGED <<dual, bad, config, irq, timeouts, local, kernel, io>>

\* Called before and after the self test.
init_port0_config ==
    /\ \/ /\ pc \in {"config_a", "config_b"}
          /\ send_to_ctrl("READ_CTRL_CONFIG",
                          IF pc = "config_a" THEN "read_a" ELSE "read_b", "fail")
          /\ UNCHANGED ctrl_config
       \/ /\ pc \in {"read_a", "read_b"}
          /\ \E v \in Byte :
                /\ recv_from_ctrl(v, IF pc = "read_a" THEN "write_a" ELSE "write_b",
                                  "fail")
                /\ ctrl_config' = v \ {INT(0), TRANS, CLK_OFF(0)}
       \/ /\ pc \in {"write_a", "write_b"}
          /\ write_ctrl_config(ctrl_config,
                               IF pc = "write_a" THEN "test" ELSE "port1_enable")
          /\ UNCHANGED ctrl_config
    /\ UNCHANGED <<port_count, port_ok, i, kernel, io>>

\* Fault: the configuration is not written again.
AfterSelfTest_go_on == "port1_enable"

\* "Self-test may have resetted the controller, so we reconfigure Port 0 again."
AfterSelfTest == "config_b"

ctrl_self_test ==
    /\ \/ pc = "test" /\ send_to_ctrl("TEST_CTRL", "test_recv", "fail")
       \/ /\ pc = "test_recv"
          /\ \E v \in Byte :
                recv_from_ctrl(v, IF v = {0, 2, 4, 6} THEN AfterSelfTest ELSE "fail",
                               "fail")
    /\ UNCHANGED <<local, kernel, io>>

SecondPort(v) == CLK_OFF(1) \notin v

\* Any failure means that there is one port.
init_port1_config ==
    LET one == "one_port"
    IN  /\ \/ /\ pc = "port1_enable"
              /\ send_to_ctrl("ENABLE_PORT1", "port1_read", one)
              /\ UNCHANGED <<ctrl_config, port_count>>
           \/ /\ pc = "port1_read"
              /\ send_to_ctrl("READ_CTRL_CONFIG", "port1_recv", one)
              /\ UNCHANGED <<ctrl_config, port_count>>
           \/ /\ pc = "port1_recv"
              /\ \E v \in Byte :
                    recv_from_ctrl(v, IF SecondPort(v) THEN "port1_disable"
                                      ELSE one, one)
              /\ UNCHANGED <<ctrl_config, port_count>>
           \/ /\ pc = "port1_disable"
              /\ send_to_ctrl("DISABLE_PORT1", "port1_read2", one)
              /\ UNCHANGED <<ctrl_config, port_count>>
           \/ /\ pc = "port1_read2"
              /\ send_to_ctrl("READ_CTRL_CONFIG", "port1_recv2", one)
              /\ UNCHANGED <<ctrl_config, port_count>>
           \/ /\ pc = "port1_recv2"
              /\ \E v \in Byte : /\ recv_from_ctrl(v, "port1_write", one)
                                 /\ ctrl_config' = v \ {INT(1), CLK_OFF(1)}
              /\ UNCHANGED port_count
           \/ /\ pc = "port1_write"
              /\ write_ctrl_config(ctrl_config, "port_test")
              /\ UNCHANGED <<ctrl_config, port_count>>
           \/ /\ pc = one
              /\ port_count' = 1
              /\ pc' = "port_test"
              /\ UNCHANGED <<hw, timeouts, ctrl_config>>
        /\ UNCHANGED <<port_ok, i, kernel, io>>

\* "Test each port": the loop runs once per port and tests port 0 each time.
port_self_test ==
    /\ \/ /\ pc = "port_test" /\ i < port_count
          /\ send_to_ctrl("TEST_PORT0", "port_recv", "port_bad")
          /\ UNCHANGED <<port_ok, i>>
       \/ /\ pc = "port_recv"
          /\ \E v \in Byte :
                recv_from_ctrl(v, IF v = {} THEN "port_good" ELSE "port_bad",
                               "port_bad")
          /\ UNCHANGED <<port_ok, i>>
       \/ /\ pc \in {"port_good", "port_bad"}
          /\ port_ok' = IF pc = "port_bad" THEN port_ok \ {i} ELSE port_ok
          /\ i' = i + 1
          /\ pc' = "port_test"
          /\ UNCHANGED <<hw, timeouts>>
       \/ /\ pc = "port_test" /\ i = port_count
          /\ pc' = "int_read" /\ i' = 0
          /\ UNCHANGED <<hw, timeouts, port_ok>>
    /\ UNCHANGED <<ctrl_config, port_count, kernel, io>>

\* port_ok[1] stays true on a controller with one port.
EnableInterrupts ==
    /\ \/ /\ pc = "int_read"
          /\ send_to_ctrl("READ_CTRL_CONFIG", "int_recv", "fail")
          /\ UNCHANGED ctrl_config
       \/ /\ pc = "int_recv"
          /\ \E v \in Byte : /\ recv_from_ctrl(v, "int_write", "fail")
                             /\ ctrl_config' = v \cup {INT(p) : p \in port_ok}
       \/ /\ pc = "int_write"
          /\ write_ctrl_config(ctrl_config, "register")
          /\ UNCHANGED ctrl_config
    /\ UNCHANGED <<port_count, port_ok, i, kernel, io>>

\* The loop over the ports, and discovered_port up to enabling the port.  A
\* failed allocation returns 0, and a timeout an error, with no port.
RegisterNext ==
    /\ pc = "register"
    /\ \/ /\ i = port_count
          /\ pc' = "done" /\ UNCHANGED <<hw, timeouts, i>>
       \/ /\ i < port_count
          /\ pc' = "register" /\ i' = i + 1 /\ UNCHANGED <<hw, timeouts>>
       \/ /\ i < port_count /\ i \in port_ok
          /\ send_to_ctrl(IF i = 0 THEN "ENABLE_PORT0" ELSE "ENABLE_PORT1",
                          "handler", "skip")
          /\ UNCHANGED i
    /\ UNCHANGED <<ctrl_config, port_count, port_ok, kernel, io>>

\* The rest of discovered_port.  The thread may be interrupted before each
\* step.  When iodev_register is out of memory the port is freed, although it
\* is in s_ports and its handler stays.
discovered_port ==
    /\ \/ /\ pc = "handler"
          /\ handlers' = handlers \cup {i}
          /\ pc' = "unmask" /\ UNCHANGED <<masked, queues, ports, freed, i>>
       \/ /\ pc = "unmask"
          /\ masked' = masked \ {i}
          /\ pc' = "ps2port" /\ UNCHANGED <<handlers, queues, ports, freed, i>>
       \/ /\ pc = "ps2port"
          /\ queues' = queues \cup {i} /\ ports' = ports \cup {i}
          /\ freed' \in {freed, freed \cup {i}}
          /\ pc' = "register" /\ i' = i + 1 /\ UNCHANGED <<masked, handlers>>
       \/ /\ pc = "skip"
          /\ pc' = "register" /\ i' = i + 1 /\ UNCHANGED kernel
    /\ UNCHANGED <<hw, timeouts, ctrl_config, port_count, port_ok, io>>

\* A key is pressed while the ports are being registered.
PressKey(p) ==
    /\ pc \in {"register", "handler", "unmask", "ps2port", "done"}
    /\ CLK_OFF(p) \notin config /\ (p = 1 => dual)
    /\ outbuf = << >> /\ keys < MaxKeys
    /\ keys' = keys + 1
    /\ \E s \in ScanCodes : outbuf' = <<s>>
    /\ irq' = IF INT(p) \in config THEN irq \cup {p} ELSE irq
    /\ UNCHANGED <<dual, bad, config, timeouts, thread, kernel, received, asserted>>

\* ps2port_received_byte on a queue that is not initialised fails the
\* assertion in queue.c:23, and the kernel stops; so may one on a freed port.
irqhandler(p) ==
    /\ p \in irq /\ p \notin masked /\ p \in handlers
    /\ outbuf' = << >> /\ irq' = irq \ {p}
    /\ \/ /\ p \in queues
          /\ received' = [received EXCEPT ![p] = @ + 1] /\ UNCHANGED asserted
       \/ /\ p \notin queues \/ p \in freed
          /\ asserted' = TRUE /\ UNCHANGED received
    /\ UNCHANGED <<dual, bad, config, timeouts, thread, kernel, keys>>

archi586_ps2ctrl_init ==
    \/ disable_all \/ empty_output_buffer \/ init_port0_config \/ ctrl_self_test
    \/ init_port1_config \/ port_self_test \/ EnableInterrupts
    \/ RegisterNext \/ discovered_port

Next ==
    /\ ~asserted
    /\ archi586_ps2ctrl_init \/ \E p \in Ports : PressKey(p) \/ irqhandler(p)

Spec == Init /\ [][Next]_vars

-----------------------------------------------------------------------------
\* A registered port works, unless a wait timed out: its clock runs, its
\* interrupt is enabled and the first port's scan codes are not translated,
\* whatever the firmware or the self test left in the configuration and
\* whatever byte was pending (archi586_ps2ctrl_init).
RegisteredPortsWork ==
    timeouts = 0 => \A p \in ports : /\ INT(p) \in config
                                     /\ CLK_OFF(p) \notin config
                                     /\ TRANS \notin config

\* A byte that was pending at boot never makes a healthy controller fail its
\* tests: only a timeout aborts the initialisation (empty_output_buffer).
AbortsOnlyOnTimeout == pc = "fail" => timeouts > 0

\* The second port is only registered when there is one, although late
\* answers may be read in the place of others (init_port1_config).
OnlyExistingPorts == 1 \in ports => dual

\* ps2ctrl.c:403: "Test each port" and, at 437, "if (!port_ok[i]) continue":
\* no port that fails its self test is registered.
PortsPassedTest == \A p \in ports : p \notin bad

\* ps2.h:33: bytes go to the driver, "Otherwise it goes into internal queue".
BytesReachQueue == ~asserted
=============================================================================
