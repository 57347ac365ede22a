-------------------------------- MODULE Kbd --------------------------------
(***************************************************************************)
(* The keyboard layer of kernel/io/kbd.c: which keys are down, the         *)
(* modifier and lock flags, and the queue of key events.  Drivers call     *)
(* kbd_key_pressed and kbd_key_released from their interrupt handlers;     *)
(* readers take events with kbd_pull_event.  The queue is the FIFO that    *)
(* RingQueue implements.                                                   *)
(*                                                                         *)
(* There is one key here for every kind of KEYMAP entry; the characters of *)
(* the events are left out.  update_leds goes over s_keyboard_list, which  *)
(* nothing is ever added to, so it does nothing.                           *)
(***************************************************************************)
EXTENDS Integers, Sequences, FiniteSets, SequencesExt

CONSTANTS
    Keys,           \* the keys of the instance
    QueueCap        \* size of s_event_queue_buf

(* The keys of the instance come from these, in the order of KBD_KEY. *)
KeyOrder == <<"PRINT_SCREEN", "PAUSE", "CAPS_LOCK", "A", "LSHIFT", "LCTRL", "RCTRL", "HOME",
              "NUM_LOCK", "NUMPAD_MUL", "NUMPAD_7", "NUMPAD_5">>

KbdAssumption == Keys \subseteq Range(KeyOrder) /\ QueueCap \in Nat \ {0}

VARIABLES
    s_keysdown,     \* keys that are down
    s_flags,        \* modifiers that are held and locks that are on
    s_event_queue,  \* events not read yet, oldest first
    view,           \* keys that are down according to the events read
    dropped         \* whether an event found the queue full

kbdvars == <<s_keysdown, s_flags, s_event_queue, view, dropped>>

Modifiers == {"LSHIFT", "LCTRL", "RCTRL"}
Locks == {"NUM_LOCK", "CAPS_LOCK"}

(* KEYMAP: the key to report for a numpad key while NumLock is off. *)
key_alt == "NUMPAD_7" :> "HOME" @@ "NUMPAD_5" :> "INVALID"

KbdInit ==
    /\ s_keysdown = {} /\ s_flags = {} /\ s_event_queue = <<>>
    /\ view = {} /\ dropped = FALSE

----------------------------------------------------------------------------
(* The event for a key, with the key to report under the given flags.      *)
Event(key, flags, down) ==
    [key |-> IF key \in DOMAIN key_alt /\ "NUM_LOCK" \notin flags
             THEN key_alt[key] ELSE key,
     is_down |-> down]

(* enqueue_event for one event after another: what finds the queue full is *)
(* dropped, and an INVALID key is not reported.                            *)
enqueue_events(events) ==
    LET all == s_event_queue \o SelectSeq(events, LAMBDA e : e.key # "INVALID")
    IN  /\ s_event_queue' = SubSeq(all, 1, IF Len(all) < QueueCap THEN Len(all) ELSE QueueCap)
        /\ dropped' = (dropped \/ Len(all) > QueueCap)

(* Fault: the keys are forgotten and no reader is told. *)
release_all_silent(except, flags) == <<>>

(* The events of release_all_keys_except: the other keys that are down are *)
(* released in the order of KBD_KEY, after the lock flag was changed.      *)
release_all_keys_except(except, flags) ==
    LET keys == SelectSeq(KeyOrder, LAMBDA key : key \in s_keysdown \ {except})
    IN  [i \in DOMAIN keys |-> Event(keys[i], flags, FALSE)]

kbd_key_pressed(key) ==
    LET flags == IF key \in Modifiers THEN s_flags \cup {key}
                 ELSE IF key \in Locks THEN (s_flags \ {key}) \cup ({key} \ s_flags)
                 ELSE s_flags
        others == IF key = "NUM_LOCK" THEN release_all_keys_except(key, flags) ELSE <<>>
    IN  /\ s_keysdown' = IF key = "NUM_LOCK" THEN {key} ELSE s_keysdown \cup {key}
        /\ s_flags' = IF key = "NUM_LOCK" THEN flags \ (Modifiers \cap s_keysdown) ELSE flags
        /\ enqueue_events(Append(others, Event(key, flags, TRUE)))
        /\ UNCHANGED view

kbd_key_released(key) ==
    /\ s_flags' = s_flags \ (Modifiers \cap {key})
    /\ IF key \in s_keysdown
       THEN /\ s_keysdown' = s_keysdown \ {key}
            /\ enqueue_events(<<Event(key, s_flags, FALSE)>>)
       ELSE UNCHANGED <<s_keysdown, s_event_queue, dropped>>
    /\ UNCHANGED view

Apply(keys, e) == IF e.is_down THEN keys \cup {e.key} ELSE keys \ {e.key}

(* A reader takes an event and updates its view of the keys. *)
kbd_pull_event ==
    /\ s_event_queue # <<>>
    /\ s_event_queue' = Tail(s_event_queue)
    /\ view' = Apply(view, Head(s_event_queue))
    /\ UNCHANGED <<s_keysdown, s_flags, dropped>>

KbdNext ==
    (\E key \in Keys : kbd_key_pressed(key) \/ kbd_key_released(key)) \/ kbd_pull_event

KbdSpec == KbdInit /\ [][KbdNext]_kbdvars

----------------------------------------------------------------------------
(* The keyboard state has its types, and the queue respects its size. *)
KbdTypeOK ==
    /\ s_keysdown \subseteq Keys /\ s_flags \subseteq Modifiers \cup Locks
    /\ Len(s_event_queue) <= QueueCap /\ dropped \in BOOLEAN

(* The modifier flags, which decide about characters, are the modifier     *)
(* keys that are down, whatever NumLock released in between.               *)
ModifiersExact == s_flags \cap Modifiers = s_keysdown \cap Modifiers

(* As long as no event was dropped, a reader that applies the events it    *)
(* has read and the queued ones knows which keys are down.  (Numpad keys   *)
(* and the keys they are reported as are excepted: NumLock changes what is *)
(* reported before it releases the keys that are down.)                    *)
ReaderKnowsKeys ==
    LET known == FoldLeft(Apply, view, s_event_queue)
        plain == Keys \ (DOMAIN key_alt \cup {"HOME"})
    IN  ~dropped => known \cap plain = s_keysdown \cap plain
============================================================================
