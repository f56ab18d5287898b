--------------------------------- MODULE Hid --------------------------------
(***************************************************************************)
(* The PS/2 keyboard and mouse decoders (kernel/src/drivers/ps2_keyboard.c *)
(* and ps2_mouse.c) as intr_msg_on_keyboard and intr_msg_on_mouse run them *)
(* on the messages of the interrupt queue, which drops a message when it   *)
(* is full (LossyQueue): here any message may be dropped.                  *)
(*                                                                         *)
(* A keycode is the scan code that keycode_normal translates to it, plus   *)
(* 256 if it is keycode_extended that does.  A character is the keycode of *)
(* its key and whether it is the one typed with shift.                     *)
(***************************************************************************)
EXTENDS Integers, Sequences, FiniteSets, SequencesExt

CONSTANTS
  Keys,        \* the physical keys in use, by the keycode they should have
  Moves,       \* the mouse movements in use: [left, dx, dy]
  MaxActs,     \* bound: key strokes and mouse movements
  MaxLost      \* bound: messages dropped

ASSUME BoundsAssumption == MaxActs \in Nat /\ MaxLost \in Nat

VARIABLES
  kb,          \* g_kb, struct ps2_keyboard
  ms,          \* g_ms, struct ps2_mouse
  queue,       \* the messages that wait, with "ends": the last of its key or packet
  acts,        \* history: key strokes and movements so far
  lost,        \* history: messages dropped, by device
  held,        \* history: the keys held down
  whole,       \* history: whole keys decoded since the last loss, up to 2
  torn,        \* history: bytes of a key remain that has lost others
  typed,       \* history: the key events that were sent, until the first loss
  events,      \* history: hid_on_keyboard's arguments, until the first loss
  moved,       \* history: the movements that were made, until the first loss
  moves        \* history: hid_on_mouse's arguments, until the first loss

vars == <<kb, ms, queue, acts, lost, held, whole, torn, typed, events, moved, moves>>

Unknown == 0
\* The keycodes that the decoder treats in a special way.
LCTRL == 29
LSHIFT == 42
RSHIFT == 54
LALT == 56
CAPSLOCK == 58
NUMLOCK == 69
SCROLLLOCK == 70
RCTRL == 256 + 29
RALT == 256 + 56
PRINTSCREEN == 512
PAUSEBREAK == 513

-----------------------------------------------------------------------------
(* ps2_keyboard.c *)

Normal == (1..83) \cup {87, 88}
KeycodeNormal(b) == IF b \in Normal THEN b ELSE Unknown

\* Extended scan code 0x1d, the right control key, is KEY_LCTRL.
Extended == {16, 25, 28, 29, 32, 33, 34, 36, 46, 48, 50, 53, 56, 75, 77, 99}
              \cup (71..73) \cup (79..83) \cup (91..95) \cup (101..109)
KeycodeExtended(b) ==
  CASE b = 29 -> LCTRL
    [] b \in Extended \ {29} -> 256 + b
    [] OTHER -> Unknown

\* The keys have codes that the tables of the two know.
ASSUME KeysAssumption ==
  Keys \subseteq Normal \cup {256 + b : b \in Extended} \cup {PRINTSCREEN, PAUSEBREAK}

\* kb in state st, and the event that the byte completes if there is one.
Quiet(k, st, data) == [kb |-> [k EXCEPT !.state = st, !.data = data], evt |-> <<>>]

\* Fault: an unknown code does not end the sequence.
EventKeepsState(k, code, down) ==
  [kb |-> IF code = Unknown THEN k ELSE [k EXCEPT !.state = "START"],
   evt |-> IF code = Unknown THEN <<>> ELSE <<code, down>>]

Event(k, code, down) ==
  [kb |-> [k EXCEPT !.state = "START"], evt |-> IF code = Unknown THEN <<>> ELSE <<code, down>>]

FromStart(k, b) ==
  CASE b = 224 -> Quiet(k, "EXT1", k.data)
    [] b = 225 -> Quiet(k, "EXT2_1", k.data)
    [] OTHER -> Event(k, KeycodeNormal(b % 128), b < 128)

\* ps2_keyboard_put_byte
PutKey(k, b) ==
  CASE k.state = "START" -> FromStart(k, b)
    [] k.state = "EXT1" ->
         IF b \in {42, 183} THEN Quiet(k, "EXT1_1", b)
                            ELSE Event(k, KeycodeExtended(b % 128), b < 128)
    [] k.state = "EXT1_1" ->
         IF b = 224 THEN Quiet(k, "EXT1_2", k.data) ELSE FromStart([k EXCEPT !.state = "START"], b)
    [] k.state = "EXT1_2" ->
         Event(k, IF <<k.data, b>> \in {<<183, 170>>, <<42, 55>>} THEN PRINTSCREEN ELSE Unknown,
               k.data = 42)
    [] k.state = "EXT2_1" -> Quiet(k, "EXT2_2", b)
    [] k.state = "EXT2_2" ->
         Event(k, IF <<k.data, b>> \in {<<157, 197>>, <<29, 69>>} THEN PAUSEBREAK ELSE Unknown,
               k.data = 29)

Raw(code) == [raw |-> TRUE, keycode |-> code, shifted |-> FALSE]
Char(code, shifted) == [raw |-> FALSE, keycode |-> code, shifted |-> shifted]

Symbols == (2..13) \cup {26, 27, 39, 40, 41, 43, 51, 52, 53}
Letters == (16..25) \cup (30..38) \cup (44..50)
Plain == {15, 28, 55, 57, 74, 78, 256 + 28, 256 + 53}
Numpad == (71..73) \cup (75..77) \cup (79..83)

\* What a numpad key is without num lock: KEY_NUMPAD5 is itself, and
\* KEY_NUMPAD_PERIOD becomes KEY_PERIOD.
NumpadRaw(code) == CASE code = 76 -> 76 [] code = 83 -> 52 [] OTHER -> 256 + code

\* The character for a key that goes down, given the modifiers.
Translate(code, control, shift, caps, num) ==
  CASE ~control /\ code \in Symbols -> Char(code, shift)
    [] ~control /\ code \in Letters -> Char(code, shift # caps)
    [] ~control /\ code \in Plain   -> Char(code, FALSE)
    [] code \in Numpad /\ num /\ ~control -> Char(code, FALSE)
    [] code \in Numpad /\ ~num      -> Raw(NumpadRaw(code))
    [] OTHER                        -> Raw(code)

\* Fault: a repeated make code toggles a modifier as it does a lock.
KeyFlagsToggle(k, code, down) ==
  [k EXCEPT !.lshift = IF code = LSHIFT /\ down THEN ~@ ELSE @,
            !.num    = IF code = NUMLOCK /\ down THEN ~@ ELSE @]

KeyFlags(k, code, down) ==
  [k EXCEPT !.lshift = IF code = LSHIFT THEN down ELSE @,
            !.rshift = IF code = RSHIFT THEN down ELSE @,
            !.lctrl  = IF code = LCTRL THEN down ELSE @,
            !.rctrl  = IF code = RCTRL THEN down ELSE @,
            !.lalt   = IF code = LALT THEN down ELSE @,
            !.ralt   = IF code = RALT THEN down ELSE @,
            !.caps   = IF code = CAPSLOCK /\ down THEN ~@ ELSE @,
            !.scroll = IF code = SCROLLLOCK /\ down THEN ~@ ELSE @,
            !.num    = IF code = NUMLOCK /\ down THEN ~@ ELSE @]

\* ps2_keyboard_process_keyevent: the flags were read before the switch that
\* changes them, num after it.
ProcessKeyevent(k, code, down) ==
  IF ~down THEN Raw(code)
  ELSE Translate(code, k.lctrl \/ k.rctrl \/ k.lalt \/ k.ralt, k.lshift \/ k.rshift, k.caps,
                 KeyFlags(k, code, down).num)

-----------------------------------------------------------------------------
(* ps2_mouse.c *)

Bit(b, mask) == (b \div mask) % 2 = 1

\* Fault: a displacement is taken for a signed byte.
MouseEventSigned8(p) ==
  [left |-> Bit(p[1], 1), dx |-> IF p[2] >= 128 THEN p[2] - 256 ELSE p[2],
   dy |-> IF p[3] >= 128 THEN p[3] - 256 ELSE p[3]]

\* A packet: the sign of a displacement is a bit of the first byte, with which
\* the byte is extended to an int16_t.
MouseEvent(p) ==
  [left |-> Bit(p[1], 1), dx |-> IF Bit(p[1], 16) THEN p[2] - 256 ELSE p[2],
   dy |-> IF Bit(p[1], 32) THEN p[3] - 256 ELSE p[3]]

PutMouseShort(m, b) == IF Len(m) = 1 THEN <<>> ELSE Append(m, b)

\* ps2_mouse_put_byte; packet_index is the length of ms.
PutMouse(m, b) == IF Len(m) = 2 THEN <<>> ELSE Append(m, b)

-----------------------------------------------------------------------------
(* The devices (external) *)

\* A displacement has nine bits.
ASSUME MovesAssumption == Moves \subseteq [left : BOOLEAN, dx : -256..255, dy : -256..255]

\* The bytes of scan code set 1 for a key that goes down or up.
Scancode(key, down) ==
  LET up == IF down THEN 0 ELSE 128
  IN  CASE key = PAUSEBREAK  -> <<225, 29, 69, 225, 157, 197>>
        [] key = PRINTSCREEN -> IF down THEN <<224, 42, 224, 55>> ELSE <<224, 183, 224, 170>>
        [] key \in 256..511  -> <<224, (key - 256) + up>>
        [] OTHER             -> <<key + up>>

\* The keycode the kernel knows a key by.
Known(key) == IF key = RCTRL THEN LCTRL ELSE key

Packet(m) ==
  <<8 + (IF m.left THEN 1 ELSE 0) + (IF m.dx < 0 THEN 16 ELSE 0) + (IF m.dy < 0 THEN 32 ELSE 0),
    m.dx % 256, m.dy % 256>>

Messages(type, bytes) ==
  [i \in 1..Len(bytes) |-> [type |-> type, data |-> bytes[i], ends |-> i = Len(bytes)]]

NoneLost == lost.key = 0 /\ lost.mouse = 0

\* A key goes down, repeats while it is held, or goes up; the pause key sends
\* everything when it goes down.
Stroke(key, down) ==
  /\ acts < MaxActs
  /\ down \/ key \in held
  /\ acts' = acts + 1
  /\ held' = IF down /\ key # PAUSEBREAK THEN held \cup {key} ELSE held \ {key}
  /\ queue' = queue \o Messages("key", Scancode(key, down))
  /\ typed' = IF ~NoneLost THEN typed
              ELSE typed \o IF key = PAUSEBREAK THEN <<<<key, TRUE>>, <<key, FALSE>>>>
                                                ELSE <<<<Known(key), down>>>>
  /\ UNCHANGED <<kb, ms, lost, whole, torn, events, moved, moves>>

Move(m) ==
  /\ acts < MaxActs
  /\ acts' = acts + 1
  /\ queue' = queue \o Messages("mouse", Packet(m))
  /\ moved' = IF NoneLost THEN Append(moved, m) ELSE moved
  /\ UNCHANGED <<kb, ms, lost, held, whole, torn, typed, events, moves>>

\* The queue was full when the message arrived.
Lose ==
  /\ queue # <<>>
  /\ lost.key + lost.mouse < MaxLost
  /\ lost' = [lost EXCEPT ![Head(queue).type] = @ + 1]
  /\ queue' = Tail(queue)
  /\ IF Head(queue).type = "key" THEN whole' = 0 /\ torn' = ~Head(queue).ends
                                 ELSE UNCHANGED <<whole, torn>>
  /\ typed' = <<>> /\ events' = <<>> /\ moved' = <<>> /\ moves' = <<>>
  /\ UNCHANGED <<kb, ms, acts, held>>

-----------------------------------------------------------------------------
(* dispatch_intr_msg *)

\* intr_msg_on_keyboard
OnKeyboard ==
  /\ queue # <<>> /\ Head(queue).type = "key"
  /\ queue' = Tail(queue)
  /\ LET r == PutKey(kb, Head(queue).data)
     IN  \/ /\ r.evt = <<>>
            /\ kb' = r.kb
            /\ UNCHANGED events
         \/ /\ r.evt # <<>>
            /\ kb' = KeyFlags(r.kb, r.evt[1], r.evt[2])
            /\ events' = IF NoneLost
                           THEN Append(events, <<r.evt, ProcessKeyevent(r.kb, r.evt[1], r.evt[2])>>)
                           ELSE events
  /\ IF Head(queue).ends
       THEN torn' = FALSE /\ whole' = IF torn THEN 0 ELSE IF whole < 2 THEN whole + 1 ELSE 2
       ELSE UNCHANGED <<whole, torn>>
  /\ UNCHANGED <<ms, acts, lost, held, typed, moved, moves>>

\* intr_msg_on_mouse
OnMouse ==
  /\ queue # <<>> /\ Head(queue).type = "mouse"
  /\ queue' = Tail(queue)
  /\ ms' = PutMouse(ms, Head(queue).data)
  /\ moves' = IF Len(ms) = 2 /\ NoneLost THEN Append(moves, MouseEvent(Append(ms, Head(queue).data)))
                                         ELSE moves
  /\ UNCHANGED <<kb, acts, lost, held, whole, torn, typed, events, moved>>

\* ps2_keyboard_init and ps2_mouse_init
Init ==
  /\ kb = [state |-> "START", data |-> 0, lshift |-> FALSE, rshift |-> FALSE, lctrl |-> FALSE,
           rctrl |-> FALSE, lalt |-> FALSE, ralt |-> FALSE, caps |-> FALSE, scroll |-> FALSE,
           num |-> FALSE]
  /\ ms = <<>>
  /\ queue = <<>> /\ acts = 0 /\ lost = [key |-> 0, mouse |-> 0] /\ held = {}
  /\ whole = 0 /\ torn = FALSE
  /\ typed = <<>> /\ events = <<>> /\ moved = <<>> /\ moves = <<>>

Next ==
  \/ \E key \in Keys, down \in BOOLEAN : Stroke(key, down)
  \/ \E m \in Moves : Move(m)
  \/ Lose
  \/ OnKeyboard
  \/ OnMouse

Spec == Init /\ [][Next]_vars

-----------------------------------------------------------------------------
(* Properties *)

States == {"START", "EXT1", "EXT1_1", "EXT1_2", "EXT2_1", "EXT2_2"}

\* Every variable has its type: in particular the decoder is in one of its
\* states (the default case of its switch panics), and a packet has room.
TypeOK ==
  /\ kb.state \in States /\ kb.data \in 0..255
  /\ \A f \in DOMAIN kb \ {"state", "data"} : kb[f] \in BOOLEAN
  /\ Len(ms) <= 2 /\ \A i \in 1..Len(ms) : ms[i] \in 0..255
  /\ lost.key + lost.mouse \in 0..MaxLost /\ acts \in 0..MaxActs
  /\ held \subseteq Keys /\ whole \in 0..2 /\ torn \in BOOLEAN

\* As long as no message is dropped, the key events are the strokes, with the
\* keys that share codes, prefixes and break bits told apart, and the mouse
\* events are the movements, the largest ones in both directions included.
Faithful ==
  /\ TypeOK
  /\ NoneLost =>
       /\ IsPrefix([i \in 1..Len(events) |-> events[i][1]], typed)
       /\ IsPrefix(moves, moved)
       /\ queue = <<>> => Len(events) = Len(typed) /\ Len(moves) = Len(moved)

\* The keys down after the strokes s, and the locks that are on.
DownAfter(s, code) == \E i \in 1..Len(s) : s[i] = <<code, TRUE>> /\ \A j \in i..Len(s) : s[j] # <<code, FALSE>>
OddAfter(s, code) == Cardinality({i \in 1..Len(s) : s[i] = <<code, TRUE>>}) % 2 = 1

\* A key types the character that the keys held at that time and the locks
\* call for, wherever in the burst of messages it is decoded, and no character
\* with Control or Alt held (both control keys are one to the kernel).
Typed ==
  \A i \in 1..Len(events) :
    LET before == SubSeq(typed, 1, i - 1)
        down(codes) == \E c \in codes : DownAfter(before, c)
    IN  events[i][2] =
          IF ~typed[i][2] THEN Raw(typed[i][1])
          ELSE Translate(typed[i][1], down({LCTRL, LALT, RALT}), down({LSHIFT, RSHIFT}),
                         OddAfter(before, CAPSLOCK), OddAfter(SubSeq(typed, 1, i), NUMLOCK))

KeysWaiting == \E i \in 1..Len(queue) : queue[i].type = "key"

\* The keyboard decoder finds its place again after losses anywhere: two whole
\* keys later it waits for the first byte of a key.
Resync == whole = 2 /\ ~torn /\ ~KeysWaiting => kb.state = "START"

\* The mouse decoder has no such mark: between packets it waits for the first
\* byte exactly if the bytes dropped make whole packets, else it stays shifted.
MousePhase ==
  (\A i \in 1..Len(queue) : queue[i].type # "mouse") => (ms = <<>> <=> lost.mouse % 3 = 0)
=============================================================================
