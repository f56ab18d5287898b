------------------------------ MODULE HidProof ------------------------------
(***************************************************************************)
(* Proofs about Hid, for all keys and movements that the decoders know and *)
(* any number of strokes, movements and dropped messages; and about        *)
(* HidInit, for any number of attempts and of bytes that the user makes    *)
(* the devices send.                                                       *)
(***************************************************************************)
EXTENDS Hid, HidInit, FiniteSetTheorems, SequenceTheorems, TLAPS

Octet == 0..255
Keyboard == [state : States, data : Octet, lshift : BOOLEAN, rshift : BOOLEAN, lctrl : BOOLEAN,
             rctrl : BOOLEAN, lalt : BOOLEAN, ralt : BOOLEAN, caps : BOOLEAN, scroll : BOOLEAN,
             num : BOOLEAN]
Message == [type : {"key", "mouse"}, data : Octet, ends : BOOLEAN]
\* A keycode that is reported and whether its key went down.
Evt == (Nat \ {Unknown, RCTRL}) \X BOOLEAN

-----------------------------------------------------------------------------
(* The keyboard decoder *)

\* The state after byte b does not depend on the byte that the decoder keeps.
NextState(s, b) ==
  CASE s \in {"START", "EXT1_1"} /\ b = 225 -> "EXT2_1"
    [] s = "START" /\ b = 224 -> "EXT1"
    [] s = "EXT1" /\ b \in {42, 183} -> "EXT1_1"
    [] s = "EXT1_1" /\ b = 224 -> "EXT1_2"
    [] s = "EXT2_1" -> "EXT2_2"
    [] OTHER -> "START"

LEMMA KeycodesTyped ==
  ASSUME NEW b \in Octet
  PROVE  /\ KeycodeNormal(b % 128) \in Nat \ {RCTRL}
         /\ KeycodeExtended(b % 128) \in Nat \ {RCTRL}
<1>1. b % 128 \in 0..127
  BY DEF Octet
<1>2. KeycodeNormal(b % 128) \in Nat \ {RCTRL}
  BY <1>1 DEF KeycodeNormal, Normal, RCTRL, Unknown
<1>3. KeycodeExtended(b % 128) \in Nat \ {RCTRL}
  <2> DEFINE c == b % 128
  <2>1. c \in 0..127
    BY <1>1
  <2>2. KeycodeExtended(c) = IF c = 29 THEN LCTRL ELSE IF c \in Extended \ {29} THEN 256 + c ELSE Unknown
    BY DEF KeycodeExtended
  <2> HIDE DEF c
  <2>3. KeycodeExtended(c) \in Nat \ {RCTRL}
    BY <2>1, <2>2 DEF LCTRL, RCTRL, Unknown
  <2> QED
    BY <2>3 DEF c
<1> QED
  BY <1>2, <1>3

\* The flags of the modifiers, which the decoder leaves alone.
SameFlags(k, j) ==
  /\ k.lshift = j.lshift /\ k.rshift = j.rshift /\ k.lctrl = j.lctrl /\ k.rctrl = j.rctrl
  /\ k.lalt = j.lalt /\ k.ralt = j.ralt /\ k.caps = j.caps /\ k.scroll = j.scroll /\ k.num = j.num

\* What a byte that completes no event, and one that completes one, leaves.
LEMMA QuietTyped ==
  ASSUME NEW k \in Keyboard, NEW st \in States, NEW data \in Octet
  PROVE  /\ Quiet(k, st, data).kb \in Keyboard /\ SameFlags(Quiet(k, st, data).kb, k)
         /\ Quiet(k, st, data).kb.state = st /\ Quiet(k, st, data).kb.data = data
         /\ Quiet(k, st, data).evt = <<>>
<1>1. Quiet(k, st, data).kb = [k EXCEPT !.state = st, !.data = data] /\ Quiet(k, st, data).evt = <<>>
  BY DEF Quiet
<1>2. /\ [k EXCEPT !.state = st, !.data = data] \in Keyboard
      /\ [k EXCEPT !.state = st, !.data = data].state = st
      /\ [k EXCEPT !.state = st, !.data = data].data = data
      /\ SameFlags([k EXCEPT !.state = st, !.data = data], k)
  BY DEF Keyboard, SameFlags
<1> QED
  BY <1>1, <1>2

LEMMA EventTyped ==
  ASSUME NEW k \in Keyboard, NEW code \in Nat \ {RCTRL}, NEW down \in BOOLEAN
  PROVE  /\ Event(k, code, down).kb \in Keyboard /\ SameFlags(Event(k, code, down).kb, k)
         /\ Event(k, code, down).kb.state = "START" /\ Event(k, code, down).kb.data = k.data
         /\ Event(k, code, down).evt = IF code = Unknown THEN <<>> ELSE <<code, down>>
         /\ Event(k, code, down).evt # <<>> => Event(k, code, down).evt \in Evt
<1>1. "START" \in States
  BY DEF States
<1>2. Event(k, code, down).kb = [k EXCEPT !.state = "START"]
  BY DEF Event
<1>3. /\ [k EXCEPT !.state = "START"] \in Keyboard /\ [k EXCEPT !.state = "START"].state = "START"
      /\ [k EXCEPT !.state = "START"].data = k.data /\ SameFlags([k EXCEPT !.state = "START"], k)
  BY <1>1 DEF Keyboard, SameFlags
<1>4. Event(k, code, down).evt = IF code = Unknown THEN <<>> ELSE <<code, down>>
  BY DEF Event
<1>5. code # Unknown => <<code, down>> \in Evt
  BY DEF Evt
<1> QED
  BY <1>2, <1>3, <1>4, <1>5

\* ps2_keyboard_put_byte: the next state, and an event that is reported.
GoodStep(r, k, b) ==
  /\ r.kb \in Keyboard /\ SameFlags(r.kb, k) /\ r.kb.state = NextState(k.state, b)
  /\ r.evt # <<>> => r.evt \in Evt

LEMMA FromStartStep ==
  ASSUME NEW k \in Keyboard, NEW b \in Octet
  PROVE  /\ FromStart(k, b).kb \in Keyboard /\ SameFlags(FromStart(k, b).kb, k)
         /\ FromStart(k, b).kb.state = NextState("START", b)
         /\ FromStart(k, b).evt # <<>> => FromStart(k, b).evt \in Evt
<1>1. k.data \in Octet /\ "EXT1" \in States /\ "EXT2_1" \in States
  BY DEF Keyboard, States
<1>2. CASE b = 224
  <2>1. FromStart(k, b) = Quiet(k, "EXT1", k.data) /\ NextState("START", b) = "EXT1"
    BY <1>2 DEF FromStart, NextState
  <2> QED
    BY <1>1, <2>1, QuietTyped
<1>3. CASE b = 225
  <2>1. FromStart(k, b) = Quiet(k, "EXT2_1", k.data) /\ NextState("START", b) = "EXT2_1"
    BY <1>3 DEF FromStart, NextState
  <2> QED
    BY <1>1, <2>1, QuietTyped
<1>4. CASE b \notin {224, 225}
  <2>1. FromStart(k, b) = Event(k, KeycodeNormal(b % 128), b < 128) /\ NextState("START", b) = "START"
    BY <1>4 DEF FromStart, NextState
  <2>2. (b < 128) \in BOOLEAN /\ KeycodeNormal(b % 128) \in Nat \ {RCTRL}
    BY KeycodesTyped
  <2> DEFINE d == b < 128
  <2>3. FromStart(k, b) = Event(k, KeycodeNormal(b % 128), d) /\ d \in BOOLEAN
    BY <2>1, <2>2
  <2> HIDE DEF d
  <2> DEFINE code == KeycodeNormal(b % 128)
  <2>4. code \in Nat \ {RCTRL} /\ d \in BOOLEAN /\ FromStart(k, b) = Event(k, code, d)
    BY <2>2, <2>3
  <2> HIDE DEF code
  <2>5. /\ Event(k, code, d).kb \in Keyboard /\ SameFlags(Event(k, code, d).kb, k)
        /\ Event(k, code, d).kb.state = "START"
        /\ Event(k, code, d).evt # <<>> => Event(k, code, d).evt \in Evt
    BY <2>4, EventTyped
  <2> QED
    BY <2>1, <2>4, <2>5
<1> QED
  BY <1>2, <1>3, <1>4

LEMMA PutKeyStep ==
  ASSUME NEW k \in Keyboard, NEW b \in Octet
  PROVE  GoodStep(PutKey(k, b), k, b)
<1>1. k.state \in States /\ k.data \in Octet
  BY DEF Keyboard
<1>2. CASE k.state = "START"
  <2>1. PutKey(k, b) = FromStart(k, b) /\ NextState(k.state, b) = NextState("START", b)
    BY <1>2 DEF PutKey
  <2> QED
    BY <2>1, FromStartStep DEF GoodStep
<1>3. CASE k.state = "EXT1"
  <2>1. CASE b \in {42, 183}
    <3>1. PutKey(k, b) = Quiet(k, "EXT1_1", b) /\ NextState(k.state, b) = "EXT1_1"
      BY <1>3, <2>1 DEF PutKey, NextState
    <3> QED
      BY <3>1, QuietTyped DEF GoodStep, States
  <2>2. CASE b \notin {42, 183}
    <3>1. PutKey(k, b) = Event(k, KeycodeExtended(b % 128), b < 128) /\ NextState(k.state, b) = "START"
      BY <1>3, <2>2 DEF PutKey, NextState
    <3>2. (b < 128) \in BOOLEAN /\ KeycodeExtended(b % 128) \in Nat \ {RCTRL}
      BY KeycodesTyped
    <3> DEFINE d == b < 128
    <3>3. PutKey(k, b) = Event(k, KeycodeExtended(b % 128), d) /\ d \in BOOLEAN
      BY <3>1, <3>2
    <3> HIDE DEF d
    <3> DEFINE code == KeycodeExtended(b % 128)
    <3>4. code \in Nat \ {RCTRL} /\ d \in BOOLEAN /\ PutKey(k, b) = Event(k, code, d)
      BY <3>2, <3>3
    <3> HIDE DEF code
    <3>5. /\ Event(k, code, d).kb \in Keyboard /\ SameFlags(Event(k, code, d).kb, k)
          /\ Event(k, code, d).kb.state = "START"
          /\ Event(k, code, d).evt # <<>> => Event(k, code, d).evt \in Evt
      BY <3>4, EventTyped
    <3> QED
      BY <3>1, <3>4, <3>5 DEF GoodStep
  <2> QED
    BY <2>1, <2>2
<1>4. CASE k.state = "EXT1_1"
  <2>1. CASE b = 224
    <3>1. PutKey(k, b) = Quiet(k, "EXT1_2", k.data) /\ NextState(k.state, b) = "EXT1_2"
      BY <1>4, <2>1 DEF PutKey, NextState
    <3> QED
      BY <1>1, <3>1, QuietTyped DEF GoodStep, States
  <2>2. CASE b # 224
    <3> DEFINE j == [k EXCEPT !.state = "START"]
    <3>1. PutKey(k, b) = FromStart(j, b) /\ NextState(k.state, b) = NextState("START", b)
      BY <1>4, <2>2 DEF PutKey, NextState
    <3>2. j \in Keyboard /\ SameFlags(j, k)
      BY DEF Keyboard, SameFlags, States
    <3> HIDE DEF j
    <3>3. /\ FromStart(j, b).kb \in Keyboard /\ SameFlags(FromStart(j, b).kb, j)
          /\ FromStart(j, b).kb.state = NextState("START", b)
          /\ FromStart(j, b).evt # <<>> => FromStart(j, b).evt \in Evt
      BY <3>2, FromStartStep
    <3>4. SameFlags(FromStart(j, b).kb, k)
      BY <3>2, <3>3 DEF SameFlags
    <3> QED
      BY <3>1, <3>3, <3>4 DEF GoodStep
  <2> QED
    BY <2>1, <2>2
<1>5. CASE k.state = "EXT1_2"
  <2> DEFINE code == IF <<k.data, b>> \in {<<183, 170>>, <<42, 55>>} THEN PRINTSCREEN ELSE Unknown
           d == k.data = 42
  <2>1. PutKey(k, b) = Event(k, code, d) /\ NextState(k.state, b) = "START"
    BY <1>5 DEF PutKey, NextState
  <2>2. code \in Nat \ {RCTRL} /\ d \in BOOLEAN
    BY DEF PRINTSCREEN, Unknown, RCTRL
  <2> HIDE DEF code, d
  <2>3. /\ Event(k, code, d).kb \in Keyboard /\ SameFlags(Event(k, code, d).kb, k)
        /\ Event(k, code, d).kb.state = "START"
        /\ Event(k, code, d).evt # <<>> => Event(k, code, d).evt \in Evt
    BY <2>2, EventTyped
  <2> QED
    BY <2>1, <2>3 DEF GoodStep
<1>6. CASE k.state = "EXT2_1"
  <2>1. PutKey(k, b) = Quiet(k, "EXT2_2", b) /\ NextState(k.state, b) = "EXT2_2"
    BY <1>6 DEF PutKey, NextState
  <2> QED
    BY <2>1, QuietTyped DEF GoodStep, States
<1>7. CASE k.state = "EXT2_2"
  <2> DEFINE code == IF <<k.data, b>> \in {<<157, 197>>, <<29, 69>>} THEN PAUSEBREAK ELSE Unknown
           d == k.data = 29
  <2>1. PutKey(k, b) = Event(k, code, d) /\ NextState(k.state, b) = "START"
    BY <1>7 DEF PutKey, NextState
  <2>2. code \in Nat \ {RCTRL} /\ d \in BOOLEAN
    BY DEF PAUSEBREAK, Unknown, RCTRL
  <2> HIDE DEF code, d
  <2>3. /\ Event(k, code, d).kb \in Keyboard /\ SameFlags(Event(k, code, d).kb, k)
        /\ Event(k, code, d).kb.state = "START"
        /\ Event(k, code, d).evt # <<>> => Event(k, code, d).evt \in Evt
    BY <2>2, EventTyped
  <2> QED
    BY <2>1, <2>3 DEF GoodStep
<1> QED
  BY <1>1, <1>2, <1>3, <1>4, <1>5, <1>6, <1>7 DEF States

\* ps2_keyboard_process_keyevent only changes flags.
LEMMA KeyFlagsTyped ==
  ASSUME NEW k \in Keyboard, NEW code, NEW down \in BOOLEAN
  PROVE  /\ KeyFlags(k, code, down) \in Keyboard
         /\ KeyFlags(k, code, down).state = k.state /\ KeyFlags(k, code, down).data = k.data
         /\ KeyFlags(k, code, down).lshift = IF code = LSHIFT THEN down ELSE k.lshift
         /\ KeyFlags(k, code, down).rshift = IF code = RSHIFT THEN down ELSE k.rshift
         /\ KeyFlags(k, code, down).lctrl = IF code = LCTRL THEN down ELSE k.lctrl
         /\ KeyFlags(k, code, down).rctrl = IF code = RCTRL THEN down ELSE k.rctrl
         /\ KeyFlags(k, code, down).lalt = IF code = LALT THEN down ELSE k.lalt
         /\ KeyFlags(k, code, down).ralt = IF code = RALT THEN down ELSE k.ralt
         /\ KeyFlags(k, code, down).caps = IF code = CAPSLOCK /\ down THEN ~k.caps ELSE k.caps
         /\ KeyFlags(k, code, down).num = IF code = NUMLOCK /\ down THEN ~k.num ELSE k.num
<1> DEFINE ls == IF code = LSHIFT THEN down ELSE k.lshift
           rs == IF code = RSHIFT THEN down ELSE k.rshift
           lc == IF code = LCTRL THEN down ELSE k.lctrl
           rc == IF code = RCTRL THEN down ELSE k.rctrl
           la == IF code = LALT THEN down ELSE k.lalt
           ra == IF code = RALT THEN down ELSE k.ralt
           cp == IF code = CAPSLOCK /\ down THEN ~k.caps ELSE k.caps
           sc == IF code = SCROLLLOCK /\ down THEN ~k.scroll ELSE k.scroll
           nm == IF code = NUMLOCK /\ down THEN ~k.num ELSE k.num
<1>1. KeyFlags(k, code, down) =
        [k EXCEPT !.lshift = ls, !.rshift = rs, !.lctrl = lc, !.rctrl = rc, !.lalt = la,
                  !.ralt = ra, !.caps = cp, !.scroll = sc, !.num = nm]
  BY DEF KeyFlags
<1>2. /\ ls \in BOOLEAN /\ rs \in BOOLEAN /\ lc \in BOOLEAN /\ rc \in BOOLEAN /\ la \in BOOLEAN
      /\ ra \in BOOLEAN /\ cp \in BOOLEAN /\ sc \in BOOLEAN /\ nm \in BOOLEAN
  BY DEF Keyboard
<1> HIDE DEF ls, rs, lc, rc, la, ra, cp, sc, nm
<1>3. KeyFlags(k, code, down) \in Keyboard
  BY <1>1, <1>2 DEF Keyboard
<1>4. /\ KeyFlags(k, code, down).state = k.state /\ KeyFlags(k, code, down).data = k.data
      /\ KeyFlags(k, code, down).lshift = ls /\ KeyFlags(k, code, down).rshift = rs
      /\ KeyFlags(k, code, down).lctrl = lc /\ KeyFlags(k, code, down).rctrl = rc
      /\ KeyFlags(k, code, down).lalt = la /\ KeyFlags(k, code, down).ralt = ra
      /\ KeyFlags(k, code, down).caps = cp /\ KeyFlags(k, code, down).num = nm
  BY <1>1 DEF Keyboard
<1> QED
  BY <1>3, <1>4 DEF ls, rs, lc, rc, la, ra, cp, nm

-----------------------------------------------------------------------------
(* Whole keys *)

\* The decoder after byte b, flags included.
After(k, b) ==
  LET r == PutKey(k, b)
  IN  IF r.evt = <<>> THEN r.kb ELSE KeyFlags(r.kb, r.evt[1], r.evt[2])

LEMMA AfterTyped ==
  ASSUME NEW k \in Keyboard, NEW b \in Octet
  PROVE  /\ After(k, b) \in Keyboard
         /\ After(k, b).state = NextState(k.state, b)
         /\ After(k, b).data = PutKey(k, b).kb.data
<1> DEFINE r == PutKey(k, b)
<1>1. GoodStep(r, k, b)
  BY PutKeyStep
<1>2. After(k, b) = IF r.evt = <<>> THEN r.kb ELSE KeyFlags(r.kb, r.evt[1], r.evt[2])
  BY DEF After
<1> HIDE DEF r
<1>3. CASE r.evt = <<>>
  BY <1>1, <1>2, <1>3 DEF GoodStep, r
<1>4. CASE r.evt # <<>>
  <2> DEFINE j == r.kb
             c == r.evt[1]
             d == r.evt[2]
  <2>1. j \in Keyboard /\ d \in BOOLEAN /\ j.state = NextState(k.state, b)
    BY <1>1, <1>4 DEF GoodStep, Evt
  <2>2. After(k, b) = KeyFlags(j, c, d)
    BY <1>2, <1>4
  <2>3. j.data = PutKey(k, b).kb.data
    BY DEF r
  <2> HIDE DEF j, c, d
  <2> QED
    BY <2>1, <2>2, <2>3, KeyFlagsTyped
<1> QED
  BY <1>3, <1>4

\* Byte b moves the decoder on from k to j and from c events to d, the events
\* being those of t.
KeyStep(k, j, c, d, b, t) ==
  /\ j = After(k, b)
  /\ IF PutKey(k, b).evt = <<>> THEN d = c
                                ELSE d = c + 1 /\ d <= Len(t) /\ t[d] = PutKey(k, b).evt

\* The bytes of the prefixes complete no event.
LEMMA PrefixByte ==
  ASSUME NEW k \in Keyboard, NEW b \in Octet,
         \/ k.state = "START" /\ b \in {224, 225}
         \/ k.state = "EXT1" /\ b \in {42, 183}
         \/ k.state = "EXT1_1" /\ b = 224
         \/ k.state = "EXT2_1"
  PROVE  /\ PutKey(k, b).evt = <<>> /\ After(k, b) \in Keyboard
         /\ After(k, b).state = IF k.state = "START" THEN IF b = 224 THEN "EXT1" ELSE "EXT2_1"
                               ELSE IF k.state = "EXT1" THEN "EXT1_1"
                               ELSE IF k.state = "EXT1_1" THEN "EXT1_2" ELSE "EXT2_2"
         /\ After(k, b).data = IF k.state \in {"EXT1", "EXT2_1"} THEN b ELSE k.data
<1>1. k.data \in Octet
  BY DEF Keyboard
<1> SUFFICES \E st \in States, data \in Octet :
               /\ PutKey(k, b) = Quiet(k, st, data)
               /\ data = IF k.state \in {"EXT1", "EXT2_1"} THEN b ELSE k.data
  <2>1. After(k, b).state = IF k.state = "START" THEN IF b = 224 THEN "EXT1" ELSE "EXT2_1"
                            ELSE IF k.state = "EXT1" THEN "EXT1_1"
                            ELSE IF k.state = "EXT1_1" THEN "EXT1_2" ELSE "EXT2_2"
    BY AfterTyped DEF NextState
  <2>2. After(k, b) \in Keyboard /\ After(k, b).data = PutKey(k, b).kb.data
    BY AfterTyped
  <2> SUFFICES ASSUME NEW st \in States, NEW data \in Octet, PutKey(k, b) = Quiet(k, st, data)
               PROVE  PutKey(k, b).evt = <<>> /\ PutKey(k, b).kb.data = data
    BY <2>1, <2>2
  <2> QED
    BY QuietTyped
<1>2. CASE k.state = "START" /\ b = 224
  <2>1. PutKey(k, b) = Quiet(k, "EXT1", k.data)
    BY <1>2 DEF PutKey, FromStart
  <2> QED
    BY <1>1, <1>2, <2>1 DEF States
<1>3. CASE k.state = "START" /\ b = 225
  <2>1. PutKey(k, b) = Quiet(k, "EXT2_1", k.data)
    BY <1>3 DEF PutKey, FromStart
  <2> QED
    BY <1>1, <1>3, <2>1 DEF States
<1>4. CASE k.state = "EXT1" /\ b \in {42, 183}
  <2>1. PutKey(k, b) = Quiet(k, "EXT1_1", b)
    BY <1>4 DEF PutKey
  <2> QED
    BY <1>4, <2>1 DEF States
<1>5. CASE k.state = "EXT1_1" /\ b = 224
  <2>1. PutKey(k, b) = Quiet(k, "EXT1_2", k.data)
    BY <1>5 DEF PutKey
  <2> QED
    BY <1>1, <1>5, <2>1 DEF States
<1>6. CASE k.state = "EXT2_1"
  <2>1. PutKey(k, b) = Quiet(k, "EXT2_2", b)
    BY <1>6 DEF PutKey
  <2> QED
    BY <1>6, <2>1 DEF States
<1> QED
  BY <1>2, <1>3, <1>4, <1>5, <1>6

\* The last byte of a key completes its event.
LEMMA LastByte ==
  ASSUME NEW k \in Keyboard, NEW code \in Nat \ {Unknown}, NEW down \in BOOLEAN, NEW b \in Octet,
         \/ k.state = "START" /\ code \in Normal /\ b = code + IF down THEN 0 ELSE 128
         \/ /\ k.state = "EXT1"
            /\ \E c \in Extended : code = Known(256 + c) /\ b = c + IF down THEN 0 ELSE 128
         \/ /\ k.state = "EXT1_2" /\ code = PRINTSCREEN
            /\ <<k.data, b>> = IF down THEN <<42, 55>> ELSE <<183, 170>>
         \/ /\ k.state = "EXT2_2" /\ code = PAUSEBREAK
            /\ <<k.data, b>> = IF down THEN <<29, 69>> ELSE <<157, 197>>
  PROVE  /\ PutKey(k, b).evt = <<code, down>>
         /\ After(k, b).state = "START" /\ After(k, b) \in Keyboard
<1>1. CASE k.state = "START" /\ code \in Normal /\ b = code + IF down THEN 0 ELSE 128
  <2>1. b % 128 = code /\ b \notin {224, 225} /\ (b < 128 <=> down)
    BY <1>1 DEF Normal
  <2>2. PutKey(k, b) = Event(k, code, b < 128)
    BY <1>1, <2>1 DEF PutKey, FromStart, KeycodeNormal
  <2>3. PutKey(k, b).evt = <<code, b < 128>>
    BY <2>2 DEF Event
  <2>4. NextState(k.state, b) = "START"
    BY <1>1, <2>1 DEF NextState
  <2> QED
    BY <2>1, <2>3, <2>4, AfterTyped
<1>2. ASSUME k.state = "EXT1", NEW c \in Extended,
             code = Known(256 + c), b = c + IF down THEN 0 ELSE 128
      PROVE  PutKey(k, b).evt = <<code, down>> /\ After(k, b).state = "START"
  <2>1. c \in 0..127 /\ b % 128 = c /\ b \notin {42, 183} /\ (b < 128 <=> down)
    BY <1>2 DEF Extended
  <2>2. KeycodeExtended(c) = code
    BY <1>2, <2>1 DEF KeycodeExtended, Known, RCTRL, LCTRL
  <2>3. PutKey(k, b) = Event(k, code, b < 128)
    BY <1>2, <2>1, <2>2 DEF PutKey
  <2>4. PutKey(k, b).evt = <<code, b < 128>>
    BY <2>3 DEF Event
  <2>5. NextState(k.state, b) = "START"
    BY <1>2, <2>1 DEF NextState
  <2> QED
    BY <2>1, <2>4, <2>5, AfterTyped
<1>3. CASE /\ k.state = "EXT1_2" /\ code = PRINTSCREEN
           /\ <<k.data, b>> = IF down THEN <<42, 55>> ELSE <<183, 170>>
  <2>1. (k.data = 42 <=> down) /\ <<k.data, b>> \in {<<183, 170>>, <<42, 55>>}
    BY <1>3
  <2>2. PutKey(k, b) = Event(k, code, k.data = 42)
    BY <1>3, <2>1 DEF PutKey
  <2>3. PutKey(k, b).evt = <<code, k.data = 42>>
    BY <2>2 DEF Event
  <2>4. NextState(k.state, b) = "START"
    BY <1>3 DEF NextState
  <2> QED
    BY <2>1, <2>3, <2>4, AfterTyped
<1>4. CASE /\ k.state = "EXT2_2" /\ code = PAUSEBREAK
           /\ <<k.data, b>> = IF down THEN <<29, 69>> ELSE <<157, 197>>
  <2>1. (k.data = 29 <=> down) /\ <<k.data, b>> \in {<<157, 197>>, <<29, 69>>}
    BY <1>4
  <2>2. PutKey(k, b) = Event(k, code, k.data = 29)
    BY <1>4, <2>1 DEF PutKey
  <2>3. PutKey(k, b).evt = <<code, k.data = 29>>
    BY <2>2 DEF Event
  <2>4. NextState(k.state, b) = "START"
    BY <1>4 DEF NextState
  <2> QED
    BY <2>1, <2>3, <2>4, AfterTyped
<1> QED
  BY <1>1, <1>2, <1>3, <1>4, AfterTyped

\* The four forms of a scan code.
LEMMA ScancodeForms ==
  ASSUME NEW key \in Keys, NEW down \in BOOLEAN
  PROVE  LET up == IF down THEN 0 ELSE 128
         IN  \/ key \in Normal /\ Scancode(key, down) = <<key + up>> /\ Known(key) = key
             \/ \E c \in Extended : key = 256 + c /\ Scancode(key, down) = <<224, c + up>>
             \/ /\ key = PRINTSCREEN /\ Known(key) = key
                /\ Scancode(key, down) = IF down THEN <<224, 42, 224, 55>> ELSE <<224, 183, 224, 170>>
             \/ key = PAUSEBREAK /\ Scancode(key, down) = <<225, 29, 69, 225, 157, 197>>
<1> DEFINE up == IF down THEN 0 ELSE 128
<1>1. key \in Normal \cup {256 + b : b \in Extended} \cup {PRINTSCREEN, PAUSEBREAK}
  BY KeysAssumption
<1>2. CASE key \in Normal
  <2>1. Scancode(key, down) = <<key + up>> /\ Known(key) = key
    <3>1. key \in 1..88 /\ key \notin 256..511
      BY <1>2 DEF Normal
    <3> QED
      BY <3>1 DEF Scancode, Known, PAUSEBREAK, PRINTSCREEN, RCTRL
  <2> QED
    BY <1>2, <2>1
<1>3. ASSUME NEW c \in Extended, key = 256 + c
      PROVE  Scancode(key, down) = <<224, c + up>>
  BY <1>3 DEF Scancode, Extended, PAUSEBREAK, PRINTSCREEN
<1>4. CASE key = PRINTSCREEN
  BY <1>4 DEF Scancode, Known, PAUSEBREAK, PRINTSCREEN, RCTRL
<1>5. CASE key = PAUSEBREAK
  BY <1>5 DEF Scancode, PAUSEBREAK, PRINTSCREEN
<1> QED
  BY <1>1, <1>2, <1>3, <1>4, <1>5

\* The events of a key, as Stroke records them.
News(key, down) ==
  IF key = PAUSEBREAK THEN <<<<key, TRUE>>, <<key, FALSE>>>> ELSE <<<<Known(key), down>>>>

LEMMA NewsTyped ==
  ASSUME NEW key \in Keys, NEW down \in BOOLEAN
  PROVE  News(key, down) \in Seq(Evt) /\ Len(News(key, down)) = IF key = PAUSEBREAK THEN 2 ELSE 1
<1>1. CASE key = PAUSEBREAK
  <2>1. key \in Nat \ {Unknown, RCTRL}
    BY <1>1 DEF PAUSEBREAK, Unknown, RCTRL
  <2>3. <<key, TRUE>> \in Evt /\ <<key, FALSE>> \in Evt
    BY <2>1, Zenon DEF Evt
  <2>2. News(key, down) = <<<<key, TRUE>>, <<key, FALSE>>>>
    BY <1>1 DEF News
  <2> QED
    BY <1>1, <2>2, <2>3
<1>2. CASE key # PAUSEBREAK
  <2>1. Known(key) \in Nat \ {Unknown, RCTRL}
    BY KeysAssumption
       DEF Known, Normal, Extended, PAUSEBREAK, PRINTSCREEN, RCTRL, LCTRL, Unknown
  <2>2. <<Known(key), down>> \in Evt
    BY <2>1 DEF Evt
  <2>3. News(key, down) = <<<<Known(key), down>>>>
    BY <1>2 DEF News
  <2> QED
    BY <1>2, <2>2, <2>3
<1> QED
  BY <1>1, <1>2

LEMMA ScancodeTyped ==
  ASSUME NEW key \in Keys, NEW down \in BOOLEAN
  PROVE  Scancode(key, down) \in Seq(Octet) /\ Len(Scancode(key, down)) \in 1..6
<1> DEFINE up == IF down THEN 0 ELSE 128
<1>1. CASE key \in Normal /\ Scancode(key, down) = <<key + up>>
  <2>1. key + up \in Octet
    BY <1>1 DEF Normal, Octet
  <2> QED
    BY <1>1, <2>1
<1>2. ASSUME NEW c \in Extended, Scancode(key, down) = <<224, c + up>>
      PROVE  Scancode(key, down) \in Seq(Octet) /\ Len(Scancode(key, down)) \in 1..6
  <2>1. c + up \in Octet /\ 224 \in Octet
    BY <1>2 DEF Extended, Octet
  <2> HIDE DEF up
  <2>2. Len(<<224, c + up>>) = 2 /\ <<224, c + up>> \in Seq(Octet)
    BY <2>1
  <2> QED
    BY <1>2, <2>2
<1>3. CASE Scancode(key, down) = IF down THEN <<224, 42, 224, 55>> ELSE <<224, 183, 224, 170>>
  <2>1. <<224, 42, 224, 55>> \in Seq(Octet) /\ <<224, 183, 224, 170>> \in Seq(Octet)
    BY DEF Octet
  <2>2. Len(<<224, 42, 224, 55>>) = 4 /\ Len(<<224, 183, 224, 170>>) = 4
    OBVIOUS
  <2> QED
    BY <1>3, <2>1, <2>2
<1>4. CASE Scancode(key, down) = <<225, 29, 69, 225, 157, 197>>
  <2>1. <<225, 29, 69, 225, 157, 197>> \in Seq(Octet) /\ Len(<<225, 29, 69, 225, 157, 197>>) = 6
    BY DEF Octet
  <2> QED
    BY <1>4, <2>1
<1> QED
  BY <1>1, <1>2, <1>3, <1>4, ScancodeForms

\* The decoder's way through the bytes bs, with the events of t.
IsRun(bs, t, path, c) ==
  /\ path \in [1..(Len(bs) + 1) -> Keyboard]
  /\ c \in [1..(Len(bs) + 1) -> 0..Len(t)]
  /\ c[1] = 0 /\ c[Len(bs) + 1] = Len(t)
  /\ path[Len(bs) + 1].state = "START"
  /\ \A i \in 1..Len(bs) : KeyStep(path[i], path[i + 1], c[i], c[i + 1], bs[i], t)

\* From the state between two keys a key gives its events, and nothing else.
LEMMA KeyRun ==
  ASSUME NEW k \in Keyboard, k.state = "START", NEW key \in Keys, NEW down \in BOOLEAN
  PROVE  \E path, c : path[1] = k /\ IsRun(Scancode(key, down), News(key, down), path, c)
<1> DEFINE up == IF down THEN 0 ELSE 128
           bs == Scancode(key, down)
           t == News(key, down)
<1>1. CASE key \in Normal /\ bs = <<key + up>> /\ Known(key) = key
  <2> DEFINE b1 == key + up
             k2 == After(k, b1)
             path == [i \in 1..2 |-> IF i = 1 THEN k ELSE k2]
             c == [i \in 1..2 |-> i - 1]
  <2>1. key # PAUSEBREAK /\ key \in Nat \ {Unknown} /\ b1 \in Octet
    BY <1>1 DEF Normal, PAUSEBREAK, Unknown, Octet
  <2>2. t = <<<<key, down>>>>
    BY <1>1, <2>1 DEF News
  <2>3. PutKey(k, b1).evt = <<key, down>> /\ k2.state = "START"
    BY <1>1, <2>1, LastByte
  <2>4. k2 \in Keyboard
    BY <2>1, AfterTyped
  <2>5. Len(bs) = 1 /\ bs[1] = b1 /\ Len(t) = 1 /\ t[1] = <<key, down>>
    BY <1>1, <2>2
  <2>6. path \in [1..2 -> Keyboard] /\ c \in [1..2 -> 0..1] /\ path[1] = k /\ path[2] = k2
        /\ c[1] = 0 /\ c[2] = 1
    BY <2>4
  <2>7. KeyStep(k, k2, 0, 1, b1, t)
    BY <2>3, <2>5 DEF KeyStep
  <2> HIDE DEF b1, k2, path, c, bs, t
  <2>8. IsRun(bs, t, path, c)
    BY <2>3, <2>5, <2>6, <2>7 DEF IsRun
  <2> QED
    BY <2>6, <2>8 DEF bs, t
<1>2. ASSUME NEW x \in Extended, key = 256 + x, bs = <<224, x + up>>
      PROVE  \E path, c : path[1] = k /\ IsRun(bs, t, path, c)
  <2> DEFINE b2 == x + up
             k2 == After(k, 224)
             k3 == After(k2, b2)
             path == [i \in 1..3 |-> IF i = 1 THEN k ELSE IF i = 2 THEN k2 ELSE k3]
             c == [i \in 1..3 |-> IF i = 3 THEN 1 ELSE 0]
             e == <<Known(key), down>>
  <2>1. key # PAUSEBREAK /\ Known(key) \in Nat \ {Unknown} /\ b2 \in Octet /\ 224 \in Octet
    BY <1>2 DEF Extended, PAUSEBREAK, Unknown, Octet, Known, LCTRL, RCTRL
  <2>2. t = <<e>>
    BY <2>1 DEF News
  <2>3. PutKey(k, 224).evt = <<>> /\ k2 \in Keyboard /\ k2.state = "EXT1"
    BY <2>1, PrefixByte
  <2>4. \E y \in Extended : Known(key) = Known(256 + y) /\ b2 = y + IF down THEN 0 ELSE 128
    BY <1>2
  <2>5. k3 \in Keyboard
    BY <2>1, <2>3, AfterTyped
  <2>6. Len(bs) = 2 /\ bs[1] = 224 /\ bs[2] = b2 /\ Len(t) = 1 /\ t[1] = e
    BY <1>2, <2>2
  <2>7. path \in [1..3 -> Keyboard] /\ c \in [1..3 -> 0..1] /\ path[1] = k /\ path[2] = k2
        /\ path[3] = k3 /\ c[1] = 0 /\ c[2] = 0 /\ c[3] = 1
    BY <2>3, <2>5
  <2> HIDE DEF b2, k2
  <2>8. PutKey(k2, b2).evt = e /\ k3.state = "START"
    BY <2>1, <2>3, <2>4, LastByte
  <2>9. KeyStep(k, k2, 0, 0, 224, t)
    BY <2>3 DEF KeyStep, k2
  <2>10. KeyStep(k2, k3, 0, 1, b2, t)
    BY <2>6, <2>8 DEF KeyStep
  <2> HIDE DEF k3, path, c, bs, t, e
  <2>11. IsRun(bs, t, path, c)
    BY <2>6, <2>7, <2>8, <2>9, <2>10 DEF IsRun
  <2> QED
    BY <2>7, <2>11 DEF bs, t
<1>3. CASE /\ key = PRINTSCREEN /\ Known(key) = key
           /\ bs = IF down THEN <<224, 42, 224, 55>> ELSE <<224, 183, 224, 170>>
  <2> DEFINE b2 == IF down THEN 42 ELSE 183
             b4 == IF down THEN 55 ELSE 170
             k2 == After(k, 224)
             k3 == After(k2, b2)
             k4 == After(k3, 224)
             k5 == After(k4, b4)
             path == [i \in 1..5 |-> IF i = 1 THEN k ELSE IF i = 2 THEN k2 ELSE IF i = 3 THEN k3
                                     ELSE IF i = 4 THEN k4 ELSE k5]
             c == [i \in 1..5 |-> IF i = 5 THEN 1 ELSE 0]
             e == <<key, down>>
  <2>1. key # PAUSEBREAK /\ key \in Nat \ {Unknown} /\ b2 \in Octet /\ 224 \in Octet /\ b4 \in Octet
    BY <1>3 DEF PAUSEBREAK, PRINTSCREEN, Unknown, Octet
  <2>2. t = <<e>>
    BY <1>3, <2>1 DEF News
  <2>3. PutKey(k, 224).evt = <<>> /\ k2 \in Keyboard /\ k2.state = "EXT1"
    BY <2>1, PrefixByte
  <2>4. b2 \in {42, 183} /\ <<b2, b4>> = IF down THEN <<42, 55>> ELSE <<183, 170>>
    OBVIOUS
  <2>5. Len(bs) = 4 /\ bs[1] = 224 /\ bs[2] = b2 /\ bs[3] = 224 /\ bs[4] = b4 /\ Len(t) = 1 /\ t[1] = e
    BY <1>3, <2>2
  <2>6. KeyStep(k, k2, 0, 0, 224, t)
    BY <2>3 DEF KeyStep
  <2> HIDE DEF b2, b4, k2
  <2>7. PutKey(k2, b2).evt = <<>> /\ k3 \in Keyboard /\ k3.state = "EXT1_1" /\ k3.data = b2
    BY <2>1, <2>3, <2>4, PrefixByte
  <2>8. KeyStep(k2, k3, 0, 0, b2, t)
    BY <2>7 DEF KeyStep
  <2> HIDE DEF k3
  <2>9. PutKey(k3, 224).evt = <<>> /\ k4 \in Keyboard /\ k4.state = "EXT1_2" /\ k4.data = b2
    BY <2>1, <2>7, PrefixByte
  <2>10. KeyStep(k3, k4, 0, 0, 224, t)
    BY <2>9 DEF KeyStep
  <2> HIDE DEF k4
  <2>11. PutKey(k4, b4).evt = e /\ k5.state = "START" /\ k5 \in Keyboard
    BY <1>3, <2>1, <2>4, <2>9, LastByte
  <2>12. KeyStep(k4, k5, 0, 1, b4, t)
    BY <2>5, <2>11 DEF KeyStep
  <2> HIDE DEF k5
  <2>13. path \in [1..5 -> Keyboard] /\ c \in [1..5 -> 0..1]
    BY <2>3, <2>7, <2>9, <2>11
  <2>14. /\ path[1] = k /\ path[2] = k2 /\ path[3] = k3 /\ path[4] = k4 /\ path[5] = k5
         /\ c[1] = 0 /\ c[2] = 0 /\ c[3] = 0 /\ c[4] = 0 /\ c[5] = 1
    OBVIOUS
  <2> HIDE DEF path, c, bs, t, e
  <2>15. IsRun(bs, t, path, c)
    <3>1. \A i \in 1..4 : i = 1 \/ i = 2 \/ i = 3 \/ i = 4
      OBVIOUS
    <3>2. \A i \in 1..4 : KeyStep(path[i], path[i + 1], c[i], c[i + 1], bs[i], t)
      BY <3>1, <2>5, <2>6, <2>8, <2>10, <2>12, <2>14
    <3> QED
      BY <3>2, <2>5, <2>11, <2>13, <2>14 DEF IsRun
  <2> QED
    BY <2>14, <2>15 DEF bs, t
<1>4. CASE key = PAUSEBREAK /\ bs = <<225, 29, 69, 225, 157, 197>>
  <2> DEFINE k2 == After(k, 225)
             k3 == After(k2, 29)
             k4 == After(k3, 69)
             k5 == After(k4, 225)
             k6 == After(k5, 157)
             k7 == After(k6, 197)
             path == [i \in 1..7 |-> IF i = 1 THEN k ELSE IF i = 2 THEN k2 ELSE IF i = 3 THEN k3
                                     ELSE IF i = 4 THEN k4 ELSE IF i = 5 THEN k5
                                     ELSE IF i = 6 THEN k6 ELSE k7]
             c == [i \in 1..7 |-> IF i <= 3 THEN 0 ELSE IF i <= 6 THEN 1 ELSE 2]
             e == <<key, TRUE>>
             f == <<key, FALSE>>
  <2>1. /\ key \in Nat \ {Unknown} /\ 225 \in Octet /\ 29 \in Octet /\ 69 \in Octet
        /\ 157 \in Octet /\ 197 \in Octet
    BY <1>4 DEF PAUSEBREAK, Unknown, Octet
  <2>2. t = <<e, f>>
    BY <1>4 DEF News
  <2> HIDE DEF e, f
  <2>3. /\ Len(bs) = 6 /\ bs[1] = 225 /\ bs[2] = 29 /\ bs[3] = 69 /\ bs[4] = 225 /\ bs[5] = 157
        /\ bs[6] = 197 /\ Len(t) = 2 /\ t[1] = e /\ t[2] = f
    BY <1>4, <2>2
  <2>4. PutKey(k, 225).evt = <<>> /\ k2 \in Keyboard /\ k2.state = "EXT2_1"
    BY <2>1, PrefixByte
  <2>5. KeyStep(k, k2, 0, 0, 225, t)
    BY <2>4 DEF KeyStep
  <2> HIDE DEF k2
  <2>6. PutKey(k2, 29).evt = <<>> /\ k3 \in Keyboard /\ k3.state = "EXT2_2" /\ k3.data = 29
    BY <2>1, <2>4, PrefixByte
  <2>7. KeyStep(k2, k3, 0, 0, 29, t)
    BY <2>6 DEF KeyStep
  <2> HIDE DEF k3
  <2>8. PutKey(k3, 69).evt = e /\ k4 \in Keyboard /\ k4.state = "START"
    <3>1. PICK d \in BOOLEAN : d = TRUE
      OBVIOUS
    <3>2. <<k3.data, 69>> = IF d THEN <<29, 69>> ELSE <<157, 197>>
      BY <2>6, <3>1
    <3>3. PutKey(k3, 69).evt = <<key, d>> /\ k4 \in Keyboard /\ k4.state = "START"
      BY <1>4, <2>1, <2>6, <3>2, LastByte
    <3> QED
      BY <3>1, <3>3 DEF e
  <2>9. KeyStep(k3, k4, 0, 1, 69, t)
    <3>1. e # <<>>
      BY DEF e
    <3> QED
      BY <2>3, <2>8, <3>1 DEF KeyStep
  <2> HIDE DEF k4
  <2>10. PutKey(k4, 225).evt = <<>> /\ k5 \in Keyboard /\ k5.state = "EXT2_1"
    BY <2>1, <2>8, PrefixByte
  <2>11. KeyStep(k4, k5, 1, 1, 225, t)
    BY <2>10 DEF KeyStep
  <2> HIDE DEF k5
  <2>12. PutKey(k5, 157).evt = <<>> /\ k6 \in Keyboard /\ k6.state = "EXT2_2" /\ k6.data = 157
    BY <2>1, <2>10, PrefixByte
  <2>13. KeyStep(k5, k6, 1, 1, 157, t)
    BY <2>12 DEF KeyStep
  <2> HIDE DEF k6
  <2>14. PutKey(k6, 197).evt = f /\ k7 \in Keyboard /\ k7.state = "START"
    <3>1. PICK d \in BOOLEAN : d = FALSE
      OBVIOUS
    <3>2. <<k6.data, 197>> = IF d THEN <<29, 69>> ELSE <<157, 197>>
      BY <2>12, <3>1
    <3>3. PutKey(k6, 197).evt = <<key, d>> /\ k7 \in Keyboard /\ k7.state = "START"
      BY <1>4, <2>1, <2>12, <3>2, LastByte
    <3> QED
      BY <3>1, <3>3 DEF f
  <2>15. KeyStep(k6, k7, 1, 2, 197, t)
    <3>1. f # <<>>
      BY DEF f
    <3> QED
      BY <2>3, <2>14, <3>1 DEF KeyStep
  <2> HIDE DEF k7
  <2>16. path \in [1..7 -> Keyboard] /\ c \in [1..7 -> 0..2]
    BY <2>4, <2>6, <2>8, <2>10, <2>12, <2>14
  <2>17. /\ path[1] = k /\ path[2] = k2 /\ path[3] = k3 /\ path[4] = k4 /\ path[5] = k5
         /\ path[6] = k6 /\ path[7] = k7
    OBVIOUS
  <2>18. /\ c[1] = 0 /\ c[2] = 0 /\ c[3] = 0 /\ c[4] = 1 /\ c[5] = 1 /\ c[6] = 1 /\ c[7] = 2
    OBVIOUS
  <2> HIDE DEF path, c, bs, t, e, f
  <2>19. IsRun(bs, t, path, c)
    <3>1. \A i \in 1..6 : i = 1 \/ i = 2 \/ i = 3 \/ i = 4 \/ i = 5 \/ i = 6
      OBVIOUS
    <3>2. \A i \in 1..6 : KeyStep(path[i], path[i + 1], c[i], c[i + 1], bs[i], t)
      BY <3>1, <2>3, <2>5, <2>7, <2>9, <2>11, <2>13, <2>15, <2>17, <2>18
    <3> QED
      BY <3>2, <2>3, <2>14, <2>16, <2>17, <2>18 DEF IsRun
  <2> QED
    BY <2>17, <2>19 DEF bs, t
<1> QED
  BY <1>1, <1>2, <1>3, <1>4, ScancodeForms

-----------------------------------------------------------------------------
(* Whole packets *)

Displacement == -256..255
Movement == [left : BOOLEAN, dx : Displacement, dy : Displacement]
\* A packet that is not complete.
Begun == {m \in Seq(Octet) : Len(m) <= 2}

LEMMA PutMouseTyped ==
  ASSUME NEW m \in Begun, NEW b \in Octet
  PROVE  PutMouse(m, b) \in Begun /\ Len(PutMouse(m, b)) = (Len(m) + 1) % 3
<1>1. m \in Seq(Octet) /\ Len(m) \in 0..2
  <2>1. m \in Seq(Octet) /\ Len(m) <= 2
    BY DEF Begun
  <2>2. Len(m) \in Nat
    BY <2>1, LenProperties
  <2>3. \A n \in Nat : n <= 2 => n \in 0..2
    OBVIOUS
  <2> QED
    BY <2>1, <2>2, <2>3
<1>2. CASE Len(m) = 2
  <2>1. PutMouse(m, b) = <<>>
    BY <1>2 DEF PutMouse
  <2> QED
    BY <1>2, <2>1 DEF Begun
<1>3. CASE Len(m) # 2
  <2>1. PutMouse(m, b) = Append(m, b)
    BY <1>3 DEF PutMouse
  <2>2. Append(m, b) \in Seq(Octet) /\ Len(Append(m, b)) = Len(m) + 1
    BY <1>1, AppendProperties
  <2>3. \A n \in 0..1 : (n + 1) % 3 = n + 1
    OBVIOUS
  <2> QED
    BY <1>1, <1>3, <2>1, <2>2, <2>3 DEF Begun
<1> QED
  BY <1>2, <1>3

\* The sign bit and the low byte make the displacement of nine bits.
LEMMA NineBits ==
  ASSUME NEW d \in Displacement
  PROVE  d = (IF d < 0 THEN (d % 256) - 256 ELSE d % 256) /\ d % 256 \in Octet
BY DEF Displacement, Octet

LEMMA PacketFlags ==
  ASSUME NEW m \in Movement
  PROVE  /\ Packet(m) \in Seq(Octet) /\ Len(Packet(m)) = 3
         /\ Packet(m)[2] = m.dx % 256 /\ Packet(m)[3] = m.dy % 256
         /\ Bit(Packet(m)[1], 1) <=> m.left
         /\ Bit(Packet(m)[1], 16) <=> m.dx < 0
         /\ Bit(Packet(m)[1], 32) <=> m.dy < 0
<1> DEFINE l == IF m.left THEN 1 ELSE 0
           x == IF m.dx < 0 THEN 16 ELSE 0
           y == IF m.dy < 0 THEN 32 ELSE 0
           f == 8 + l + x + y
           p == m.dx % 256
           q == m.dy % 256
<1>1. Packet(m) = <<f, p, q>>
  BY DEF Packet
<1>2. l \in {0, 1} /\ x \in {0, 16} /\ y \in {0, 32}
  OBVIOUS
<1>3. p \in Octet /\ q \in Octet
  BY NineBits DEF Movement
<1>4. (l = 1 <=> m.left) /\ (x = 16 <=> m.dx < 0) /\ (y = 32 <=> m.dy < 0)
  BY DEF Movement
<1> HIDE DEF l, x, y, p, q
<1>5. /\ f \in Octet
      /\ (f \div 1) % 2 = 1 <=> l = 1
      /\ (f \div 16) % 2 = 1 <=> x = 16
      /\ (f \div 32) % 2 = 1 <=> y = 32
  BY <1>2 DEF Octet
<1> HIDE DEF f
<1>6. <<f, p, q>> \in Seq(Octet) /\ Len(<<f, p, q>>) = 3
  BY <1>3, <1>5
<1> QED
  BY <1>1, <1>4, <1>5, <1>6 DEF Bit, p, q

\* A packet carries its movement, whatever the signs and the sizes.
LEMMA PacketMeans ==
  ASSUME NEW m \in Movement
  PROVE  MouseEvent(Packet(m)) = m
<1> DEFINE p == Packet(m)
           ev == MouseEvent(p)
           a == Bit(p[1], 1)
           dx == IF Bit(p[1], 16) THEN p[2] - 256 ELSE p[2]
           dy == IF Bit(p[1], 32) THEN p[3] - 256 ELSE p[3]
<1>1. ev = [left |-> a, dx |-> dx, dy |-> dy]
  BY DEF MouseEvent
<1>2. m.dx \in Displacement /\ m.dy \in Displacement /\ m.left \in BOOLEAN
  BY DEF Movement
<1>3. dx = m.dx
  BY <1>2, PacketFlags, NineBits
<1>4. dy = m.dy
  BY <1>2, PacketFlags, NineBits
<1>5. a <=> m.left
  BY PacketFlags
<1>6. a = m.left
  BY <1>2, <1>5 DEF Bit
<1> HIDE DEF a, dx, dy, ev, p
<1>7. m = [left |-> m.left, dx |-> m.dx, dy |-> m.dy]
  BY DEF Movement
<1>8. ev = m
  BY <1>1, <1>3, <1>4, <1>6, <1>7
<1> QED
  BY <1>8 DEF ev, p

\* Byte b moves the decoder on from m to j, and from c to d movements of t.
MouseStep(m, j, c, d, b, t) ==
  /\ j = PutMouse(m, b)
  /\ IF Len(m) = 2 THEN d = c + 1 /\ d <= Len(t) /\ t[d] = MouseEvent(Append(m, b))
                   ELSE d = c

-----------------------------------------------------------------------------
(* The way of both decoders through the messages that wait *)

\* The decoders, and how many events and movements they have reported.
Decoders == [kb : Keyboard, ms : Begun, ke : Nat, me : Nat]

\* Message msg moves them on from x to y; ts are the strokes, mv the movements.
Dispatches(x, y, msg, ts, mv) ==
  IF msg.type = "key"
    THEN KeyStep(x.kb, y.kb, x.ke, y.ke, msg.data, ts) /\ y.ms = x.ms /\ y.me = x.me
    ELSE MouseStep(x.ms, y.ms, x.me, y.me, msg.data, mv) /\ y.kb = x.kb /\ y.ke = x.ke

\* run is the way through the messages q.
Goes(q, run, ts, mv) ==
  /\ run \in [1..(Len(q) + 1) -> Decoders]
  /\ \A i \in 1..(Len(q) + 1) : run[i].ke <= Len(ts) /\ run[i].me <= Len(mv)
  /\ \A i \in 1..Len(q) : Dispatches(run[i], run[i + 1], q[i], ts, mv)

\* Between two keys and two packets, with everything reported.
Settled(x, ts, mv) ==
  x.kb.state = "START" /\ x.ms = <<>> /\ x.ke = Len(ts) /\ x.me = Len(mv)

\* The way stays the same when more strokes or movements follow.
LEMMA GoesOn ==
  ASSUME NEW q \in Seq(Message), NEW run, NEW ts \in Seq(Evt), NEW mv \in Seq(Movement),
         NEW a \in Seq(Evt), NEW b \in Seq(Movement), Goes(q, run, ts, mv)
  PROVE  Goes(q, run, ts \o a, mv \o b)
<1> DEFINE ts2 == ts \o a
           mv2 == mv \o b
<1>1. /\ Len(ts2) = Len(ts) + Len(a) /\ Len(mv2) = Len(mv) + Len(b)
      /\ Len(ts) \in Nat /\ Len(a) \in Nat /\ Len(mv) \in Nat /\ Len(b) \in Nat
  BY ConcatProperties, LenProperties
<1>2. (\A i \in 1..Len(ts) : ts2[i] = ts[i]) /\ (\A i \in 1..Len(mv) : mv2[i] = mv[i])
  BY ConcatProperties
<1> HIDE DEF ts2, mv2
<1>3. run \in [1..(Len(q) + 1) -> Decoders]
  BY DEF Goes
<1>4. ASSUME NEW i \in 1..(Len(q) + 1)
      PROVE  run[i].ke <= Len(ts2) /\ run[i].me <= Len(mv2)
  <2> DEFINE k == run[i].ke
             c == run[i].me
  <2>1. k <= Len(ts) /\ c <= Len(mv) /\ k \in Nat /\ c \in Nat
    BY <1>3 DEF Goes, Decoders
  <2> HIDE DEF k, c
  <2>2. k <= Len(ts2) /\ c <= Len(mv2)
    BY <2>1, <1>1
  <2> QED
    BY <2>2 DEF k, c
<1>5. ASSUME NEW i \in 1..Len(q)
      PROVE  Dispatches(run[i], run[i + 1], q[i], ts2, mv2)
  <2> DEFINE x == run[i]
             y == run[i + 1]
             msg == q[i]
  <2>1. i \in 1..(Len(q) + 1) /\ i + 1 \in 1..(Len(q) + 1)
    BY LenProperties
  <2>2. x \in Decoders /\ y \in Decoders /\ Dispatches(x, y, msg, ts, mv)
    BY <1>3, <2>1 DEF Goes
  <2>3. x.ke \in Nat /\ x.me \in Nat
    BY <2>2 DEF Decoders
  <2> HIDE DEF x, y, msg
  <2>4. KeyStep(x.kb, y.kb, x.ke, y.ke, msg.data, ts) => KeyStep(x.kb, y.kb, x.ke, y.ke, msg.data, ts2)
    BY <1>1, <1>2, <2>3 DEF KeyStep
  <2>5. MouseStep(x.ms, y.ms, x.me, y.me, msg.data, mv) => MouseStep(x.ms, y.ms, x.me, y.me, msg.data, mv2)
    BY <1>1, <1>2, <2>3 DEF MouseStep
  <2>6. Dispatches(x, y, msg, ts2, mv2)
    BY <2>2, <2>4, <2>5 DEF Dispatches
  <2> QED
    BY <2>6 DEF x, y, msg
<1> QED
  BY <1>3, <1>4, <1>5 DEF Goes, ts2, mv2

\* The way from the second message on.
LEMMA GoesTail ==
  ASSUME NEW q \in Seq(Message), q # <<>>, NEW run, NEW ts, NEW mv, Goes(q, run, ts, mv)
  PROVE  LET rest == [i \in 1..(Len(Tail(q)) + 1) |-> run[i + 1]]
         IN  /\ Goes(Tail(q), rest, ts, mv)
             /\ rest[1] = run[2] /\ rest[Len(Tail(q)) + 1] = run[Len(q) + 1]
             /\ Dispatches(run[1], run[2], Head(q), ts, mv)
             /\ run[1] \in Decoders /\ run[2] \in Decoders
<1> DEFINE n == Len(q)
           t == Tail(q)
           rest == [i \in 1..(Len(t) + 1) |-> run[i + 1]]
<1>1. n \in Nat \ {0} /\ Len(t) = n - 1 /\ (\A i \in 1..(n - 1) : t[i] = q[i + 1]) /\ Head(q) = q[1]
  BY HeadTailProperties, LenProperties, EmptySeq
<1>2. /\ run \in [1..(n + 1) -> Decoders]
      /\ \A i \in 1..(n + 1) : run[i].ke <= Len(ts) /\ run[i].me <= Len(mv)
      /\ \A i \in 1..n : Dispatches(run[i], run[i + 1], q[i], ts, mv)
  BY DEF Goes
<1> HIDE DEF n, t
<1>3. rest \in [1..(Len(t) + 1) -> Decoders]
  BY <1>1, <1>2
<1>4. \A i \in 1..(Len(t) + 1) : rest[i] = run[i + 1] /\ i + 1 \in 1..(n + 1)
  BY <1>1
<1> HIDE DEF rest
<1>5. \A i \in 1..(Len(t) + 1) : rest[i].ke <= Len(ts) /\ rest[i].me <= Len(mv)
  BY <1>2, <1>4
<1>6. ASSUME NEW i \in 1..Len(t)
      PROVE  Dispatches(rest[i], rest[i + 1], t[i], ts, mv)
  <2>1. i + 1 \in 1..n /\ i \in 1..(Len(t) + 1) /\ i + 1 \in 1..(Len(t) + 1) /\ t[i] = q[i + 1]
    BY <1>1
  <2>2. rest[i] = run[i + 1] /\ rest[i + 1] = run[(i + 1) + 1]
    BY <1>4, <2>1
  <2> QED
    BY <1>2, <2>1, <2>2
<1>7. Goes(t, rest, ts, mv)
  BY <1>3, <1>5, <1>6 DEF Goes
<1>8. 1 \in 1..(Len(t) + 1) /\ Len(t) + 1 \in 1..(Len(t) + 1) /\ (Len(t) + 1) + 1 = n + 1 /\ 1 + 1 = 2
  BY <1>1
<1>9. rest[1] = run[2] /\ rest[Len(t) + 1] = run[n + 1]
  BY <1>4, <1>8
<1>10. Dispatches(run[1], run[2], Head(q), ts, mv) /\ run[1] \in Decoders /\ run[2] \in Decoders
  <2>1. 1 \in 1..n /\ 1 \in 1..(n + 1) /\ 2 \in 1..(n + 1)
    BY <1>1
  <2> QED
    BY <1>1, <1>2, <1>8, <2>1
<1> QED
  BY <1>7, <1>9, <1>10 DEF rest, n, t

\* Two ways, one after the other.
LEMMA GoesConcat ==
  ASSUME NEW q \in Seq(Message), NEW p \in Seq(Message), NEW run, NEW next, NEW ts, NEW mv,
         Goes(q, run, ts, mv), Goes(p, next, ts, mv), next[1] = run[Len(q) + 1]
  PROVE  \E way : /\ Goes(q \o p, way, ts, mv)
                  /\ way[1] = run[1] /\ way[Len(q \o p) + 1] = next[Len(p) + 1]
<1> DEFINE m == Len(q)
           n == Len(p)
           s == q \o p
           way == [i \in 1..(m + n + 1) |-> IF i <= m + 1 THEN run[i] ELSE next[i - m]]
<1>1. m \in Nat /\ n \in Nat /\ Len(s) = m + n
  BY ConcatProperties, LenProperties
<1>2. (\A i \in 1..m : s[i] = q[i]) /\ (\A i \in (m + 1)..(m + n) : s[i] = p[i - m])
  BY ConcatProperties
<1>3. /\ run \in [1..(m + 1) -> Decoders] /\ next \in [1..(n + 1) -> Decoders]
      /\ \A i \in 1..(m + 1) : run[i].ke <= Len(ts) /\ run[i].me <= Len(mv)
      /\ \A i \in 1..(n + 1) : next[i].ke <= Len(ts) /\ next[i].me <= Len(mv)
      /\ \A i \in 1..m : Dispatches(run[i], run[i + 1], q[i], ts, mv)
      /\ \A i \in 1..n : Dispatches(next[i], next[i + 1], p[i], ts, mv)
  BY DEF Goes
<1>4. next[1] = run[m + 1]
  OBVIOUS
<1> HIDE DEF m, n, s
<1>5. way \in [1..(m + n + 1) -> Decoders]
  BY <1>1, <1>3
<1>6. \A i \in 1..(m + 1) : way[i] = run[i]
  BY <1>1
<1>7. \A i \in 1..(n + 1) : way[m + i] = next[i]
  <2> SUFFICES ASSUME NEW i \in 1..(n + 1) PROVE way[m + i] = next[i]
    OBVIOUS
  <2>1. m + i \in 1..(m + n + 1) /\ (m + i) - m = i
    BY <1>1
  <2>2. CASE i = 1
    BY <1>1, <1>4, <2>2, <2>1
  <2>3. CASE i # 1
    <3>1. ~(m + i <= m + 1)
      BY <1>1, <2>3
    <3> QED
      BY <2>1, <3>1
  <2> QED
    BY <2>2, <2>3
<1> HIDE DEF way
<1>8. ASSUME NEW i \in 1..(m + n + 1)
      PROVE  i \in 1..(m + 1) \/ (i - m \in 1..(n + 1) /\ i = m + (i - m))
  BY <1>1
<1>9. \A i \in 1..(m + n + 1) : way[i].ke <= Len(ts) /\ way[i].me <= Len(mv)
  BY <1>3, <1>6, <1>7, <1>8
<1>10. ASSUME NEW i \in 1..(m + n)
       PROVE  Dispatches(way[i], way[i + 1], s[i], ts, mv)
  <2>1. CASE i \in 1..m
    <3>1. i \in 1..(m + 1) /\ i + 1 \in 1..(m + 1)
      BY <1>1, <2>1
    <3> QED
      BY <1>2, <1>3, <1>6, <2>1, <3>1
  <2>2. CASE i \notin 1..m
    <3> DEFINE j == i - m
    <3>1. j \in 1..n /\ i = m + j /\ i + 1 = m + (j + 1) /\ j \in 1..(n + 1) /\ j + 1 \in 1..(n + 1)
          /\ i \in (m + 1)..(m + n)
      BY <1>1, <2>2
    <3>2. s[i] = p[j]
      BY <1>2, <3>1
    <3> HIDE DEF j
    <3>3. way[i] = next[j] /\ way[i + 1] = next[j + 1]
      BY <1>7, <3>1
    <3> QED
      BY <1>3, <3>1, <3>2, <3>3
  <2> QED
    BY <2>1, <2>2
<1>11. Goes(s, way, ts, mv)
  BY <1>1, <1>5, <1>9, <1>10 DEF Goes
<1>12. way[1] = run[1] /\ way[Len(s) + 1] = next[n + 1]
  <2>1. 1 \in 1..(m + 1) /\ n + 1 \in 1..(n + 1) /\ Len(s) + 1 = m + (n + 1)
    BY <1>1
  <2> QED
    BY <1>6, <1>7, <2>1
<1> QED
  BY <1>11, <1>12 DEF s, n

LEMMA MessagesTyped ==
  ASSUME NEW type \in {"key", "mouse"}, NEW bs \in Seq(Octet)
  PROVE  /\ Messages(type, bs) \in Seq(Message) /\ Len(Messages(type, bs)) = Len(bs)
         /\ \A i \in 1..Len(bs) : Messages(type, bs)[i] = [type |-> type, data |-> bs[i], ends |-> i = Len(bs)]
<1>1. Len(bs) \in Nat /\ \A i \in 1..Len(bs) : bs[i] \in Octet
  BY LenProperties, ElementOfSeq
<1>2. Messages(type, bs) = [i \in 1..Len(bs) |-> [type |-> type, data |-> bs[i], ends |-> i = Len(bs)]]
  BY DEF Messages
<1>3. \A i \in 1..Len(bs) : [type |-> type, data |-> bs[i], ends |-> i = Len(bs)] \in Message
  BY <1>1 DEF Message
<1>4. Messages(type, bs) \in [1..Len(bs) -> Message]
  BY <1>2, <1>3
<1> QED
  BY <1>1, <1>2, <1>4, IsASeq

\* From a settled state the messages of a key lead to a settled state.
LEMMA KeyBlock ==
  ASSUME NEW x \in Decoders, NEW ts \in Seq(Evt), NEW mv \in Seq(Movement), Settled(x, ts, mv),
         NEW key \in Keys, NEW down \in BOOLEAN
  PROVE  \E run : LET q == Messages("key", Scancode(key, down))
                      t == ts \o News(key, down)
                  IN  Goes(q, run, t, mv) /\ run[1] = x /\ Settled(run[Len(q) + 1], t, mv)
<1> DEFINE bs == Scancode(key, down)
           news == News(key, down)
           q == Messages("key", bs)
           t == ts \o news
           n == Len(bs)
           e == Len(ts)
<1>1. bs \in Seq(Octet) /\ n \in 1..6 /\ news \in Seq(Evt)
  BY ScancodeTyped, NewsTyped
<1>2. /\ q \in Seq(Message) /\ Len(q) = n
      /\ \A i \in 1..n : q[i] = [type |-> "key", data |-> bs[i], ends |-> i = n]
  BY <1>1, MessagesTyped
<1>3. x.kb \in Keyboard /\ x.kb.state = "START" /\ x.ms = <<>> /\ x.ms \in Begun /\ x.ke = e /\ x.me = Len(mv)
  BY DEF Settled, Decoders
<1>4. PICK path, c : path[1] = x.kb /\ IsRun(bs, news, path, c)
  BY <1>3, KeyRun
<1>5. /\ path \in [1..(n + 1) -> Keyboard] /\ c \in [1..(n + 1) -> 0..Len(news)]
      /\ c[1] = 0 /\ c[n + 1] = Len(news) /\ path[n + 1].state = "START"
      /\ \A i \in 1..n : KeyStep(path[i], path[i + 1], c[i], c[i + 1], bs[i], news)
  BY <1>4 DEF IsRun
<1>6. /\ e \in Nat /\ Len(news) \in Nat /\ Len(t) = e + Len(news) /\ Len(mv) \in Nat
      /\ \A i \in 1..Len(news) : t[e + i] = news[i]
  <2>1. e \in Nat /\ Len(news) \in Nat /\ Len(t) = e + Len(news) /\ Len(mv) \in Nat
    BY <1>1, ConcatProperties, LenProperties
  <2>2. \A i \in (e + 1)..(e + Len(news)) : t[i] = news[i - e]
    BY <1>1, ConcatProperties
  <2> QED
    BY <2>1, <2>2
<1> DEFINE run == [i \in 1..(n + 1) |-> [kb |-> path[i], ms |-> x.ms, ke |-> e + c[i], me |-> x.me]]
<1> HIDE DEF bs, news, q, t, n, e
<1>7. \A i \in 1..(n + 1) : c[i] \in Nat /\ c[i] <= Len(news) /\ e + c[i] \in Nat /\ e + c[i] <= Len(t)
  <2> SUFFICES ASSUME NEW i \in 1..(n + 1)
               PROVE  c[i] \in Nat /\ c[i] <= Len(news) /\ e + c[i] \in Nat /\ e + c[i] <= Len(t)
    OBVIOUS
  <2> DEFINE d == c[i]
  <2>1. d \in 0..Len(news)
    BY <1>5
  <2> HIDE DEF d
  <2>2. d \in Nat /\ d <= Len(news) /\ e + d \in Nat /\ e + d <= Len(t)
    BY <1>6, <2>1
  <2> QED
    BY <2>2 DEF d
<1>8. \A i \in 1..(n + 1) :
        /\ run[i].kb = path[i] /\ run[i].ms = x.ms /\ run[i].ke = e + c[i] /\ run[i].me = x.me
        /\ run[i] \in Decoders
  BY <1>3, <1>5, <1>6, <1>7 DEF Decoders
<1>9. run \in [1..(n + 1) -> Decoders]
  BY <1>8
<1>10. run[1] = x
  <2>1. run[1] = [kb |-> path[1], ms |-> x.ms, ke |-> e + c[1], me |-> x.me]
    BY <1>1
  <2>2. e + c[1] = x.ke
    BY <1>3, <1>5, <1>6
  <2>3. x = [kb |-> x.kb, ms |-> x.ms, ke |-> x.ke, me |-> x.me]
    BY DEF Decoders
  <2> QED
    BY <1>4, <2>1, <2>2, <2>3
<1> HIDE DEF run
<1>11. ASSUME NEW i \in 1..n
       PROVE  Dispatches(run[i], run[i + 1], q[i], t, mv)
  <2>1. i \in 1..(n + 1) /\ i + 1 \in 1..(n + 1)
    BY <1>1
  <2>2. q[i].type = "key" /\ q[i].data = bs[i]
    BY <1>2
  <2>3. KeyStep(path[i], path[i + 1], c[i], c[i + 1], bs[i], news)
    BY <1>5
  <2> DEFINE ci == c[i]
             cj == c[i + 1]
             ei == e + ci
             ej == e + cj
  <2>4. ci \in Nat /\ cj \in Nat /\ cj <= Len(news) /\ ej <= Len(t)
    BY <1>7, <2>1
  <2>5. KeyStep(path[i], path[i + 1], ci, cj, bs[i], news)
    BY <2>3
  <2> HIDE DEF ci, cj
  <2>6. cj = ci + 1 => cj \in 1..Len(news) /\ ej = ei + 1 /\ t[ej] = news[cj]
    BY <1>6, <2>4
  <2>7. cj = ci => ej = ei
    OBVIOUS
  <2> HIDE DEF ei, ej
  <2>8. KeyStep(path[i], path[i + 1], ei, ej, bs[i], t)
    BY <2>4, <2>5, <2>6, <2>7 DEF KeyStep
  <2>9. run[i].ke = ei /\ run[i + 1].ke = ej
    BY <1>8, <2>1 DEF ei, ej, ci, cj
  <2>10. /\ run[i].kb = path[i] /\ run[i + 1].kb = path[i + 1]
         /\ run[i + 1].ms = run[i].ms /\ run[i + 1].me = run[i].me
    BY <1>8, <2>1
  <2> QED
    BY <2>2, <2>8, <2>9, <2>10 DEF Dispatches
<1>12. \A i \in 1..(n + 1) : run[i].ke <= Len(t) /\ run[i].me <= Len(mv)
  BY <1>3, <1>6, <1>7, <1>8
<1>13. Goes(q, run, t, mv)
  BY <1>2, <1>9, <1>11, <1>12 DEF Goes
<1>14. Settled(run[n + 1], t, mv)
  <2>1. n + 1 \in 1..(n + 1)
    BY <1>1
  <2> QED
    BY <1>3, <1>5, <1>6, <1>8, <2>1 DEF Settled
<1> QED
  BY <1>2, <1>10, <1>13, <1>14 DEF q, t, bs, news

LEMMA AppendTuples ==
  ASSUME NEW a \in Octet, NEW b \in Octet, NEW c \in Octet
  PROVE  /\ Append(<<>>, a) = <<a>> /\ Append(<<a>>, b) = <<a, b>>
         /\ Append(<<a, b>>, c) = <<a, b, c>>
<1>1. Append(<<>>, a) = <<a>>
  OBVIOUS
<1>2. Append(<<a>>, b) = <<a, b>>
  <2>1. <<a>> \in Seq(Octet) /\ Len(<<a>>) = 1 /\ <<a, b>> \in Seq(Octet) /\ Len(<<a, b>>) = 2
    OBVIOUS
  <2>2. Append(<<a>>, b) \in Seq(Octet) /\ Len(Append(<<a>>, b)) = 2
    BY <2>1, AppendProperties
  <2>3. \A i \in 1..2 : Append(<<a>>, b)[i] = <<a, b>>[i]
    <3>1. (\A i \in 1..1 : Append(<<a>>, b)[i] = <<a>>[i]) /\ Append(<<a>>, b)[2] = b
      BY <2>1, AppendProperties
    <3>2. \A i \in 1..2 : i \in 1..1 \/ i = 2
      OBVIOUS
    <3> QED
      BY <3>1, <3>2
  <2> QED
    BY <2>1, <2>2, <2>3, SeqEqual
<1>3. Append(<<a, b>>, c) = <<a, b, c>>
  <2>1. <<a, b>> \in Seq(Octet) /\ Len(<<a, b>>) = 2 /\ <<a, b, c>> \in Seq(Octet) /\ Len(<<a, b, c>>) = 3
    OBVIOUS
  <2>2. Append(<<a, b>>, c) \in Seq(Octet) /\ Len(Append(<<a, b>>, c)) = 3
    BY <2>1, AppendProperties
  <2>3. \A i \in 1..3 : Append(<<a, b>>, c)[i] = <<a, b, c>>[i]
    <3>1. (\A i \in 1..2 : Append(<<a, b>>, c)[i] = <<a, b>>[i]) /\ Append(<<a, b>>, c)[3] = c
      BY <2>1, AppendProperties
    <3>2. \A i \in 1..3 : i \in 1..2 \/ i = 3
      OBVIOUS
    <3> QED
      BY <3>1, <3>2
  <2> QED
    BY <2>1, <2>2, <2>3, SeqEqual
<1> QED
  BY <1>1, <1>2, <1>3

\* So do those of a packet.
LEMMA MouseBlock ==
  ASSUME NEW x \in Decoders, NEW ts \in Seq(Evt), NEW mv \in Seq(Movement), Settled(x, ts, mv),
         NEW m \in Movement
  PROVE  \E run : LET q == Messages("mouse", Packet(m))
                      t == mv \o <<m>>
                  IN  Goes(q, run, ts, t) /\ run[1] = x /\ Settled(run[Len(q) + 1], ts, t)
<1> DEFINE bs == Packet(m)
           q == Messages("mouse", bs)
           t == mv \o <<m>>
           c == Len(mv)
           b1 == bs[1]
           b2 == bs[2]
           b3 == bs[3]
           x2 == [kb |-> x.kb, ms |-> <<b1>>, ke |-> x.ke, me |-> c]
           x3 == [kb |-> x.kb, ms |-> <<b1, b2>>, ke |-> x.ke, me |-> c]
           x4 == [kb |-> x.kb, ms |-> <<>>, ke |-> x.ke, me |-> c + 1]
           run == [i \in 1..4 |-> IF i = 1 THEN x ELSE IF i = 2 THEN x2 ELSE IF i = 3 THEN x3 ELSE x4]
<1>1. bs \in Seq(Octet) /\ Len(bs) = 3
  BY PacketFlags
<1> HIDE DEF bs
<1>2. b1 \in Octet /\ b2 \in Octet /\ b3 \in Octet
  <2>1. 1 \in 1..Len(bs) /\ 2 \in 1..Len(bs) /\ 3 \in 1..Len(bs)
    BY <1>1
  <2> QED
    BY <1>1, <2>1, ElementOfSeq
<1>3. bs = <<b1, b2, b3>>
  <2>1. <<b1, b2, b3>> \in Seq(Octet) /\ Len(<<b1, b2, b3>>) = 3
    BY <1>2
  <2>2. \A i \in 1..3 : bs[i] = <<b1, b2, b3>>[i]
    OBVIOUS
  <2> QED
    BY <1>1, <2>1, <2>2, SeqEqual
<1>4. /\ q \in Seq(Message) /\ Len(q) = 3
      /\ \A i \in 1..3 : q[i].type = "mouse" /\ q[i].data = bs[i]
  <2>1. q \in Seq(Message) /\ Len(q) = 3
    BY <1>1, MessagesTyped
  <2>2. \A i \in 1..Len(bs) : q[i] = [type |-> "mouse", data |-> bs[i], ends |-> i = Len(bs)]
    BY <1>1, MessagesTyped
  <2> QED
    BY <1>1, <2>1, <2>2
<1>5. x.kb \in Keyboard /\ x.ms = <<>> /\ x.ke \in Nat /\ x.ke = Len(ts) /\ x.me = c /\ x.kb.state = "START"
  BY DEF Settled, Decoders
<1>6. c \in Nat /\ Len(t) = c + 1 /\ t[c + 1] = m
  <2>1. <<m>> \in Seq(Movement) /\ Len(<<m>>) = 1 /\ <<m>>[1] = m
    OBVIOUS
  <2>2. c \in Nat /\ Len(t) = c + 1
    BY <2>1, ConcatProperties, LenProperties
  <2>3. t[c + 1] = <<m>>[(c + 1) - c]
    BY <2>1, <2>2, ConcatProperties
  <2> QED
    BY <2>1, <2>2, <2>3
<1>7. MouseEvent(bs) = m
  BY PacketMeans DEF bs
<1> HIDE DEF q, t, c, b1, b2, b3
<1>8. /\ <<>> \in Begun /\ <<b1>> \in Begun /\ <<b1, b2>> \in Begun
      /\ Len(<<>>) = 0 /\ Len(<<b1>>) = 1 /\ Len(<<b1, b2>>) = 2
  BY <1>2 DEF Begun
<1>9. x2 \in Decoders /\ x3 \in Decoders /\ x4 \in Decoders
  BY <1>5, <1>6, <1>8 DEF Decoders
<1>10. /\ PutMouse(<<>>, b1) = <<b1>> /\ PutMouse(<<b1>>, b2) = <<b1, b2>>
       /\ PutMouse(<<b1, b2>>, b3) = <<>>
       /\ Append(<<b1, b2>>, b3) = bs
  <2>1. Append(<<>>, b1) = <<b1>> /\ Append(<<b1>>, b2) = <<b1, b2>>
    BY <1>2, AppendTuples
  <2>2. Append(<<b1, b2>>, b3) = <<b1, b2, b3>>
    BY <1>2, AppendTuples
  <2>3. PutMouse(<<>>, b1) = <<b1>> /\ PutMouse(<<b1>>, b2) = <<b1, b2>>
    BY <1>8, <2>1 DEF PutMouse
  <2>4. PutMouse(<<b1, b2>>, b3) = <<>>
    BY <1>8 DEF PutMouse
  <2> QED
    BY <1>3, <2>2, <2>3, <2>4
<1>11. MouseStep(<<>>, <<b1>>, c, c, b1, t)
  BY <1>8, <1>10 DEF MouseStep
<1>12. MouseStep(<<b1>>, <<b1, b2>>, c, c, b2, t)
  BY <1>8, <1>10 DEF MouseStep
<1>13. MouseStep(<<b1, b2>>, <<>>, c, c + 1, b3, t)
  <2>1. Len(<<b1, b2>>) = 2 /\ PutMouse(<<b1, b2>>, b3) = <<>>
    BY <1>8, <1>10
  <2>2. t[c + 1] = MouseEvent(Append(<<b1, b2>>, b3))
    BY <1>6, <1>7, <1>10
  <2>3. c + 1 <= Len(t)
    BY <1>6
  <2> HIDE DEF x2, x3, x4, run
  <2> QED
    BY <2>1, <2>2, <2>3 DEF MouseStep
<1>14. q[1].type = "mouse" /\ q[2].type = "mouse" /\ q[3].type = "mouse"
       /\ q[1].data = b1 /\ q[2].data = b2 /\ q[3].data = b3
  BY <1>4 DEF b1, b2, b3
<1>15. Dispatches(x, x2, q[1], ts, t)
  BY <1>5, <1>11, <1>14 DEF Dispatches
<1>16. Dispatches(x2, x3, q[2], ts, t)
  BY <1>12, <1>14 DEF Dispatches
<1>17. Dispatches(x3, x4, q[3], ts, t)
  BY <1>13, <1>14 DEF Dispatches
<1>18. /\ x.ke <= Len(ts) /\ x.me <= Len(t) /\ x2.ke <= Len(ts) /\ x2.me <= Len(t)
       /\ x3.ke <= Len(ts) /\ x3.me <= Len(t) /\ x4.ke <= Len(ts) /\ x4.me <= Len(t)
  BY <1>5, <1>6
<1>19. Settled(x4, ts, t)
  BY <1>5, <1>6 DEF Settled
<1> HIDE DEF x2, x3, x4
<1>20. run \in [1..4 -> Decoders] /\ run[1] = x /\ run[2] = x2 /\ run[3] = x3 /\ run[4] = x4
  BY <1>9
<1> HIDE DEF run
<1>21. (\A i \in 1..4 : i = 1 \/ i = 2 \/ i = 3 \/ i = 4) /\ (\A i \in 1..3 : i = 1 \/ i = 2 \/ i = 3)
  OBVIOUS
<1>22. \A i \in 1..4 : run[i].ke <= Len(ts) /\ run[i].me <= Len(t)
  BY <1>18, <1>20, <1>21
<1>23. \A i \in 1..3 : Dispatches(run[i], run[i + 1], q[i], ts, t)
  BY <1>15, <1>16, <1>17, <1>20, <1>21
<1>24. Goes(q, run, ts, t)
  BY <1>4, <1>20, <1>22, <1>23 DEF Goes
<1>25. Goes(q, run, ts, t) /\ run[1] = x /\ Settled(run[Len(q) + 1], ts, t)
  <2>1. Len(q) + 1 = 4
    BY <1>4
  <2> QED
    BY <2>1, <1>19, <1>20, <1>24
<1> QED
  BY <1>25 DEF q, t, bs

-----------------------------------------------------------------------------
(* Types *)

Output == [raw : BOOLEAN, keycode : Nat, shifted : BOOLEAN]

Types ==
  /\ kb \in Keyboard /\ ms \in Begun /\ queue \in Seq(Message)
  /\ lost \in [key : Nat, mouse : Nat] /\ lost.key + lost.mouse <= MaxLost
  /\ acts \in 0..MaxActs /\ held \subseteq Keys /\ whole \in 0..2 /\ torn \in BOOLEAN
  /\ typed \in Seq(Evt) /\ events \in Seq(Evt \X Output)
  /\ moved \in Seq(Movement) /\ moves \in Seq(Movement)

LEMMA OutputTyped ==
  ASSUME NEW k \in Keyboard, NEW code \in Nat, NEW down \in BOOLEAN
  PROVE  ProcessKeyevent(k, code, down) \in Output
<1>1. Raw(code) \in Output /\ Char(code, FALSE) \in Output
  BY DEF Raw, Char, Output
<1>2. \A c \in BOOLEAN : Char(code, c) \in Output
  BY DEF Char, Output
<1>3. NumpadRaw(code) \in Nat
  BY DEF NumpadRaw
<1>4. Raw(NumpadRaw(code)) \in Output
  BY <1>3 DEF Raw, Output
<1>5. ASSUME NEW control, NEW shift \in BOOLEAN, NEW caps \in BOOLEAN, NEW num
      PROVE  Translate(code, control, shift, caps, num) \in Output
  <2>1. Char(code, shift) \in Output /\ Char(code, shift # caps) \in Output
    <3>1. PICK c \in BOOLEAN : c = (shift # caps)
      OBVIOUS
    <3> QED
      BY <1>2, <3>1
  <2> QED
    BY <1>1, <1>4, <2>1, Zenon DEF Translate
<1>6. PICK shift \in BOOLEAN : shift = (k.lshift \/ k.rshift)
  OBVIOUS
<1>7. k.caps \in BOOLEAN
  BY DEF Keyboard
<1>8. Translate(code, k.lctrl \/ k.rctrl \/ k.lalt \/ k.ralt, shift, k.caps,
                KeyFlags(k, code, down).num) \in Output
  BY <1>5, <1>7, Zenon
<1> QED
  BY <1>1, <1>6, <1>8, Zenon DEF ProcessKeyevent

LEMMA MouseEventTyped ==
  ASSUME NEW m \in Begun, Len(m) = 2, NEW b \in Octet
  PROVE  MouseEvent(Append(m, b)) \in Movement
<1> DEFINE p == Append(m, b)
           a == Bit(p[1], 1)
           dx == IF Bit(p[1], 16) THEN p[2] - 256 ELSE p[2]
           dy == IF Bit(p[1], 32) THEN p[3] - 256 ELSE p[3]
<1>1. p \in Seq(Octet) /\ Len(p) = 3
  <2>1. m \in Seq(Octet)
    BY DEF Begun
  <2>2. Append(m, b) \in Seq(Octet) /\ Len(Append(m, b)) = Len(m) + 1
    BY <2>1, AppendProperties
  <2> QED
    BY <2>2
<1> HIDE DEF p
<1>2. 2 \in 1..Len(p) /\ 3 \in 1..Len(p)
  BY <1>1
<1>3. p[2] \in Octet /\ p[3] \in Octet
  BY <1>1, <1>2, ElementOfSeq
<1>4. dx \in Displacement /\ dy \in Displacement
  BY <1>3 DEF Octet, Displacement
<1>5. a \in BOOLEAN
  BY DEF Bit
<1>6. MouseEvent(p) = [left |-> a, dx |-> dx, dy |-> dy]
  BY DEF MouseEvent
<1> HIDE DEF a, dx, dy
<1>7. MouseEvent(p) \in Movement
  BY <1>4, <1>5, <1>6 DEF Movement
<1> QED
  BY <1>7 DEF p

\* What OnKeyboard does, in terms of After.
LEMMA OnKeyboardDef ==
  ASSUME OnKeyboard, queue \in Seq(Message), kb \in Keyboard
  PROVE  LET b == Head(queue).data
             e == PutKey(kb, b).evt
         IN  /\ kb' = After(kb, b) /\ b \in Octet
             /\ e # <<>> => e \in Evt
             /\ events' = IF e # <<>> /\ NoneLost
                            THEN Append(events, <<e, ProcessKeyevent(PutKey(kb, b).kb, e[1], e[2])>>)
                            ELSE events
<1> DEFINE b == Head(queue).data
           r == PutKey(kb, b)
<1>1. b \in Octet
  <2>1. Head(queue) \in Message
    BY HeadTailProperties DEF OnKeyboard
  <2> QED
    BY <2>1 DEF Message
<1>2. GoodStep(r, kb, b)
  BY <1>1, PutKeyStep
<1>3. \/ r.evt = <<>> /\ kb' = r.kb /\ events' = events
      \/ /\ r.evt # <<>> /\ kb' = KeyFlags(r.kb, r.evt[1], r.evt[2])
         /\ events' = IF NoneLost
                        THEN Append(events, <<r.evt, ProcessKeyevent(r.kb, r.evt[1], r.evt[2])>>)
                        ELSE events
  BY DEF OnKeyboard
<1>4. After(kb, b) = IF r.evt = <<>> THEN r.kb ELSE KeyFlags(r.kb, r.evt[1], r.evt[2])
  BY DEF After
<1>5. r.evt # <<>> => r.evt \in Evt
  BY <1>2 DEF GoodStep
<1> HIDE DEF r, b
<1>6. kb' = After(kb, b)
  BY <1>3, <1>4
<1>7. events' = IF r.evt # <<>> /\ NoneLost
                  THEN Append(events, <<r.evt, ProcessKeyevent(r.kb, r.evt[1], r.evt[2])>>)
                  ELSE events
  BY <1>3
<1> QED
  BY <1>1, <1>5, <1>6, <1>7 DEF r, b

\* What Stroke adds to the strokes.
LEMMA StrokeDef ==
  ASSUME NEW key \in Keys, NEW down \in BOOLEAN, Stroke(key, down), typed \in Seq(Evt)
  PROVE  typed' = IF NoneLost THEN typed \o News(key, down) ELSE typed
BY DEF Stroke, News


LEMMA TypesInit == Init => Types
<1> SUFFICES ASSUME Init PROVE Types
  OBVIOUS
<1>1. kb \in Keyboard
  BY DEF Init, Keyboard, States, Octet
<1>2. ms \in Begun
  BY DEF Init, Begun
<1>3. queue \in Seq(Message) /\ typed \in Seq(Evt) /\ events \in Seq(Evt \X Output)
      /\ moved \in Seq(Movement) /\ moves \in Seq(Movement)
  BY DEF Init
<1>4. lost \in [key : Nat, mouse : Nat] /\ lost.key + lost.mouse <= MaxLost
  BY BoundsAssumption DEF Init
<1>5. acts \in 0..MaxActs /\ held \subseteq Keys /\ whole \in 0..2 /\ torn \in BOOLEAN
  <2>1. acts \in 0..MaxActs /\ held \subseteq Keys /\ whole \in 0..2
    BY BoundsAssumption DEF Init
  <2>2. torn \in BOOLEAN
    BY Zenon DEF Init
  <2> QED
    BY <2>1, <2>2
<1> QED
  BY <1>1, <1>2, <1>3, <1>4, <1>5 DEF Types

LEMMA TypesStep == Types /\ [Next]_vars => Types'
<1> SUFFICES ASSUME Types, [Next]_vars PROVE Types'
  OBVIOUS
<1>1. /\ kb \in Keyboard /\ ms \in Begun /\ queue \in Seq(Message)
      /\ typed \in Seq(Evt) /\ events \in Seq(Evt \X Output)
      /\ moved \in Seq(Movement) /\ moves \in Seq(Movement)
  BY DEF Types
<1>2. ASSUME NEW key \in Keys, NEW down \in BOOLEAN, Stroke(key, down)
      PROVE  Types'
  <2>1. Messages("key", Scancode(key, down)) \in Seq(Message)
    BY ScancodeTyped, MessagesTyped
  <2>2. queue' \in Seq(Message)
    BY <1>1, <1>2, <2>1, ConcatProperties DEF Stroke
  <2>3. typed' \in Seq(Evt)
    <3>1. News(key, down) \in Seq(Evt)
      BY NewsTyped
    <3>2. typed \o News(key, down) \in Seq(Evt)
      BY <1>1, <3>1, ConcatProperties
    <3> QED
      BY <1>1, <1>2, <3>2, StrokeDef
  <2>4. acts' \in 0..MaxActs
    BY <1>2, BoundsAssumption DEF Stroke, Types
  <2>5. held' \subseteq Keys
    BY <1>2 DEF Stroke, Types
  <2> QED
    BY <1>2, <2>2, <2>3, <2>4, <2>5 DEF Stroke, Types
<1>3. ASSUME NEW m \in Moves, Move(m)
      PROVE  Types'
  <2>1. m \in Movement
    BY MovesAssumption DEF Movement, Displacement
  <2>2. Messages("mouse", Packet(m)) \in Seq(Message)
    BY <2>1, PacketFlags, MessagesTyped
  <2>3. queue' \in Seq(Message)
    BY <1>1, <1>3, <2>2, ConcatProperties DEF Move
  <2>4. moved' \in Seq(Movement)
    BY <1>1, <1>3, <2>1, AppendProperties DEF Move
  <2>5. acts' \in 0..MaxActs
    BY <1>3, BoundsAssumption DEF Move, Types
  <2> QED
    BY <1>3, <2>3, <2>4, <2>5 DEF Move, Types
<1>4. CASE Lose
  <2>1. queue # <<>> /\ queue' = Tail(queue)
    BY <1>4 DEF Lose
  <2>2. queue' \in Seq(Message) /\ Head(queue) \in Message
    BY <1>1, <2>1, HeadTailProperties
  <2>3. Head(queue).type \in {"key", "mouse"} /\ Head(queue).ends \in BOOLEAN
    BY <2>2 DEF Message
  <2>4. lost' \in [key : Nat, mouse : Nat] /\ lost'.key + lost'.mouse <= MaxLost
    <3>1. lost \in [key : Nat, mouse : Nat] /\ lost.key + lost.mouse < MaxLost
      BY <1>4 DEF Lose, Types
    <3>2. CASE Head(queue).type = "key"
      <4>1. lost' = [lost EXCEPT !.key = lost.key + 1]
        BY <1>4, <3>2 DEF Lose
      <4> QED
        BY <3>1, <4>1, BoundsAssumption
    <3>3. CASE Head(queue).type = "mouse"
      <4>1. lost' = [lost EXCEPT !.mouse = lost.mouse + 1]
        BY <1>4, <3>3 DEF Lose
      <4> QED
        BY <3>1, <4>1, BoundsAssumption
    <3> QED
      BY <2>3, <3>2, <3>3
  <2>5. whole' \in 0..2 /\ torn' \in BOOLEAN
    <3>1. whole' \in 0..2
      BY <1>4, <2>3 DEF Lose, Types
    <3>2. torn' = (~Head(queue).ends) \/ torn' = torn
      BY <1>4, Zenon DEF Lose
    <3>3. torn \in BOOLEAN /\ (~Head(queue).ends) \in BOOLEAN
      BY Zenon DEF Types
    <3>4. torn' \in BOOLEAN
      BY <3>2, <3>3, Zenon
    <3> QED
      BY <3>1, <3>4
  <2>6. typed' \in Seq(Evt) /\ events' \in Seq(Evt \X Output) /\ moved' \in Seq(Movement)
        /\ moves' \in Seq(Movement)
    BY <1>4 DEF Lose
  <2> QED
    BY <1>4, <2>2, <2>4, <2>5, <2>6 DEF Lose, Types
<1>5. CASE OnKeyboard
  <2> DEFINE b == Head(queue).data
             e == PutKey(kb, b).evt
             k == PutKey(kb, b).kb
             o == ProcessKeyevent(k, e[1], e[2])
  <2>1. /\ kb' = After(kb, b) /\ b \in Octet
        /\ e # <<>> => e \in Evt
        /\ events' = IF e # <<>> /\ NoneLost THEN Append(events, <<e, o>>) ELSE events
    BY <1>1, <1>5, OnKeyboardDef
  <2>2. kb' \in Keyboard
    BY <1>1, <2>1, AfterTyped
  <2>3. k \in Keyboard
    BY <1>1, <2>1, PutKeyStep DEF GoodStep
  <2>4. e # <<>> => o \in Output
    <3> SUFFICES ASSUME e # <<>> PROVE o \in Output
      OBVIOUS
    <3> DEFINE e1 == e[1]
               e2 == e[2]
    <3>1. e1 \in Nat /\ e2 \in BOOLEAN
      BY <2>1 DEF Evt
    <3> HIDE DEF e1, e2, k
    <3>2. ProcessKeyevent(k, e1, e2) \in Output
      BY <2>3, <3>1, OutputTyped
    <3> QED
      BY <3>2 DEF e1, e2
  <2>5. events' \in Seq(Evt \X Output)
    <3> HIDE DEF b, e, k, o
    <3>1. e # <<>> => <<e, o>> \in Evt \X Output
      BY <2>1, <2>4
    <3> QED
      BY <1>1, <2>1, <3>1, AppendProperties
  <2>6. queue' \in Seq(Message)
    BY <1>1, <1>5, HeadTailProperties DEF OnKeyboard
  <2>7. whole' \in 0..2 /\ torn' \in BOOLEAN
    <3>1. whole' \in 0..2
      BY <1>5 DEF OnKeyboard, Types
    <3>2. torn' = FALSE \/ torn' = torn
      BY <1>5, Zenon DEF OnKeyboard
    <3>3. torn \in BOOLEAN
      BY Zenon DEF Types
    <3>4. torn' \in BOOLEAN
      BY <3>2, <3>3, Zenon
    <3> QED
      BY <3>1, <3>4
  <2>8. UNCHANGED <<ms, acts, lost, held, typed, moved, moves>>
    BY <1>5 DEF OnKeyboard
  <2> QED
    BY <2>2, <2>5, <2>6, <2>7, <2>8 DEF Types
<1>6. CASE OnMouse
  <2> DEFINE b == Head(queue).data
  <2>1. Head(queue) \in Message /\ queue' \in Seq(Message)
    BY <1>1, <1>6, HeadTailProperties DEF OnMouse
  <2>2. b \in Octet
    BY <2>1 DEF Message
  <2>3. ms' \in Begun
    BY <1>1, <1>6, <2>2, PutMouseTyped DEF OnMouse
  <2>4. moves' \in Seq(Movement)
    BY <1>1, <1>6, <2>2, MouseEventTyped, AppendProperties DEF OnMouse
  <2> QED
    BY <1>6, <2>1, <2>3, <2>4 DEF OnMouse, Types
<1>7. CASE UNCHANGED vars
  BY <1>7 DEF vars, Types
<1> QED
  BY <1>2, <1>3, <1>4, <1>5, <1>6, <1>7 DEF Next

LEMMA TypeCorrect == Spec => []Types
BY TypesInit, TypesStep, PTL DEF Spec

\* The type invariant of the specification follows.
LEMMA TypesImply == Types => TypeOK
<1> SUFFICES ASSUME Types PROVE TypeOK
  OBVIOUS
<1>1. kb.state \in States /\ kb.data \in 0..255
  BY DEF Types, Keyboard, Octet
<1>2. \A f \in DOMAIN kb \ {"state", "data"} : kb[f] \in BOOLEAN
  BY DEF Types, Keyboard
<1>3. ms \in Seq(Octet) /\ Len(ms) <= 2
  BY DEF Types, Begun
<1>4. \A i \in 1..Len(ms) : ms[i] \in 0..255
  BY <1>3, ElementOfSeq DEF Octet
<1>5. lost.key + lost.mouse \in 0..MaxLost
  BY DEF Types
<1> QED
  BY <1>1, <1>2, <1>3, <1>4, <1>5 DEF TypeOK, Types

-----------------------------------------------------------------------------
(* Until a message is dropped the decoders report what was done *)

Now == [kb |-> kb, ms |-> ms, ke |-> Len(events), me |-> Len(moves)]

\* The messages that wait lead the decoders from what they have reported to
\* what was done; the messages before gave the events and movements reported.
OnTheWay(run) ==
  Goes(queue, run, typed, moved) /\ run[1] = Now /\ Settled(run[Len(queue) + 1], typed, moved)

Reported ==
  /\ \A i \in 1..Len(events) : events[i][1] = typed[i]
  /\ \A i \in 1..Len(moves) : moves[i] = moved[i]

Way ==
  /\ NoneLost => (\E run : OnTheWay(run)) /\ Reported
  /\ ~NoneLost => typed = <<>> /\ events = <<>> /\ moved = <<>> /\ moves = <<>>

LEMMA NowTyped == Types => Now \in Decoders
<1> SUFFICES ASSUME Types PROVE Now \in Decoders
  OBVIOUS
<1>1. Len(events) \in Nat /\ Len(moves) \in Nat
  BY LenProperties DEF Types
<1> QED
  BY <1>1 DEF Now, Decoders, Types

\* No more is reported than was done.
LEMMA ReportedLess ==
  ASSUME Types, NEW run, OnTheWay(run)
  PROVE  Len(events) <= Len(typed) /\ Len(moves) <= Len(moved)
<1>1. 1 \in 1..(Len(queue) + 1)
  BY LenProperties DEF Types
<1>2. run[1].ke <= Len(typed) /\ run[1].me <= Len(moved)
  BY <1>1 DEF OnTheWay, Goes
<1> QED
  BY <1>2 DEF OnTheWay, Now

LEMMA WayInit == Init => Way
<1> SUFFICES ASSUME Init PROVE Way
  OBVIOUS
<1> DEFINE run == [i \in 1..1 |-> Now]
<1>1. Types /\ Now \in Decoders
  BY TypesInit, NowTyped
<1>2. queue = <<>> /\ typed = <<>> /\ moved = <<>> /\ events = <<>> /\ moves = <<>> /\ ms = <<>>
      /\ kb.state = "START"
  BY DEF Init
<1>3. Len(queue) = 0 /\ Len(typed) = 0 /\ Len(moved) = 0 /\ Len(events) = 0 /\ Len(moves) = 0
  BY <1>2
<1>4. run \in [1..1 -> Decoders] /\ run[1] = Now
  BY <1>1
<1>5. Now.ke = 0 /\ Now.me = 0 /\ Now.kb = kb /\ Now.ms = ms
  BY <1>3 DEF Now
<1> HIDE DEF run
<1>6. Goes(queue, run, typed, moved)
  <2>1. \A i \in 1..1 : i = 1
    OBVIOUS
  <2> QED
    BY <1>3, <1>4, <1>5, <2>1 DEF Goes
<1>7. Settled(run[1], typed, moved)
  BY <1>2, <1>3, <1>4, <1>5 DEF Settled
<1>8. OnTheWay(run)
  BY <1>3, <1>4, <1>6, <1>7 DEF OnTheWay
<1>9. Reported
  BY <1>3 DEF Reported
<1>10. NoneLost
  BY DEF Init, NoneLost
<1> QED
  BY <1>8, <1>9, <1>10 DEF Way

\* What is added when a message block follows.
LEMMA WayBlock ==
  ASSUME Types, NEW run, OnTheWay(run),
         NEW a \in Seq(Evt), NEW b \in Seq(Movement), NEW q \in Seq(Message), NEW next,
         Goes(q, next, typed \o a, moved \o b), next[1] = run[Len(queue) + 1],
         Settled(next[Len(q) + 1], typed \o a, moved \o b)
  PROVE  \E way : /\ Goes(queue \o q, way, typed \o a, moved \o b) /\ way[1] = Now
                  /\ Settled(way[Len(queue \o q) + 1], typed \o a, moved \o b)
<1>1. queue \in Seq(Message) /\ typed \in Seq(Evt) /\ moved \in Seq(Movement)
  BY DEF Types
<1>2. Goes(queue, run, typed, moved) /\ run[1] = Now
  BY DEF OnTheWay
<1>3. Goes(queue, run, typed \o a, moved \o b)
  BY <1>1, <1>2, GoesOn
<1>4. \E way : /\ Goes(queue \o q, way, typed \o a, moved \o b)
               /\ way[1] = run[1] /\ way[Len(queue \o q) + 1] = next[Len(q) + 1]
  BY <1>1, <1>3, GoesConcat
<1> QED
  BY <1>2, <1>4

LEMMA WayStroke ==
  ASSUME Types, Way, NEW key \in Keys, NEW down \in BOOLEAN, Stroke(key, down)
  PROVE  Way'
<1>1. UNCHANGED <<kb, ms, lost, events, moved, moves>>
  BY DEF Stroke
<1>2. /\ queue \in Seq(Message) /\ typed \in Seq(Evt) /\ moved \in Seq(Movement)
      /\ Len(events) \in Nat /\ Len(typed) \in Nat
  BY LenProperties DEF Types
<1>3. typed' = IF NoneLost THEN typed \o News(key, down) ELSE typed
  BY <1>2, StrokeDef
<1>4. NoneLost' <=> NoneLost
  BY <1>1 DEF NoneLost
<1>5. CASE ~NoneLost
  BY <1>1, <1>3, <1>4, <1>5 DEF Way
<1>6. CASE NoneLost
  <2> DEFINE q == Messages("key", Scancode(key, down))
             a == News(key, down)
             t == typed \o a
  <2>1. PICK run : OnTheWay(run)
    BY <1>6 DEF Way
  <2>2. q \in Seq(Message) /\ a \in Seq(Evt)
    BY ScancodeTyped, MessagesTyped, NewsTyped
  <2> DEFINE x == run[Len(queue) + 1]
  <2>3. x \in Decoders /\ Settled(x, typed, moved)
    <3>1. Len(queue) + 1 \in 1..(Len(queue) + 1)
      BY <1>2, LenProperties
    <3> QED
      BY <2>1, <3>1 DEF OnTheWay, Goes
  <2>4. PICK next : Goes(q, next, t, moved) /\ next[1] = x /\ Settled(next[Len(q) + 1], t, moved)
    <3> HIDE DEF x
    <3>1. \E r : LET p == Messages("key", Scancode(key, down))
                     u == typed \o News(key, down)
                 IN  Goes(p, r, u, moved) /\ r[1] = x /\ Settled(r[Len(p) + 1], u, moved)
      BY <1>2, <2>3, KeyBlock
    <3> QED
      BY <3>1
  <2>5. moved = moved \o <<>> /\ <<>> \in Seq(Movement)
    BY <1>2, ConcatEmptySeq
  <2> HIDE DEF q, a
  <2>6. \E way : /\ Goes(queue \o q, way, typed \o a, moved \o <<>>) /\ way[1] = Now
                 /\ Settled(way[Len(queue \o q) + 1], typed \o a, moved \o <<>>)
    BY <2>1, <2>2, <2>4, <2>5, WayBlock
  <2>7. queue' = queue \o q /\ typed' = typed \o a /\ moved' = moved /\ Now' = Now
    BY <1>1, <1>3, <1>6 DEF Stroke, Now, q, a
  <2>8. \E way : OnTheWay(way)'
    BY <2>5, <2>6, <2>7 DEF OnTheWay
  <2>9. Reported'
    <3>1. Len(events) <= Len(typed)
      BY <2>1, ReportedLess
    <3>2. \A i \in 1..Len(typed) : typed'[i] = typed[i]
      BY <1>2, <2>2, <2>7, ConcatProperties
    <3>3. \A i \in 1..Len(events) : i \in 1..Len(typed)
      BY <1>2, <3>1
    <3> QED
      BY <1>1, <1>6, <3>2, <3>3 DEF Way, Reported
  <2> QED
    BY <1>4, <1>6, <2>8, <2>9 DEF Way
<1> QED
  BY <1>5, <1>6

LEMMA WayMove ==
  ASSUME Types, Way, NEW m \in Moves, Move(m)
  PROVE  Way'
<1>1. UNCHANGED <<kb, ms, lost, events, typed, moves>>
  BY DEF Move
<1>2. /\ queue \in Seq(Message) /\ typed \in Seq(Evt) /\ moved \in Seq(Movement)
      /\ Len(moves) \in Nat /\ Len(moved) \in Nat
  BY LenProperties DEF Types
<1>3. m \in Movement
  BY MovesAssumption DEF Movement, Displacement
<1>4. NoneLost' <=> NoneLost
  BY <1>1 DEF NoneLost
<1>5. CASE ~NoneLost
  BY <1>1, <1>4, <1>5 DEF Way, Move
<1>6. CASE NoneLost
  <2> DEFINE q == Messages("mouse", Packet(m))
             b == <<m>>
             t == moved \o b
  <2>1. PICK run : OnTheWay(run)
    BY <1>6 DEF Way
  <2>2. q \in Seq(Message) /\ b \in Seq(Movement)
    BY <1>3, PacketFlags, MessagesTyped
  <2> DEFINE x == run[Len(queue) + 1]
  <2>3. x \in Decoders /\ Settled(x, typed, moved)
    <3>1. Len(queue) + 1 \in 1..(Len(queue) + 1)
      BY <1>2, LenProperties
    <3> QED
      BY <2>1, <3>1 DEF OnTheWay, Goes
  <2>4. PICK next : Goes(q, next, typed, t) /\ next[1] = x /\ Settled(next[Len(q) + 1], typed, t)
    <3> HIDE DEF x
    <3>1. \E r : LET p == Messages("mouse", Packet(m))
                     u == moved \o <<m>>
                 IN  Goes(p, r, typed, u) /\ r[1] = x /\ Settled(r[Len(p) + 1], typed, u)
      BY <1>2, <1>3, <2>3, MouseBlock
    <3> QED
      BY <3>1
  <2>5. typed = typed \o <<>> /\ <<>> \in Seq(Evt)
    BY <1>2, ConcatEmptySeq
  <2>6. moved' = moved \o b
    <3>1. moved' = Append(moved, m)
      BY <1>6 DEF Move
    <3> QED
      BY <1>2, <1>3, <3>1, AppendIsConcat
  <2>7. queue' = queue \o q /\ typed' = typed /\ Now' = Now
    BY <1>1 DEF Move, Now
  <2> HIDE DEF q, b
  <2>8. \E way : /\ Goes(queue \o q, way, typed \o <<>>, moved \o b) /\ way[1] = Now
                 /\ Settled(way[Len(queue \o q) + 1], typed \o <<>>, moved \o b)
    BY <2>1, <2>2, <2>4, <2>5, WayBlock
  <2>9. \E way : OnTheWay(way)'
    BY <2>5, <2>6, <2>7, <2>8 DEF OnTheWay
  <2>10. Reported'
    <3>1. Len(moves) <= Len(moved)
      BY <2>1, ReportedLess
    <3>2. \A i \in 1..Len(moved) : moved'[i] = moved[i]
      BY <1>2, <2>2, <2>6, ConcatProperties
    <3>3. \A i \in 1..Len(moves) : i \in 1..Len(moved)
      BY <1>2, <3>1
    <3> QED
      BY <1>1, <1>6, <3>2, <3>3 DEF Way, Reported
  <2> QED
    BY <1>4, <1>6, <2>9, <2>10 DEF Way
<1> QED
  BY <1>5, <1>6


LEMMA WayKey ==
  ASSUME Types, Way, OnKeyboard
  PROVE  Way'
<1> DEFINE b == Head(queue).data
           e == PutKey(kb, b).evt
           o == ProcessKeyevent(PutKey(kb, b).kb, e[1], e[2])
<1>1. /\ queue \in Seq(Message) /\ kb \in Keyboard /\ events \in Seq(Evt \X Output)
      /\ Len(events) \in Nat /\ Len(moves) \in Nat
  BY LenProperties DEF Types
<1>2. /\ kb' = After(kb, b)
      /\ e # <<>> => e \in Evt
      /\ events' = IF e # <<>> /\ NoneLost THEN Append(events, <<e, o>>) ELSE events
  BY <1>1, OnKeyboardDef
<1>3. /\ queue # <<>> /\ Head(queue).type = "key" /\ queue' = Tail(queue)
      /\ UNCHANGED <<ms, lost, typed, moved, moves>>
  BY DEF OnKeyboard
<1>4. NoneLost' <=> NoneLost
  BY <1>3 DEF NoneLost
<1>5. CASE ~NoneLost
  BY <1>2, <1>3, <1>4, <1>5 DEF Way
<1>6. CASE NoneLost
  <2>1. PICK run : OnTheWay(run)
    BY <1>6 DEF Way
  <2> DEFINE rest == [i \in 1..(Len(Tail(queue)) + 1) |-> run[i + 1]]
             x == run[1]
             y == run[2]
  <2>2. /\ Goes(Tail(queue), rest, typed, moved)
        /\ rest[1] = y /\ rest[Len(Tail(queue)) + 1] = run[Len(queue) + 1]
        /\ Dispatches(x, y, Head(queue), typed, moved) /\ y \in Decoders
    BY <1>1, <1>3, <2>1, GoesTail DEF OnTheWay
  <2>3. x = Now /\ Settled(run[Len(queue) + 1], typed, moved)
    BY <2>1 DEF OnTheWay
  <2> HIDE DEF rest, y
  <2>4. KeyStep(kb, y.kb, Len(events), y.ke, b, typed) /\ y.ms = ms /\ y.me = Len(moves)
    BY <1>3, <2>2, <2>3 DEF Dispatches, Now
  <2>5. Len(events') = y.ke
        /\ (e = <<>> => events' = events)
        /\ (e # <<>> => /\ y.ke = Len(events) + 1 /\ typed[y.ke] = e
                        /\ events'[y.ke] = <<e, o>>
                        /\ \A i \in 1..Len(events) : events'[i] = events[i])
    <3>1. CASE e = <<>>
      BY <1>2, <2>4, <3>1 DEF KeyStep
    <3>2. CASE e # <<>>
      <4> DEFINE z == <<e, o>>
      <4>1. z \in Evt \X Output
        <5>1. PutKey(kb, b).kb \in Keyboard
          <6>1. b \in Octet
            BY <1>1, OnKeyboardDef
          <6> QED
            BY <1>1, <6>1, PutKeyStep DEF GoodStep
        <5> DEFINE k == PutKey(kb, b).kb
                   e1 == e[1]
                   e2 == e[2]
        <5>2. e1 \in Nat /\ e2 \in BOOLEAN
          BY <1>2, <3>2 DEF Evt
        <5>3. k \in Keyboard
          BY <5>1
        <5>4. o = ProcessKeyevent(k, e1, e2)
          OBVIOUS
        <5> HIDE DEF k, e1, e2, o, e
        <5>5. o \in Output
          BY <5>2, <5>3, <5>4, OutputTyped
        <5> QED
          BY <1>2, <3>2, <5>5
      <4>2. events' = Append(events, z)
        BY <1>2, <1>6, <3>2
      <4> HIDE DEF z
      <4>3. /\ Len(events') = Len(events) + 1 /\ events'[Len(events) + 1] = z
            /\ \A i \in 1..Len(events) : events'[i] = events[i]
        BY <1>1, <4>1, <4>2, AppendProperties
      <4>4. y.ke = Len(events) + 1 /\ typed[y.ke] = e
        BY <2>4, <3>2 DEF KeyStep
      <4> QED
        BY <3>2, <4>3, <4>4 DEF z
    <3> QED
      BY <3>1, <3>2
  <2>6. y = [kb |-> y.kb, ms |-> y.ms, ke |-> y.ke, me |-> y.me]
    BY <2>2 DEF Decoders
  <2>7. y.kb = kb'
    BY <1>2, <2>4 DEF KeyStep
  <2>8. y = Now'
    BY <1>3, <2>4, <2>5, <2>6, <2>7 DEF Now
  <2>9. \E way : OnTheWay(way)'
    <3>1. PICK way : way = rest
      OBVIOUS
    <3>2. /\ Goes(queue', way, typed', moved') /\ way[1] = Now'
          /\ Settled(way[Len(queue') + 1], typed', moved')
      BY <1>3, <2>2, <2>3, <2>8, <3>1
    <3> QED
      BY <3>2 DEF OnTheWay
  <2>10. Reported'
    <3>1. Reported
      BY <1>6 DEF Way
    <3> HIDE DEF e, o
    <3>2. \A i \in 1..Len(events') : events'[i][1] = typed'[i]
      <4>1. CASE e = <<>>
        BY <1>3, <2>5, <3>1, <4>1 DEF Reported
      <4>2. CASE e # <<>>
        <5>1. \A i \in 1..Len(events) : events'[i][1] = typed[i]
          BY <2>5, <3>1, <4>2 DEF Reported
        <5>2. events'[Len(events) + 1][1] = typed[Len(events) + 1]
          BY <2>5, <4>2
        <5>3. \A i \in 1..Len(events') : i \in 1..Len(events) \/ i = Len(events) + 1
          BY <1>1, <2>5, <4>2
        <5> QED
          BY <1>3, <5>1, <5>2, <5>3
      <4> QED
        BY <4>1, <4>2
    <3> QED
      BY <1>3, <3>1, <3>2 DEF Reported
  <2> QED
    BY <1>4, <1>6, <2>9, <2>10 DEF Way
<1> QED
  BY <1>5, <1>6

LEMMA WayMouse ==
  ASSUME Types, Way, OnMouse
  PROVE  Way'
<1> DEFINE b == Head(queue).data
           z == MouseEvent(Append(ms, b))
<1>1. /\ queue \in Seq(Message) /\ ms \in Begun /\ moves \in Seq(Movement)
      /\ Len(events) \in Nat /\ Len(moves) \in Nat
  BY LenProperties DEF Types
<1>2. /\ queue # <<>> /\ Head(queue).type = "mouse" /\ queue' = Tail(queue)
      /\ ms' = PutMouse(ms, b)
      /\ moves' = IF Len(ms) = 2 /\ NoneLost THEN Append(moves, z) ELSE moves
      /\ UNCHANGED <<kb, lost, typed, events, moved>>
  BY DEF OnMouse
<1>3. b \in Octet
  <2>1. Head(queue) \in Message
    BY <1>1, <1>2, HeadTailProperties
  <2> QED
    BY <2>1 DEF Message
<1>4. NoneLost' <=> NoneLost
  BY <1>2 DEF NoneLost
<1>5. CASE ~NoneLost
  BY <1>2, <1>4, <1>5 DEF Way
<1>6. CASE NoneLost
  <2>1. PICK run : OnTheWay(run)
    BY <1>6 DEF Way
  <2> DEFINE rest == [i \in 1..(Len(Tail(queue)) + 1) |-> run[i + 1]]
             x == run[1]
             y == run[2]
  <2>2. /\ Goes(Tail(queue), rest, typed, moved)
        /\ rest[1] = y /\ rest[Len(Tail(queue)) + 1] = run[Len(queue) + 1]
        /\ Dispatches(x, y, Head(queue), typed, moved) /\ y \in Decoders
    BY <1>1, <1>2, <2>1, GoesTail DEF OnTheWay
  <2>3. x = Now /\ Settled(run[Len(queue) + 1], typed, moved)
    BY <2>1 DEF OnTheWay
  <2> HIDE DEF rest, y
  <2>4. MouseStep(ms, y.ms, Len(moves), y.me, b, moved) /\ y.kb = kb /\ y.ke = Len(events)
    BY <1>2, <2>2, <2>3 DEF Dispatches, Now
  <2>5. Len(moves') = y.me
        /\ (Len(ms) # 2 => moves' = moves)
        /\ (Len(ms) = 2 => /\ y.me = Len(moves) + 1 /\ moved[y.me] = z
                           /\ moves'[y.me] = z
                           /\ \A i \in 1..Len(moves) : moves'[i] = moves[i])
    <3>1. CASE Len(ms) # 2
      BY <1>2, <2>4, <3>1 DEF MouseStep
    <3>2. CASE Len(ms) = 2
      <4>1. z \in Movement
        BY <1>1, <1>3, <3>2, MouseEventTyped
      <4>2. moves' = Append(moves, z)
        BY <1>2, <1>6, <3>2
      <4>3. y.me = Len(moves) + 1 /\ moved[y.me] = z
        BY <2>4, <3>2 DEF MouseStep
      <4> HIDE DEF z
      <4>4. /\ Len(moves') = Len(moves) + 1 /\ moves'[Len(moves) + 1] = z
            /\ \A i \in 1..Len(moves) : moves'[i] = moves[i]
        BY <1>1, <4>1, <4>2, AppendProperties
      <4> QED
        BY <3>2, <4>3, <4>4
    <3> QED
      BY <3>1, <3>2
  <2>6. y = [kb |-> y.kb, ms |-> y.ms, ke |-> y.ke, me |-> y.me]
    BY <2>2 DEF Decoders
  <2>7. y.ms = ms'
    BY <1>2, <2>4 DEF MouseStep
  <2>8. y = Now'
    BY <1>2, <2>4, <2>5, <2>6, <2>7 DEF Now
  <2>9. \E way : OnTheWay(way)'
    <3>1. PICK way : way = rest
      OBVIOUS
    <3>2. /\ Goes(queue', way, typed', moved') /\ way[1] = Now'
          /\ Settled(way[Len(queue') + 1], typed', moved')
      BY <1>2, <2>2, <2>3, <2>8, <3>1
    <3> QED
      BY <3>2 DEF OnTheWay
  <2>10. Reported'
    <3>1. Reported
      BY <1>6 DEF Way
    <3> HIDE DEF z
    <3>2. \A i \in 1..Len(moves') : moves'[i] = moved'[i]
      <4>1. CASE Len(ms) # 2
        BY <1>2, <2>5, <3>1, <4>1 DEF Reported
      <4>2. CASE Len(ms) = 2
        <5>1. \A i \in 1..Len(moves) : moves'[i] = moved[i]
          BY <2>5, <3>1, <4>2 DEF Reported
        <5>2. moves'[Len(moves) + 1] = moved[Len(moves) + 1]
          BY <2>5, <4>2
        <5>3. \A i \in 1..Len(moves') : i \in 1..Len(moves) \/ i = Len(moves) + 1
          BY <1>1, <2>5, <4>2
        <5> QED
          BY <1>2, <5>1, <5>2, <5>3
      <4> QED
        BY <4>1, <4>2
    <3> QED
      BY <1>2, <3>1, <3>2 DEF Reported
  <2> QED
    BY <1>4, <1>6, <2>9, <2>10 DEF Way
<1> QED
  BY <1>5, <1>6

\* Once a message is dropped nothing is claimed.
LEMMA LoseSome ==
  ASSUME Types, Lose
  PROVE  ~NoneLost' /\ typed' = <<>> /\ events' = <<>> /\ moved' = <<>> /\ moves' = <<>>
<1>1. Head(queue).type \in {"key", "mouse"}
  <2>1. Head(queue) \in Message
    BY HeadTailProperties DEF Lose, Types
  <2> QED
    BY <2>1 DEF Message
<1>2. lost \in [key : Nat, mouse : Nat]
  BY DEF Types
<1>3. CASE Head(queue).type = "key"
  <2>1. lost' = [lost EXCEPT !.key = lost.key + 1]
    BY <1>3 DEF Lose
  <2>2. lost'.key = lost.key + 1
    BY <1>2, <2>1
  <2> QED
    BY <1>2, <2>2 DEF NoneLost, Lose
<1>4. CASE Head(queue).type = "mouse"
  <2>1. lost' = [lost EXCEPT !.mouse = lost.mouse + 1]
    BY <1>4 DEF Lose
  <2>2. lost'.mouse = lost.mouse + 1
    BY <1>2, <2>1
  <2> QED
    BY <1>2, <2>2 DEF NoneLost, Lose
<1> QED
  BY <1>1, <1>3, <1>4

LEMMA WayStep == Types /\ Way /\ [Next]_vars => Way'
<1> SUFFICES ASSUME Types, Way, [Next]_vars PROVE Way'
  OBVIOUS
<1>1. ASSUME NEW key \in Keys, NEW down \in BOOLEAN, Stroke(key, down)
      PROVE  Way'
  BY <1>1, WayStroke
<1>2. ASSUME NEW m \in Moves, Move(m)
      PROVE  Way'
  BY <1>2, WayMove
<1>3. CASE Lose
  BY <1>3, LoseSome DEF Way
<1>4. CASE OnKeyboard
  BY <1>4, WayKey
<1>5. CASE OnMouse
  BY <1>5, WayMouse
<1>6. CASE UNCHANGED vars
  <2>1. UNCHANGED <<kb, ms, queue, lost, typed, events, moved, moves>>
    BY <1>6 DEF vars
  <2>2. \A run : OnTheWay(run)' <=> OnTheWay(run)
    BY <2>1 DEF OnTheWay, Now
  <2>3. (Reported' <=> Reported) /\ (NoneLost' <=> NoneLost)
    BY <2>1 DEF Reported, NoneLost
  <2> QED
    BY <2>1, <2>2, <2>3 DEF Way
<1> QED
  BY <1>1, <1>2, <1>3, <1>4, <1>5, <1>6 DEF Next

LEMMA AlwaysOnTheWay == Spec => [](Types /\ Way)
<1>1. Init => Types /\ Way
  BY TypesInit, WayInit
<1>2. (Types /\ Way) /\ [Next]_vars => (Types /\ Way)'
  BY TypesStep, WayStep
<1> QED
  BY <1>1, <1>2, PTL DEF Spec

\* A sequence that agrees with a longer one is a prefix of it.
LEMMA PrefixByIndex ==
  ASSUME NEW S, NEW s \in Seq(S), NEW t \in Seq(S), Len(s) <= Len(t),
         \A i \in 1..Len(s) : s[i] = t[i]
  PROVE  IsPrefix(s, t)
<1>1. Len(s) \in Nat /\ Len(t) \in Nat
  BY LenProperties
<1>2. (\A i \in 1..Len(s) : s[i] \in S) /\ (\A i \in 1..Len(s) : t[i] \in S)
  BY ElementOfSeq
<1> DEFINE n == Len(s)
           u == SubSeq(s, 1, n)
           v == SubSeq(t, 1, n)
<1>3. u \in Seq(S) /\ Len(u) = n /\ \A i \in 1..n : u[i] = s[i]
  <2>1. u \in Seq(S) /\ Len(u) = (IF 1 <= n THEN n - 1 + 1 ELSE 0) /\ \A i \in 1..(n - 1 + 1) : u[i] = s[1 + i - 1]
    BY <1>1, <1>2, SubSeqProperties
  <2> HIDE DEF u, n
  <2> QED
    BY <1>1, <2>1 DEF n
<1>4. v \in Seq(S) /\ Len(v) = n /\ \A i \in 1..n : v[i] = t[i]
  <2>1. v \in Seq(S) /\ Len(v) = (IF 1 <= n THEN n - 1 + 1 ELSE 0) /\ \A i \in 1..(n - 1 + 1) : v[i] = t[1 + i - 1]
    BY <1>1, <1>2, SubSeqProperties
  <2> HIDE DEF v, n
  <2> QED
    BY <1>1, <2>1 DEF n
<1> HIDE DEF u, v
<1>5. u = v
  BY <1>3, <1>4, SeqEqual
<1> QED
  BY <1>5 DEF IsPrefix, u, v

\* As long as no message is dropped, the key events are the strokes and the
\* mouse events the movements, in order, whatever keys share codes, prefixes
\* and break bits and however large the movements are: ps2_keyboard_put_byte
\* and ps2_mouse_put_byte lose and invent nothing, for any number of strokes.
THEOREM DecodersFaithful == Spec => []Faithful
<1>1. Types /\ Way => Faithful
  <2> SUFFICES ASSUME Types, Way PROVE Faithful
    OBVIOUS
  <2>1. TypeOK
    BY TypesImply
  <2> SUFFICES ASSUME NoneLost
               PROVE  /\ IsPrefix([i \in 1..Len(events) |-> events[i][1]], typed)
                      /\ IsPrefix(moves, moved)
                      /\ queue = <<>> => Len(events) = Len(typed) /\ Len(moves) = Len(moved)
    BY <2>1 DEF Faithful
  <2>2. PICK run : OnTheWay(run)
    BY DEF Way
  <2>3. Len(events) <= Len(typed) /\ Len(moves) <= Len(moved)
    BY <2>2, ReportedLess
  <2>4. /\ typed \in Seq(Evt) /\ events \in Seq(Evt \X Output)
        /\ moved \in Seq(Movement) /\ moves \in Seq(Movement)
    BY DEF Types
  <2>5. Reported
    BY DEF Way
  <2>6. IsPrefix([i \in 1..Len(events) |-> events[i][1]], typed)
    <3> DEFINE s == [i \in 1..Len(events) |-> events[i][1]]
    <3>1. \A i \in 1..Len(events) : events[i][1] \in Evt
      BY <2>4, ElementOfSeq
    <3>2. Len(events) \in Nat
      BY <2>4, LenProperties
    <3>3. s \in [1..Len(events) -> Evt]
      BY <3>1
    <3>4. s \in Seq(Evt) /\ Len(s) = Len(events)
      BY <3>2, <3>3, IsASeq, LenProperties
    <3>5. \A i \in 1..Len(s) : s[i] = typed[i]
      BY <2>5, <3>4 DEF Reported
    <3> HIDE DEF s
    <3>6. IsPrefix(s, typed)
      BY <2>3, <2>4, <3>4, <3>5, PrefixByIndex
    <3> QED
      BY <3>6 DEF s
  <2>7. IsPrefix(moves, moved)
    BY <2>3, <2>4, <2>5, PrefixByIndex DEF Reported
  <2>8. queue = <<>> => Len(events) = Len(typed) /\ Len(moves) = Len(moved)
    <3> SUFFICES ASSUME queue = <<>> PROVE Len(events) = Len(typed) /\ Len(moves) = Len(moved)
      OBVIOUS
    <3>1. Len(queue) + 1 = 1
      OBVIOUS
    <3>2. Settled(Now, typed, moved)
      BY <2>2, <3>1 DEF OnTheWay
    <3> QED
      BY <3>2 DEF Settled, Now
  <2> QED
    BY <2>6, <2>7, <2>8
<1> QED
  BY <1>1, AlwaysOnTheWay, PTL

-----------------------------------------------------------------------------
(* Keys and packets as wholes, and what losses do to them *)

\* What the devices send in one piece.
Sent(type) ==
  IF type = "key" THEN {Scancode(key, down) : key \in Keys, down \in BOOLEAN}
                  ELSE {Packet(m) : m \in Moves}

LEMMA SentTyped ==
  ASSUME NEW type \in {"key", "mouse"}, NEW bs \in Sent(type)
  PROVE  bs \in Seq(Octet) /\ Len(bs) \in 1..6 /\ (type = "mouse" => Len(bs) = 3)
<1>1. CASE type = "key"
  BY <1>1, ScancodeTyped DEF Sent
<1>2. CASE type = "mouse"
  <2>1. PICK m \in Moves : bs = Packet(m)
    BY <1>2 DEF Sent
  <2>2. m \in Movement
    BY MovesAssumption DEF Movement, Displacement
  <2>3. Packet(m) \in Seq(Octet) /\ Len(Packet(m)) = 3
    BY <2>2, PacketFlags
  <2> QED
    BY <2>1, <2>3
<1> QED
  BY <1>1, <1>2

\* Message i of q is byte pos[i] of bytes[i]; its other bytes follow it.
InBlocks(q, bytes, pos) ==
  \A i \in 1..Len(q) :
    /\ bytes[i] \in Sent(q[i].type) /\ pos[i] \in 1..Len(bytes[i])
    /\ q[i].data = bytes[i][pos[i]]
    /\ q[i].ends <=> pos[i] = Len(bytes[i])
    /\ pos[i] < Len(bytes[i]) => /\ i < Len(q) /\ q[i + 1].type = q[i].type
                                 /\ bytes[i + 1] = bytes[i] /\ pos[i + 1] = pos[i] + 1
    /\ pos[i] = Len(bytes[i]) /\ i < Len(q) => pos[i + 1] = 1

LEMMA BlocksAppend ==
  ASSUME NEW q \in Seq(Message), NEW bytes, NEW pos, InBlocks(q, bytes, pos),
         NEW type \in {"key", "mouse"}, NEW bs \in Sent(type)
  PROVE  \E bytes2, pos2 :
           /\ InBlocks(q \o Messages(type, bs), bytes2, pos2)
           /\ q # <<>> => bytes2[1] = bytes[1] /\ pos2[1] = pos[1]
           /\ q = <<>> => pos2[1] = 1
<1> DEFINE m == Len(q)
           n == Len(bs)
           new == Messages(type, bs)
           s == q \o new
           bytes2 == [i \in 1..(m + n) |-> IF i <= m THEN bytes[i] ELSE bs]
           pos2 == [i \in 1..(m + n) |-> IF i <= m THEN pos[i] ELSE i - m]
<1>1. bs \in Seq(Octet) /\ n \in 1..6
  BY SentTyped
<1>2. /\ new \in Seq(Message) /\ Len(new) = n
      /\ \A i \in 1..n : new[i] = [type |-> type, data |-> bs[i], ends |-> i = n]
  BY <1>1, MessagesTyped
<1>3. m \in Nat /\ Len(s) = m + n
  BY <1>2, ConcatProperties, LenProperties
<1>4. (\A i \in 1..m : s[i] = q[i]) /\ (\A i \in (m + 1)..(m + n) : s[i] = new[i - m])
  BY <1>2, ConcatProperties
<1>5. q = <<>> <=> m = 0
  BY EmptySeq
<1>6. \A i \in 1..m :
        /\ bytes[i] \in Sent(q[i].type) /\ pos[i] \in 1..Len(bytes[i])
        /\ q[i].data = bytes[i][pos[i]]
        /\ q[i].ends <=> pos[i] = Len(bytes[i])
        /\ pos[i] < Len(bytes[i]) => /\ i < m /\ q[i + 1].type = q[i].type
                                     /\ bytes[i + 1] = bytes[i] /\ pos[i + 1] = pos[i] + 1
        /\ pos[i] = Len(bytes[i]) /\ i < m => pos[i + 1] = 1
  BY DEF InBlocks
<1>7. \A i \in 1..m : Len(bytes[i]) \in Nat
  <2> SUFFICES ASSUME NEW i \in 1..m PROVE Len(bytes[i]) \in Nat
    OBVIOUS
  <2>1. q[i].type \in {"key", "mouse"}
    <3>1. q[i] \in Message
      BY ElementOfSeq
    <3> QED
      BY <3>1 DEF Message
  <2>2. bytes[i] \in Sent(q[i].type)
    BY <1>6
  <2> QED
    BY <2>1, <2>2, SentTyped
<1> HIDE DEF m, n, new, s
<1>8. \A i \in 1..m : bytes2[i] = bytes[i] /\ pos2[i] = pos[i]
  BY <1>1, <1>3
<1>9. \A i \in (m + 1)..(m + n) : bytes2[i] = bs /\ pos2[i] = i - m
  BY <1>1, <1>3
<1> HIDE DEF bytes2, pos2
<1>10. ASSUME NEW i \in 1..m
       PROVE  /\ bytes2[i] \in Sent(s[i].type) /\ pos2[i] \in 1..Len(bytes2[i])
              /\ s[i].data = bytes2[i][pos2[i]]
              /\ s[i].ends <=> pos2[i] = Len(bytes2[i])
              /\ pos2[i] < Len(bytes2[i]) => /\ i < m + n /\ s[i + 1].type = s[i].type
                                             /\ bytes2[i + 1] = bytes2[i] /\ pos2[i + 1] = pos2[i] + 1
              /\ pos2[i] = Len(bytes2[i]) /\ i < m + n => pos2[i + 1] = 1
  <2>1. s[i] = q[i] /\ bytes2[i] = bytes[i] /\ pos2[i] = pos[i]
    BY <1>4, <1>8
  <2>2. CASE i < m
    <3>1. i + 1 \in 1..m /\ i < m + n
      BY <1>1, <1>3, <2>2
    <3>2. s[i + 1] = q[i + 1] /\ bytes2[i + 1] = bytes[i + 1] /\ pos2[i + 1] = pos[i + 1]
      BY <1>4, <1>8, <3>1
    <3> QED
      BY <1>6, <2>1, <2>2, <3>1, <3>2
  <2>3. CASE i = m
    <3>1. i + 1 \in (m + 1)..(m + n) /\ (i + 1) - m = 1
      BY <1>1, <1>3, <2>3
    <3>2. pos2[i + 1] = 1
      BY <1>9, <3>1
    <3>3. ~(pos[i] < Len(bytes[i]))
      BY <1>3, <1>6, <2>3
    <3> QED
      BY <1>6, <2>1, <3>2, <3>3
  <2> QED
    BY <1>3, <2>2, <2>3
<1>11. ASSUME NEW i \in (m + 1)..(m + n)
       PROVE  /\ bytes2[i] \in Sent(s[i].type) /\ pos2[i] \in 1..Len(bytes2[i])
              /\ s[i].data = bytes2[i][pos2[i]]
              /\ s[i].ends <=> pos2[i] = Len(bytes2[i])
              /\ pos2[i] < Len(bytes2[i]) => /\ i < m + n /\ s[i + 1].type = s[i].type
                                             /\ bytes2[i + 1] = bytes2[i] /\ pos2[i + 1] = pos2[i] + 1
              /\ pos2[i] = Len(bytes2[i]) /\ i < m + n => pos2[i + 1] = 1
  <2> DEFINE j == i - m
  <2>1. j \in 1..n /\ i = m + j
    BY <1>1, <1>3
  <2>2. s[i] = new[j] /\ bytes2[i] = bs /\ pos2[i] = j
    BY <1>4, <1>9
  <2>3. s[i].type = type /\ s[i].data = bs[j] /\ (s[i].ends <=> j = n)
    <3>1. new[j] = [type |-> type, data |-> bs[j], ends |-> j = n]
      BY <1>2, <2>1
    <3>2. new[j].type = type /\ new[j].data = bs[j]
      BY <3>1
    <3>3. new[j].ends <=> j = n
      <4> DEFINE final == j = n
      <4>1. new[j] = [type |-> type, data |-> bs[j], ends |-> final]
        BY <3>1
      <4> HIDE DEF final
      <4>2. new[j].ends = final
        BY <4>1
      <4> QED
        BY <4>2, Zenon DEF final
    <3> QED
      BY <2>2, <3>2, <3>3
  <2>4. ASSUME j < n
        PROVE  i < m + n /\ s[i + 1].type = type /\ bytes2[i + 1] = bs /\ pos2[i + 1] = j + 1
    <3>1. i + 1 \in (m + 1)..(m + n) /\ (i + 1) - m = j + 1 /\ j + 1 \in 1..n /\ i < m + n
      BY <1>1, <1>3, <2>1, <2>4
    <3>2. s[i + 1] = new[j + 1] /\ bytes2[i + 1] = bs /\ pos2[i + 1] = j + 1
      BY <1>4, <1>9, <3>1
    <3> QED
      BY <1>2, <3>1, <3>2
  <2>5. j = n => ~(i < m + n)
    BY <1>1, <1>3, <2>1
  <2>6. Len(bs) = n
    BY DEF n
  <2> HIDE DEF j
  <2> QED
    BY <2>1, <2>2, <2>3, <2>4, <2>5, <2>6
<1>12. \A i \in 1..(m + n) : i \in 1..m \/ i \in (m + 1)..(m + n)
  BY <1>1, <1>3
<1>13. InBlocks(s, bytes2, pos2)
  BY <1>3, <1>10, <1>11, <1>12 DEF InBlocks
<1>14. q # <<>> => bytes2[1] = bytes[1] /\ pos2[1] = pos[1]
  BY <1>3, <1>5, <1>8
<1>15. q = <<>> => pos2[1] = 1
  BY <1>1, <1>3, <1>5, <1>9
<1> QED
  BY <1>13, <1>14, <1>15 DEF s, new

LEMMA BlocksTail ==
  ASSUME NEW q \in Seq(Message), q # <<>>, NEW bytes, NEW pos, InBlocks(q, bytes, pos)
  PROVE  \E bytes2, pos2 :
           /\ InBlocks(Tail(q), bytes2, pos2)
           /\ bytes2[1] = bytes[2] /\ pos2[1] = pos[2]
<1> DEFINE n == Len(q)
           t == Tail(q)
           bytes2 == [i \in 1..n |-> bytes[i + 1]]
           pos2 == [i \in 1..n |-> pos[i + 1]]
<1>1. n \in Nat \ {0} /\ Len(t) = n - 1 /\ (\A i \in 1..(n - 1) : t[i] = q[i + 1])
  BY HeadTailProperties, LenProperties, EmptySeq
<1>2. \A i \in 1..n :
        /\ bytes[i] \in Sent(q[i].type) /\ pos[i] \in 1..Len(bytes[i])
        /\ q[i].data = bytes[i][pos[i]]
        /\ q[i].ends <=> pos[i] = Len(bytes[i])
        /\ pos[i] < Len(bytes[i]) => /\ i < n /\ q[i + 1].type = q[i].type
                                     /\ bytes[i + 1] = bytes[i] /\ pos[i + 1] = pos[i] + 1
        /\ pos[i] = Len(bytes[i]) /\ i < n => pos[i + 1] = 1
  BY DEF InBlocks
<1> HIDE DEF n, t
<1>3. \A i \in 1..n : bytes2[i] = bytes[i + 1] /\ pos2[i] = pos[i + 1]
  OBVIOUS
<1> HIDE DEF bytes2, pos2
<1>4. ASSUME NEW i \in 1..Len(t)
      PROVE  /\ bytes2[i] \in Sent(t[i].type) /\ pos2[i] \in 1..Len(bytes2[i])
             /\ t[i].data = bytes2[i][pos2[i]]
             /\ t[i].ends <=> pos2[i] = Len(bytes2[i])
             /\ pos2[i] < Len(bytes2[i]) => /\ i < Len(t) /\ t[i + 1].type = t[i].type
                                            /\ bytes2[i + 1] = bytes2[i] /\ pos2[i + 1] = pos2[i] + 1
             /\ pos2[i] = Len(bytes2[i]) /\ i < Len(t) => pos2[i + 1] = 1
  <2> DEFINE j == i + 1
  <2>1. j \in 1..n /\ i \in 1..n /\ j \in 1..n /\ (i < Len(t) <=> j < n) /\ i \in 1..(n - 1)
    BY <1>1
  <2>2. t[i] = q[j] /\ bytes2[i] = bytes[j] /\ pos2[i] = pos[j]
    BY <1>1, <1>3, <2>1
  <2>3. bytes2[i + 1] = bytes[j + 1] /\ pos2[i + 1] = pos[j + 1]
    BY <1>3, <2>1
  <2>4. j < n => t[i + 1] = q[j + 1]
    BY <1>1, <2>1
  <2> HIDE DEF j
  <2> QED
    BY <1>2, <2>1, <2>2, <2>3, <2>4
<1>5. InBlocks(t, bytes2, pos2)
  BY <1>4 DEF InBlocks
<1>6. bytes2[1] = bytes[2] /\ pos2[1] = pos[2]
  BY <1>1, <1>3
<1> QED
  BY <1>5, <1>6 DEF t


\* The states between two keys, when no message was lost in the last w of them.
Between(w) ==
  CASE w = 0 -> States
    [] w = 1 -> {"START", "EXT1_1", "EXT2_2"}
    [] w = 2 -> {"START"}

\* The states on the way through the first bytes of bs.
Follows(path, bs, n) ==
  /\ path \in [1..(n + 1) -> States]
  /\ \A i \in 1..n : path[i + 1] = NextState(path[i], bs[i])

LEMMA NextStateTyped ==
  ASSUME NEW s, NEW b
  PROVE  NextState(s, b) \in States
BY DEF NextState, States

\* A whole key ends in one of three states, wherever it found the decoder, and
\* a second one between two keys.
LEMMA WholeKey ==
  ASSUME NEW key \in Keys, NEW down \in BOOLEAN, NEW w \in 0..2, NEW path,
         Follows(path, Scancode(key, down), Len(Scancode(key, down))), path[1] \in Between(w)
  PROVE  path[Len(Scancode(key, down)) + 1] \in Between(IF w < 2 THEN w + 1 ELSE 2)
<1> DEFINE up == IF down THEN 0 ELSE 128
           bs == Scancode(key, down)
           n == Len(bs)
           s1 == path[1]
           s2 == path[2]
           s3 == path[3]
           s4 == path[4]
           s5 == path[5]
           s6 == path[6]
           s7 == path[7]
<1>1. n \in 1..6
  BY ScancodeTyped
<1>2. path \in [1..(n + 1) -> States] /\ \A i \in 1..n : path[i + 1] = NextState(path[i], bs[i])
  BY DEF Follows
<1>3. s1 \in States
  BY <1>1, <1>2
<1>4. /\ w # 0 => s1 \in {"START", "EXT1_1", "EXT2_2"}
      /\ w = 2 => s1 = "START"
  BY DEF Between
<1> SUFFICES /\ path[n + 1] \in {"START", "EXT1_1", "EXT2_2"}
             /\ s1 \in {"START", "EXT1_1", "EXT2_2"} => path[n + 1] = "START"
  BY <1>4 DEF Between
<1> HIDE DEF s1
<1>5. CASE key \in Normal /\ bs = <<key + up>>
  <2>1. n = 1 /\ bs[1] = key + up
    BY <1>5
  <2>2. path[2] = NextState(s1, key + up)
    BY <1>2, <2>1 DEF s1
  <2>3. key + up \notin {224, 225}
    BY <1>5 DEF Normal
  <2> HIDE DEF bs, n, up
  <2> QED
    BY <1>3, <2>1, <2>2, <2>3 DEF NextState, States
<1>6. ASSUME NEW c \in Extended, bs = <<224, c + up>>
      PROVE  path[n + 1] = "START"
  <2>1. n = 2 /\ bs[1] = 224 /\ bs[2] = c + up
    BY <1>6
  <2>2. s2 = NextState(s1, 224) /\ s3 = NextState(s2, c + up)
    BY <1>2, <2>1 DEF s1
  <2>3. c + up \notin {224, 225, 42, 183}
    BY <1>6 DEF Extended
  <2>4. s2 \in {"EXT1", "EXT1_2", "EXT2_2", "START"}
    BY <1>3, <2>2 DEF NextState, States
  <2> HIDE DEF bs, n, up, s2
  <2>5. s3 = "START"
    BY <2>2, <2>3, <2>4 DEF NextState
  <2> QED
    BY <2>1, <2>5
<1>7. CASE bs = IF down THEN <<224, 42, 224, 55>> ELSE <<224, 183, 224, 170>>
  <2> DEFINE b2 == IF down THEN 42 ELSE 183
             b4 == IF down THEN 55 ELSE 170
  <2>1. n = 4 /\ bs[1] = 224 /\ bs[2] = b2 /\ bs[3] = 224 /\ bs[4] = b4
    BY <1>7
  <2>2. s2 = NextState(s1, 224) /\ s3 = NextState(s2, b2) /\ s4 = NextState(s3, 224) /\ s5 = NextState(s4, b4)
    BY <1>2, <2>1 DEF s1
  <2>3. b2 \in {42, 183} /\ b4 \in {55, 170}
    OBVIOUS
  <2> HIDE DEF bs, n, b2, b4, s2, s3, s4, s5
  <2>4. s2 \in {"EXT1", "EXT1_2", "EXT2_2", "START"}
    BY <1>3, <2>2 DEF NextState, States
  <2>5. s3 \in {"EXT1_1", "START"}
    BY <2>2, <2>3, <2>4 DEF NextState
  <2>6. s4 \in {"EXT1_2", "EXT1"}
    BY <2>2, <2>5 DEF NextState
  <2>7. s5 = "START"
    BY <2>2, <2>3, <2>6 DEF NextState
  <2> QED
    BY <2>1, <2>7 DEF s5
<1>8. CASE bs = <<225, 29, 69, 225, 157, 197>>
  <2>1. n = 6 /\ bs[1] = 225 /\ bs[2] = 29 /\ bs[3] = 69 /\ bs[4] = 225 /\ bs[5] = 157 /\ bs[6] = 197
    BY <1>8
  <2>2. /\ s2 = NextState(s1, 225) /\ s3 = NextState(s2, 29) /\ s4 = NextState(s3, 69)
        /\ s5 = NextState(s4, 225) /\ s6 = NextState(s5, 157) /\ s7 = NextState(s6, 197)
    BY <1>2, <2>1 DEF s1
  <2> HIDE DEF bs, n, s2, s3, s4, s5, s6, s7
  <2>3. s2 \in {"EXT2_1", "EXT2_2", "START"}
    <3>1. s2 = NextState(s1, 225)
      BY <2>2
    <3> QED
      BY <1>3, <3>1 DEF NextState, States
  <2>4. s3 \in {"EXT2_2", "START"}
    <3>1. s3 = NextState(s2, 29)
      BY <2>2
    <3> QED
      BY <2>3, <3>1 DEF NextState
  <2>5. s4 = "START"
    <3>1. s4 = NextState(s3, 69)
      BY <2>2
    <3> QED
      BY <2>4, <3>1 DEF NextState
  <2>6. s5 = "EXT2_1"
    <3>1. s5 = NextState(s4, 225)
      BY <2>2
    <3> QED
      BY <2>5, <3>1 DEF NextState
  <2>7. s6 = "EXT2_2"
    <3>1. s6 = NextState(s5, 157)
      BY <2>2
    <3> QED
      BY <2>6, <3>1 DEF NextState
  <2>8. s7 = "START"
    <3>1. s7 = NextState(s6, 197)
      BY <2>2
    <3> QED
      BY <2>7, <3>1 DEF NextState
  <2> QED
    BY <2>1, <2>8 DEF s7
<1> QED
  BY <1>5, <1>6, <1>7, <1>8, ScancodeForms


-----------------------------------------------------------------------------
(* Where the decoders are in the messages that wait *)

\* The next message is not the first of a key, or of a packet.
Inside(q, type, pos) == q # <<>> /\ Head(q).type = type /\ pos[1] > 1

\* The keyboard decoder has come to state st from between two keys.
Reached(bs, n, w, st) ==
  \E path : Follows(path, bs, n) /\ path[1] \in Between(w) /\ path[n + 1] = st

\* The bytes of packets that were read or dropped count modulo 3; keys count as
\* whole ones once the rest of a key that has lost bytes is gone.
PlacedBy(bytes, pos) ==
  /\ InBlocks(queue, bytes, pos)
  /\ (Len(ms) + lost.mouse) % 3 = IF Inside(queue, "mouse", pos) THEN pos[1] - 1 ELSE 0
  /\ torn => Inside(queue, "key", pos)
  /\ ~torn => IF Inside(queue, "key", pos) THEN Reached(bytes[1], pos[1] - 1, whole, kb.state)
                                           ELSE kb.state \in Between(whole)

Placed == \E bytes, pos : PlacedBy(bytes, pos)

\* What is known of the first message and of those behind it.
LEMMA FirstBlock ==
  ASSUME NEW q \in Seq(Message), q # <<>>, NEW bytes, NEW pos, InBlocks(q, bytes, pos)
  PROVE  /\ Head(q).type \in {"key", "mouse"} /\ bytes[1] \in Sent(Head(q).type)
         /\ pos[1] \in 1..Len(bytes[1]) /\ Len(bytes[1]) \in 1..6
         /\ Head(q).type = "mouse" => Len(bytes[1]) = 3
         /\ Head(q).data = bytes[1][pos[1]]
         /\ Head(q).ends <=> pos[1] = Len(bytes[1])
         /\ \E bytes2, pos2 :
              /\ InBlocks(Tail(q), bytes2, pos2)
              /\ pos[1] = Len(bytes[1]) => Tail(q) = <<>> \/ pos2[1] = 1
              /\ pos[1] < Len(bytes[1]) => /\ Tail(q) # <<>> /\ Head(Tail(q)).type = Head(q).type
                                           /\ bytes2[1] = bytes[1] /\ pos2[1] = pos[1] + 1
<1> DEFINE n == Len(q)
           t == Tail(q)
           h == Head(q)
<1>1. n \in Nat \ {0} /\ h = q[1] /\ h \in Message
  BY HeadTailProperties, LenProperties, EmptySeq
<1>2. h.type \in {"key", "mouse"}
  BY <1>1 DEF Message
<1>3. t \in Seq(Message) /\ Len(t) = n - 1 /\ (\A i \in 1..(n - 1) : t[i] = q[i + 1])
  BY HeadTailProperties
<1>4. t # <<>> => Head(t) = t[1] /\ Len(t) # 0
  BY <1>3, HeadTailProperties, EmptySeq
<1>5. n > 1 => t # <<>> /\ Head(t) = q[2]
  <2> SUFFICES ASSUME n > 1 PROVE t # <<>> /\ Head(t) = q[2]
    OBVIOUS
  <2>1. Len(t) # 0
    BY <1>1, <1>3
  <2>2. t # <<>>
    BY <1>3, <2>1, EmptySeq
  <2>3. 1 \in 1..(n - 1)
    BY <1>1
  <2>4. t[1] = q[2]
    BY <1>3, <2>3
  <2> QED
    BY <1>4, <2>2, <2>4
<1>6. t # <<>> => 1 < n
  BY <1>1, <1>3, <1>4
<1> HIDE DEF h, t
<1>7. /\ bytes[1] \in Sent(h.type) /\ pos[1] \in 1..Len(bytes[1])
      /\ h.data = bytes[1][pos[1]]
      /\ h.ends <=> pos[1] = Len(bytes[1])
      /\ pos[1] < Len(bytes[1]) => /\ 1 < n /\ q[2].type = h.type
                                   /\ bytes[2] = bytes[1] /\ pos[2] = pos[1] + 1
      /\ pos[1] = Len(bytes[1]) /\ 1 < n => pos[2] = 1
  <2>1. 1 \in 1..n /\ 1 + 1 = 2
    BY <1>1
  <2> QED
    BY <1>1, <2>1 DEF InBlocks
<1>8. Len(bytes[1]) \in 1..6 /\ (h.type = "mouse" => Len(bytes[1]) = 3)
  BY <1>2, <1>7, SentTyped
<1>9. PICK bytes2, pos2 : InBlocks(t, bytes2, pos2) /\ bytes2[1] = bytes[2] /\ pos2[1] = pos[2]
  BY BlocksTail DEF t
<1> HIDE DEF n
<1>10. /\ pos[1] = Len(bytes[1]) => t = <<>> \/ pos2[1] = 1
       /\ pos[1] < Len(bytes[1]) => /\ t # <<>> /\ Head(t).type = h.type
                                    /\ bytes2[1] = bytes[1] /\ pos2[1] = pos[1] + 1
  BY <1>1, <1>5, <1>6, <1>7, <1>9
<1> QED
  BY <1>2, <1>7, <1>8, <1>9, <1>10 DEF h, t

LEMMA PlacedInit == Init => Placed
<1> SUFFICES ASSUME Init PROVE Placed
  OBVIOUS
<1>1. queue = <<>> /\ Len(queue) = 0 /\ Len(ms) = 0 /\ lost.mouse = 0 /\ ~torn /\ whole = 0
      /\ kb.state = "START"
  BY DEF Init
<1>2. InBlocks(queue, <<>>, <<>>)
  BY <1>1 DEF InBlocks
<1>3. ~Inside(queue, "mouse", <<>>) /\ ~Inside(queue, "key", <<>>)
  BY <1>1 DEF Inside
<1>4. kb.state \in Between(whole)
  BY <1>1 DEF Between, States
<1>5. (Len(ms) + lost.mouse) % 3 = 0
  BY <1>1
<1>6. PlacedBy(<<>>, <<>>)
  BY <1>1, <1>2, <1>3, <1>4, <1>5 DEF PlacedBy
<1> QED
  BY <1>6 DEF Placed

\* A new key or packet waits behind all others.
LEMMA PlacedMore ==
  ASSUME Types, Placed, NEW type \in {"key", "mouse"}, NEW bs \in Sent(type),
         queue' = queue \o Messages(type, bs), UNCHANGED <<kb, ms, lost, torn, whole>>
  PROVE  Placed'
<1>1. PICK bytes, pos : PlacedBy(bytes, pos)
  BY DEF Placed
<1>2. queue \in Seq(Message)
  BY DEF Types
<1>3. PICK bytes2, pos2 :
        /\ InBlocks(queue', bytes2, pos2)
        /\ queue # <<>> => bytes2[1] = bytes[1] /\ pos2[1] = pos[1]
        /\ queue = <<>> => pos2[1] = 1
  BY <1>1, <1>2, BlocksAppend DEF PlacedBy
<1>4. queue # <<>> => queue' # <<>> /\ Head(queue') = Head(queue)
  <2>1. Messages(type, bs) \in Seq(Message)
    BY SentTyped, MessagesTyped
  <2>2. /\ Len(queue') = Len(queue) + Len(Messages(type, bs))
        /\ \A i \in 1..Len(queue) : queue'[i] = queue[i]
        /\ queue' \in Seq(Message)
    BY <1>2, <2>1, ConcatProperties
  <2>3. Len(queue) \in Nat /\ Len(Messages(type, bs)) \in Nat
    BY <1>2, <2>1, LenProperties
  <2> SUFFICES ASSUME queue # <<>> PROVE queue' # <<>> /\ Head(queue') = Head(queue)
    OBVIOUS
  <2>4. Len(queue) # 0
    BY <1>2, EmptySeq
  <2>5. Len(queue') # 0 /\ queue'[1] = queue[1]
    BY <2>2, <2>3, <2>4
  <2>6. queue' # <<>>
    BY <2>2, <2>5, EmptySeq
  <2>7. Head(queue') = queue'[1] /\ Head(queue) = queue[1]
    BY <1>2, <2>2, <2>6, HeadTailProperties
  <2> QED
    BY <2>5, <2>6, <2>7
<1>5. \A t : Inside(queue', t, pos2) <=> Inside(queue, t, pos)
  BY <1>3, <1>4 DEF Inside
<1>6. (Len(ms') + lost'.mouse) % 3 = IF Inside(queue', "mouse", pos2) THEN pos2[1] - 1 ELSE 0
  BY <1>1, <1>3, <1>5 DEF PlacedBy, Inside
<1>7. torn' => Inside(queue', "key", pos2)
  BY <1>1, <1>5 DEF PlacedBy
<1>8. ~torn' => IF Inside(queue', "key", pos2)
                  THEN Reached(bytes2[1], pos2[1] - 1, whole', kb'.state)
                  ELSE kb'.state \in Between(whole')
  <2>1. Inside(queue, "key", pos) => bytes2[1] = bytes[1] /\ pos2[1] = pos[1]
    BY <1>3 DEF Inside
  <2> QED
    BY <1>1, <1>5, <2>1 DEF PlacedBy
<1>9. PlacedBy(bytes2, pos2)'
  BY <1>3, <1>6, <1>7, <1>8 DEF PlacedBy
<1> QED
  BY <1>9 DEF Placed


\* The byte that is read extends the way of the keyboard decoder.
LEMMA ReachedNext ==
  ASSUME NEW bs, NEW n \in Nat, NEW w, NEW st \in States, Reached(bs, n, w, st)
  PROVE  Reached(bs, n + 1, w, NextState(st, bs[n + 1]))
<1>1. PICK path : Follows(path, bs, n) /\ path[1] \in Between(w) /\ path[n + 1] = st
  BY DEF Reached
<1> DEFINE s2 == NextState(st, bs[n + 1])
           way == [i \in 1..(n + 2) |-> IF i = n + 2 THEN s2 ELSE path[i]]
<1>2. path \in [1..(n + 1) -> States] /\ \A i \in 1..n : path[i + 1] = NextState(path[i], bs[i])
  BY <1>1 DEF Follows
<1>3. s2 \in States
  BY NextStateTyped
<1>4. way[n + 2] = s2 /\ way[n + 1] = st /\ way[1] = path[1]
  BY <1>1
<1>5. \A i \in 1..(n + 1) : way[i] = path[i]
  OBVIOUS
<1>6. way \in [1..(n + 2) -> States]
  BY <1>2, <1>3
<1>7. s2 = NextState(st, bs[n + 1])
  OBVIOUS
<1> HIDE DEF way, s2
<1>8. ASSUME NEW i \in 1..(n + 1)
      PROVE  way[i + 1] = NextState(way[i], bs[i])
  <2>1. CASE i = n + 1
    BY <1>4, <1>7, <2>1
  <2>2. CASE i # n + 1
    <3>1. i \in 1..n /\ i + 1 \in 1..(n + 1)
      BY <2>2
    <3> QED
      BY <1>2, <1>5, <3>1
  <2> QED
    BY <2>1, <2>2
<1>9. (n + 1) + 1 = n + 2
  OBVIOUS
<1>10. Follows(way, bs, n + 1)
  BY <1>6, <1>8, <1>9 DEF Follows
<1> QED
  BY <1>1, <1>4, <1>7, <1>9, <1>10 DEF Reached

LEMMA ReachedFirst ==
  ASSUME NEW bs, NEW w, NEW st \in States, st \in Between(w)
  PROVE  Reached(bs, 0, w, st)
<1> DEFINE path == [i \in 1..1 |-> st]
<1>1. path \in [1..(0 + 1) -> States] /\ path[1] = st /\ path[0 + 1] = st
  OBVIOUS
<1>2. 1..0 = {}
  OBVIOUS
<1> HIDE DEF path
<1>3. Follows(path, bs, 0)
  BY <1>1, <1>2 DEF Follows
<1> QED
  BY <1>1, <1>3 DEF Reached

LEMMA PlacedKey ==
  ASSUME Types, Placed, OnKeyboard
  PROVE  Placed'
<1>1. PICK bytes, pos : PlacedBy(bytes, pos)
  BY DEF Placed
<1> DEFINE bs == bytes[1]
           p == pos[1]
           b == Head(queue).data
<1>2. /\ queue \in Seq(Message) /\ queue # <<>> /\ Head(queue).type = "key"
      /\ queue' = Tail(queue) /\ kb \in Keyboard /\ whole \in 0..2
      /\ UNCHANGED <<ms, lost>>
  BY DEF Types, OnKeyboard
<1>3. InBlocks(queue, bytes, pos)
  BY <1>1 DEF PlacedBy
<1>4. /\ bs \in Sent("key") /\ p \in 1..Len(bs) /\ Len(bs) \in 1..6 /\ b = bs[p]
      /\ Head(queue).ends <=> p = Len(bs)
  BY <1>2, <1>3, FirstBlock
<1>5. PICK bytes2, pos2 :
        /\ InBlocks(queue', bytes2, pos2)
        /\ p = Len(bs) => queue' = <<>> \/ pos2[1] = 1
        /\ p < Len(bs) => /\ queue' # <<>> /\ Head(queue').type = "key"
                          /\ bytes2[1] = bs /\ pos2[1] = p + 1
  BY <1>2, <1>3, FirstBlock
<1>6. kb'.state = NextState(kb.state, b) /\ kb.state \in States
  BY <1>2, OnKeyboardDef, AfterTyped DEF Keyboard
<1>7. ASSUME ~torn
      PROVE  Reached(bs, p, whole, kb'.state)
  <2>1. Reached(bs, p - 1, whole, kb.state)
    <3>1. CASE p > 1
      BY <1>1, <1>2, <1>7, <3>1 DEF PlacedBy, Inside
    <3>2. CASE p = 1
      <4>1. kb.state \in Between(whole)
        BY <1>1, <1>7, <3>2 DEF PlacedBy, Inside
      <4>2. p - 1 = 0
        BY <3>2
      <4> HIDE DEF bs, p
      <4> QED
        BY <1>6, <4>1, <4>2, ReachedFirst
    <3> QED
      BY <1>4, <3>1, <3>2
  <2> DEFINE n == p - 1
             st == kb.state
  <2>2. n \in Nat /\ n + 1 = p
    BY <1>4
  <2>3. Reached(bs, n, whole, st) /\ st \in States
    BY <1>6, <2>1
  <2>4. kb'.state = NextState(st, bs[p])
    BY <1>4, <1>6
  <2> HIDE DEF n, st, bs, p
  <2>5. Reached(bs, n + 1, whole, NextState(st, bs[n + 1]))
    BY <2>2, <2>3, ReachedNext
  <2> QED
    BY <2>2, <2>4, <2>5
<1>8. (Len(ms') + lost'.mouse) % 3 = IF Inside(queue', "mouse", pos2) THEN pos2[1] - 1 ELSE 0
  <2>1. ~Inside(queue, "mouse", pos)
    BY <1>2 DEF Inside
  <2>2. ~Inside(queue', "mouse", pos2)
    BY <1>4, <1>5 DEF Inside
  <2> QED
    BY <1>1, <1>2, <2>1, <2>2 DEF PlacedBy
<1>9. CASE p < Len(bs)
  <2>1. UNCHANGED <<torn, whole>>
    BY <1>4, <1>9 DEF OnKeyboard
  <2>2. Inside(queue', "key", pos2)
    BY <1>4, <1>5, <1>9 DEF Inside
  <2>3. bytes2[1] = bs /\ pos2[1] - 1 = p
    BY <1>4, <1>5, <1>9
  <2>4. ~torn' => Reached(bytes2[1], pos2[1] - 1, whole', kb'.state)
    <3> HIDE DEF bs, p
    <3> QED
      BY <1>7, <2>1, <2>3
  <2>5. PlacedBy(bytes2, pos2)'
    BY <1>5, <1>8, <2>2, <2>4 DEF PlacedBy
  <2> QED
    BY <2>5 DEF Placed
<1>10. CASE p = Len(bs)
  <2>1. Head(queue).ends
    BY <1>4, <1>10
  <2>2. torn' = FALSE /\ whole' = IF torn THEN 0 ELSE IF whole < 2 THEN whole + 1 ELSE 2
    BY <2>1 DEF OnKeyboard
  <2>3. ~Inside(queue', "key", pos2)
    BY <1>5, <1>10 DEF Inside
  <2>4. kb'.state \in Between(whole')
    <3>1. CASE torn
      BY <1>6, <2>2, <3>1, NextStateTyped DEF Between
    <3>2. CASE ~torn
      <4>1. PICK path : Follows(path, bs, p) /\ path[1] \in Between(whole) /\ path[p + 1] = kb'.state
        BY <1>7, <3>2 DEF Reached
      <4>2. PICK key \in Keys, down \in BOOLEAN : bs = Scancode(key, down)
        BY <1>4 DEF Sent
      <4> HIDE DEF bs, p
      <4>3. path[Len(bs) + 1] \in Between(IF whole < 2 THEN whole + 1 ELSE 2)
        BY <1>2, <1>10, <4>1, <4>2, WholeKey
      <4> QED
        BY <1>10, <2>2, <3>2, <4>1, <4>3
    <3> QED
      BY <3>1, <3>2
  <2>5. PlacedBy(bytes2, pos2)'
    BY <1>5, <1>8, <2>2, <2>3, <2>4 DEF PlacedBy
  <2> QED
    BY <2>5 DEF Placed
<1> QED
  BY <1>4, <1>9, <1>10

LEMMA NextMod3 ==
  ASSUME NEW c \in Nat, NEW p \in 1..3, c % 3 = p - 1
  PROVE  (c + 1) % 3 = IF p = 3 THEN 0 ELSE p
<1>1. p = 1 \/ p = 2 \/ p = 3
  OBVIOUS
<1>2. CASE p = 1
  BY <1>2
<1>3. CASE p = 2
  BY <1>3
<1>4. CASE p = 3
  BY <1>4
<1> QED
  BY <1>1, <1>2, <1>3, <1>4

LEMMA CountTyped ==
  ASSUME Types
  PROVE  Len(ms) \in 0..2 /\ lost.mouse \in Nat /\ Len(ms) + lost.mouse \in Nat
<1> DEFINE n == Len(ms)
           l == lost.mouse
<1>1. ms \in Seq(Octet) /\ n <= 2 /\ l \in Nat
  BY DEF Types, Begun
<1>2. n \in Nat
  BY <1>1, LenProperties
<1> HIDE DEF n, l
<1>3. n \in 0..2 /\ n + l \in Nat
  BY <1>1, <1>2
<1> QED
  BY <1>1, <1>3 DEF n, l

\* A message of a packet is read or dropped: it counts.
LEMMA PlacedPacket ==
  ASSUME Types, Placed, queue # <<>>, Head(queue).type = "mouse", queue' = Tail(queue),
         Len(ms') \in Nat, lost'.mouse \in Nat,
         (Len(ms') + lost'.mouse) % 3 = (Len(ms) + lost.mouse + 1) % 3,
         UNCHANGED <<kb, torn, whole>>
  PROVE  Placed'
<1>1. PICK bytes, pos : PlacedBy(bytes, pos)
  BY DEF Placed
<1> DEFINE bs == bytes[1]
           p == pos[1]
           c == Len(ms) + lost.mouse
           d == Len(ms') + lost'.mouse
<1>2. queue \in Seq(Message) /\ c \in Nat
  BY CountTyped DEF Types
<1>3. InBlocks(queue, bytes, pos)
  BY <1>1 DEF PlacedBy
<1>4. bs \in Sent("mouse") /\ p \in 1..3 /\ Len(bs) = 3
  BY <1>2, <1>3, FirstBlock
<1>5. PICK bytes2, pos2 :
        /\ InBlocks(Tail(queue), bytes2, pos2)
        /\ p = Len(bs) => Tail(queue) = <<>> \/ pos2[1] = 1
        /\ p < Len(bs) => /\ Tail(queue) # <<>> /\ Head(Tail(queue)).type = Head(queue).type
                          /\ bytes2[1] = bs /\ pos2[1] = p + 1
  BY <1>2, <1>3, FirstBlock
<1>6. c % 3 = p - 1
  BY <1>1, <1>4 DEF PlacedBy, Inside
<1>7. d % 3 = IF p = 3 THEN 0 ELSE p
  <2>1. d % 3 = (c + 1) % 3
    OBVIOUS
  <2> HIDE DEF c, d, p
  <2>2. (c + 1) % 3 = IF p = 3 THEN 0 ELSE p
    BY <1>2, <1>4, <1>6, NextMod3
  <2> QED
    BY <2>1, <2>2
<1>8. Inside(queue', "mouse", pos2) <=> p < 3
  BY <1>4, <1>5 DEF Inside
<1>9. d % 3 = IF Inside(queue', "mouse", pos2) THEN pos2[1] - 1 ELSE 0
  BY <1>4, <1>5, <1>7, <1>8
<1>10. ~Inside(queue, "key", pos) /\ ~Inside(queue', "key", pos2)
  BY <1>4, <1>5 DEF Inside
<1>11. PlacedBy(bytes2, pos2)'
  BY <1>1, <1>5, <1>9, <1>10 DEF PlacedBy
<1> QED
  BY <1>11 DEF Placed

LEMMA PlacedLose ==
  ASSUME Types, Placed, Lose
  PROVE  Placed'
<1>1. /\ queue \in Seq(Message) /\ queue # <<>> /\ queue' = Tail(queue)
      /\ lost \in [key : Nat, mouse : Nat] /\ kb.state \in States /\ Len(ms) \in Nat
      /\ lost' = [lost EXCEPT ![Head(queue).type] = @ + 1]
      /\ UNCHANGED <<kb, ms>>
  BY LenProperties DEF Types, Lose, Keyboard, Begun
<1>2. PICK bytes, pos : PlacedBy(bytes, pos)
  BY DEF Placed
<1>3. Head(queue).type \in {"key", "mouse"}
  BY <1>1, <1>2, FirstBlock DEF PlacedBy
<1>4. CASE Head(queue).type = "mouse"
  <2>1. lost'.mouse = lost.mouse + 1
    <3>1. lost' = [lost EXCEPT !.mouse = lost.mouse + 1]
      BY <1>1, <1>4
    <3> QED
      BY <1>1, <3>1
  <2>2. UNCHANGED <<kb, torn, whole>>
    BY <1>4 DEF Lose
  <2>3. (Len(ms') + lost'.mouse) % 3 = (Len(ms) + lost.mouse + 1) % 3
    BY <1>1, <2>1
  <2> QED
    BY <1>1, <1>4, <2>1, <2>2, <2>3, PlacedPacket
<1>5. CASE Head(queue).type = "key"
  <2> DEFINE bs == bytes[1]
             p == pos[1]
  <2>1. lost'.mouse = lost.mouse
    BY <1>1, <1>5
  <2>2. whole' = 0 /\ torn' = ~Head(queue).ends
    BY <1>5 DEF Lose
  <2>3. InBlocks(queue, bytes, pos)
    BY <1>2 DEF PlacedBy
  <2>4. p \in 1..Len(bs) /\ Len(bs) \in 1..6 /\ (Head(queue).ends <=> p = Len(bs))
    BY <1>1, <2>3, FirstBlock
  <2>5. PICK bytes2, pos2 :
          /\ InBlocks(Tail(queue), bytes2, pos2)
          /\ p = Len(bs) => Tail(queue) = <<>> \/ pos2[1] = 1
          /\ p < Len(bs) => /\ Tail(queue) # <<>> /\ Head(Tail(queue)).type = Head(queue).type
                            /\ bytes2[1] = bs /\ pos2[1] = p + 1
    BY <1>1, <2>3, FirstBlock
  <2>6. (Len(ms') + lost'.mouse) % 3 = IF Inside(queue', "mouse", pos2) THEN pos2[1] - 1 ELSE 0
    <3>1. ~Inside(queue, "mouse", pos) /\ ~Inside(queue', "mouse", pos2)
      BY <1>1, <1>5, <2>4, <2>5 DEF Inside
    <3> QED
      BY <1>1, <1>2, <2>1, <3>1 DEF PlacedBy
  <2>7. torn' <=> p < Len(bs)
    <3>1. torn' <=> ~Head(queue).ends
      BY <2>2, Zenon
    <3>2. p < Len(bs) <=> p # Len(bs)
      BY <2>4
    <3> QED
      BY <2>4, <3>1, <3>2, Zenon
  <2>8. torn' <=> Inside(queue', "key", pos2)
    BY <1>1, <1>5, <2>4, <2>5, <2>7 DEF Inside
  <2>9. kb'.state \in Between(whole')
    BY <1>1, <2>2 DEF Between
  <2>10. PlacedBy(bytes2, pos2)'
    BY <1>1, <2>5, <2>6, <2>8, <2>9 DEF PlacedBy
  <2> QED
    BY <2>10 DEF Placed
<1> QED
  BY <1>3, <1>4, <1>5

LEMMA PlacedStep == Types /\ Placed /\ [Next]_vars => Placed'
<1> SUFFICES ASSUME Types, Placed, [Next]_vars PROVE Placed'
  OBVIOUS
<1>1. ASSUME NEW key \in Keys, NEW down \in BOOLEAN, Stroke(key, down)
      PROVE  Placed'
  <2>1. Scancode(key, down) \in Sent("key")
    BY DEF Sent
  <2>2. /\ queue' = queue \o Messages("key", Scancode(key, down))
        /\ UNCHANGED <<kb, ms, lost, torn, whole>>
    BY <1>1 DEF Stroke
  <2> QED
    BY <2>1, <2>2, PlacedMore
<1>2. ASSUME NEW m \in Moves, Move(m)
      PROVE  Placed'
  <2>1. Packet(m) \in Sent("mouse")
    BY DEF Sent
  <2>2. queue' = queue \o Messages("mouse", Packet(m)) /\ UNCHANGED <<kb, ms, lost, torn, whole>>
    BY <1>2 DEF Move
  <2> QED
    BY <2>1, <2>2, PlacedMore
<1>3. CASE Lose
  BY <1>3, PlacedLose
<1>4. CASE OnKeyboard
  BY <1>4, PlacedKey
<1>5. CASE OnMouse
  <2>1. /\ queue # <<>> /\ Head(queue).type = "mouse" /\ queue' = Tail(queue)
        /\ ms' = PutMouse(ms, Head(queue).data) /\ UNCHANGED <<kb, lost, torn, whole>>
    BY <1>5 DEF OnMouse
  <2>2. Head(queue).data \in Octet
    <3>1. Head(queue) \in Message
      BY <2>1, HeadTailProperties DEF Types
    <3> QED
      BY <3>1 DEF Message
  <2>3. Len(ms') = (Len(ms) + 1) % 3
    BY <2>1, <2>2, PutMouseTyped DEF Types
  <2>4. lost.mouse \in Nat /\ Len(ms) \in Nat
    BY LenProperties DEF Types, Begun
  <2>5. (Len(ms') + lost'.mouse) % 3 = (Len(ms) + lost.mouse + 1) % 3
    <3> DEFINE a == Len(ms)
               l == lost.mouse
    <3>1. (((a + 1) % 3) + l) % 3 = (a + l + 1) % 3
      <4> HIDE DEF a, l
      <4> QED
        BY <2>4 DEF a, l
    <3> QED
      BY <2>1, <2>3, <3>1
  <2>6. Len(ms') \in Nat /\ lost'.mouse \in Nat
    BY <2>1, <2>3, <2>4
  <2> QED
    BY <2>1, <2>5, <2>6, PlacedPacket
<1>6. CASE UNCHANGED vars
  <2>1. UNCHANGED <<kb, ms, queue, lost, whole, torn>>
    BY <1>6 DEF vars
  <2>2. PICK bytes, pos : PlacedBy(bytes, pos)
    BY DEF Placed
  <2>3. PlacedBy(bytes, pos)'
    BY <2>1, <2>2 DEF PlacedBy
  <2> QED
    BY <2>3 DEF Placed
<1> QED
  BY <1>1, <1>2, <1>3, <1>4, <1>5, <1>6 DEF Next

LEMMA AlwaysPlaced == Spec => [](Types /\ Placed)
<1>1. Init => Types /\ Placed
  BY TypesInit, PlacedInit
<1>2. (Types /\ Placed) /\ [Next]_vars => (Types /\ Placed)'
  BY TypesStep, PlacedStep
<1> QED
  BY <1>1, <1>2, PTL DEF Spec

\* The keyboard decoder finds its place again: whatever messages were dropped,
\* two whole keys later it waits for the first byte of a key.
THEOREM KeyboardResyncs == Spec => []Resync
<1>1. Types /\ Placed => Resync
  <2> SUFFICES ASSUME Types, Placed, whole = 2, ~torn, ~KeysWaiting PROVE kb.state = "START"
    BY DEF Resync
  <2>1. PICK bytes, pos : PlacedBy(bytes, pos)
    BY DEF Placed
  <2>2. ~Inside(queue, "key", pos)
    <3> SUFFICES ASSUME queue # <<>> PROVE Head(queue).type # "key"
      BY DEF Inside
    <3>1. Head(queue) = queue[1] /\ 1 \in 1..Len(queue)
      BY HeadTailProperties, LenProperties, EmptySeq DEF Types
    <3> QED
      BY <3>1 DEF KeysWaiting
  <2>3. kb.state \in Between(2)
    BY <2>1, <2>2 DEF PlacedBy
  <2> QED
    BY <2>3 DEF Between
<1> QED
  BY <1>1, AlwaysPlaced, PTL

\* The mouse decoder stays shifted by what was dropped, modulo a packet, for
\* good: between packets it waits for the first byte exactly if the bytes
\* dropped make whole packets.
THEOREM MouseStaysShifted == Spec => []MousePhase
<1>1. Types /\ Placed => MousePhase
  <2> SUFFICES ASSUME Types, Placed, \A i \in 1..Len(queue) : queue[i].type # "mouse"
               PROVE  ms = <<>> <=> lost.mouse % 3 = 0
    BY DEF MousePhase
  <2>1. PICK bytes, pos : PlacedBy(bytes, pos)
    BY DEF Placed
  <2>2. ~Inside(queue, "mouse", pos)
    <3> SUFFICES ASSUME queue # <<>> PROVE Head(queue).type # "mouse"
      BY DEF Inside
    <3>1. Head(queue) = queue[1] /\ 1 \in 1..Len(queue)
      BY HeadTailProperties, LenProperties, EmptySeq DEF Types
    <3> QED
      BY <3>1
  <2> DEFINE n == Len(ms)
             l == lost.mouse
  <2>3. (n + l) % 3 = 0
    BY <2>1, <2>2 DEF PlacedBy
  <2>4. n \in 0..2 /\ l \in Nat
    BY CountTyped
  <2>5. ms = <<>> <=> n = 0
    BY EmptySeq DEF Types, Begun
  <2>6. n = 0 <=> l % 3 = 0
    <3> HIDE DEF n, l
    <3> QED
      BY <2>3, <2>4
  <2> QED
    BY <2>5, <2>6
<1> QED
  BY <1>1, AlwaysPlaced, PTL


-----------------------------------------------------------------------------
(* Modifiers and locks *)

LEMMA FirstOnes ==
  ASSUME NEW S, NEW s \in Seq(S), NEW n \in 0..Len(s)
  PROVE  SubSeq(s, 1, n) \in Seq(S) /\ Len(SubSeq(s, 1, n)) = n /\ \A i \in 1..n : SubSeq(s, 1, n)[i] = s[i]
<1>1. Len(s) \in Nat /\ \A i \in 1..Len(s) : s[i] \in S
  BY LenProperties, ElementOfSeq
<1> DEFINE u == SubSeq(s, 1, n)
<1>2. \A i \in 1..n : s[i] \in S
  BY <1>1
<1>3. u \in Seq(S) /\ Len(u) = (IF 1 <= n THEN n - 1 + 1 ELSE 0) /\ \A i \in 1..(n - 1 + 1) : u[i] = s[1 + i - 1]
  BY <1>1, <1>2, SubSeqProperties
<1> HIDE DEF u
<1>4. Len(u) = n /\ \A i \in 1..n : u[i] = s[i]
  BY <1>1, <1>3
<1> QED
  BY <1>3, <1>4 DEF u

\* One element more.
LEMMA FirstOnesNext ==
  ASSUME NEW S, NEW s \in Seq(S), NEW n \in Nat, n + 1 <= Len(s)
  PROVE  SubSeq(s, 1, n + 1) = Append(SubSeq(s, 1, n), s[n + 1])
<1> DEFINE u == SubSeq(s, 1, n)
           v == SubSeq(s, 1, n + 1)
           w == Append(u, s[n + 1])
<1>1. Len(s) \in Nat
  BY LenProperties
<1>2. n \in 0..Len(s) /\ n + 1 \in 0..Len(s) /\ n + 1 \in 1..Len(s)
  BY <1>1
<1>3. s[n + 1] \in S
  BY <1>2, ElementOfSeq
<1>4. u \in Seq(S) /\ Len(u) = n /\ \A i \in 1..n : u[i] = s[i]
  BY <1>2, FirstOnes
<1>5. v \in Seq(S) /\ Len(v) = n + 1 /\ \A i \in 1..(n + 1) : v[i] = s[i]
  BY <1>2, FirstOnes
<1> HIDE DEF u, v
<1>6. w \in Seq(S) /\ Len(w) = n + 1 /\ w[n + 1] = s[n + 1] /\ \A i \in 1..n : w[i] = u[i]
  BY <1>3, <1>4, AppendProperties
<1> HIDE DEF w
<1>7. \A i \in 1..(n + 1) : i \in 1..n \/ i = n + 1
  OBVIOUS
<1>8. \A i \in 1..Len(v) : v[i] = w[i]
  BY <1>4, <1>5, <1>6, <1>7
<1>9. v = w
  BY <1>5, <1>6, <1>8, SeqEqual
<1> QED
  BY <1>9 DEF u, v, w

\* More at the end changes nothing before it.
LEMMA FirstOnesSame ==
  ASSUME NEW S, NEW s \in Seq(S), NEW t \in Seq(S), NEW n \in 0..Len(s)
  PROVE  SubSeq(s \o t, 1, n) = SubSeq(s, 1, n)
<1> DEFINE c == s \o t
           u == SubSeq(s, 1, n)
           v == SubSeq(c, 1, n)
<1>1. /\ c \in Seq(S) /\ Len(c) = Len(s) + Len(t) /\ Len(s) \in Nat /\ Len(t) \in Nat
      /\ \A i \in 1..Len(s) : c[i] = s[i]
  BY ConcatProperties, LenProperties
<1>2. u \in Seq(S) /\ Len(u) = n /\ \A i \in 1..n : u[i] = s[i]
  BY FirstOnes
<1> HIDE DEF c
<1>3. n \in 0..Len(c)
  BY <1>1
<1>4. v \in Seq(S) /\ Len(v) = n /\ \A i \in 1..n : v[i] = c[i]
  BY <1>1, <1>3, FirstOnes
<1>5. \A i \in 1..n : i \in 1..Len(s)
  BY <1>1
<1> HIDE DEF u, v
<1>6. \A i \in 1..Len(v) : v[i] = u[i]
  BY <1>1, <1>2, <1>4, <1>5
<1>7. v = u
  BY <1>2, <1>4, <1>6, SeqEqual
<1> QED
  BY <1>7 DEF u, v, c

\* The last event decides, if it is one of the key.
LEMMA DownNext ==
  ASSUME NEW s \in Seq(Evt), NEW e \in Evt, NEW code
  PROVE  DownAfter(Append(s, e), code) <=> IF e[1] = code THEN e[2] ELSE DownAfter(s, code)
<1> DEFINE t == Append(s, e)
           n == Len(s)
           x == <<code, TRUE>>
           y == <<code, FALSE>>
<1>1. n \in Nat /\ Len(t) = n + 1 /\ t[n + 1] = e /\ \A i \in 1..n : t[i] = s[i]
  BY AppendProperties, LenProperties
<1>2. PICK c \in Nat, d \in BOOLEAN : e = <<c, d>>
  BY DEF Evt
<1>3. DownAfter(t, code) <=> \E i \in 1..(n + 1) : t[i] = x /\ \A j \in i..(n + 1) : t[j] # y
  BY <1>1 DEF DownAfter
<1>4. DownAfter(s, code) <=> \E i \in 1..n : s[i] = x /\ \A j \in i..n : s[j] # y
  BY DEF DownAfter
<1>5. /\ e = x => e[1] = code /\ e[2]
      /\ e = y => e[1] = code /\ ~e[2]
      /\ e # x /\ e # y => e[1] # code
      /\ x # y
  BY <1>2
<1> HIDE DEF t, n, x, y
<1>6. CASE e = x
  <2>1. t[n + 1] = x /\ n + 1 \in 1..(n + 1) /\ \A j \in (n + 1)..(n + 1) : t[j] # y
    BY <1>1, <1>5, <1>6
  <2>2. DownAfter(t, code)
    BY <1>3, <2>1
  <2> QED
    BY <1>5, <1>6, <2>2 DEF t
<1>7. CASE e = y
  <2>1. t[n + 1] = y /\ \A i \in 1..(n + 1) : n + 1 \in i..(n + 1)
    BY <1>1, <1>7
  <2>2. ~DownAfter(t, code)
    BY <1>3, <2>1
  <2> QED
    BY <1>5, <1>7, <2>2 DEF t
<1>8. CASE e # x /\ e # y
  <2>1. t[n + 1] # x /\ t[n + 1] # y
    BY <1>1, <1>8
  <2>2. ASSUME DownAfter(t, code) PROVE DownAfter(s, code)
    <3>1. PICK i \in 1..(n + 1) : t[i] = x /\ \A j \in i..(n + 1) : t[j] # y
      BY <1>3, <2>2
    <3>2. i \in 1..n
      BY <1>1, <2>1, <3>1
    <3>3. \A j \in i..n : j \in i..(n + 1) /\ j \in 1..n
      BY <1>1, <3>2
    <3> QED
      BY <1>1, <1>4, <3>1, <3>2, <3>3
  <2>3. ASSUME DownAfter(s, code) PROVE DownAfter(t, code)
    <3>1. PICK i \in 1..n : s[i] = x /\ \A j \in i..n : s[j] # y
      BY <1>4, <2>3
    <3>2. i \in 1..(n + 1) /\ t[i] = x
      BY <1>1, <3>1
    <3>3. \A j \in i..(n + 1) : (j \in i..n /\ j \in 1..n) \/ j = n + 1
      BY <1>1, <3>1
    <3>4. \A j \in i..(n + 1) : t[j] # y
      BY <1>1, <2>1, <3>1, <3>3
    <3> QED
      BY <1>3, <3>2, <3>4
  <2> QED
    BY <1>5, <1>8, <2>2, <2>3 DEF t
<1> QED
  BY <1>6, <1>7, <1>8

LEMMA OddNext ==
  ASSUME NEW s \in Seq(Evt), NEW e \in Evt, NEW code
  PROVE  OddAfter(Append(s, e), code) <=> IF e[1] = code /\ e[2] THEN ~OddAfter(s, code)
                                                              ELSE OddAfter(s, code)
<1> DEFINE t == Append(s, e)
           n == Len(s)
           x == <<code, TRUE>>
           A == {i \in 1..n : s[i] = x}
           B == {i \in 1..(n + 1) : t[i] = x}
           a == Cardinality(A)
<1>1. n \in Nat /\ Len(t) = n + 1 /\ t[n + 1] = e /\ \A i \in 1..n : t[i] = s[i]
  BY AppendProperties, LenProperties
<1>2. (OddAfter(s, code) <=> a % 2 = 1) /\ (OddAfter(t, code) <=> Cardinality(B) % 2 = 1)
  BY <1>1 DEF OddAfter
<1>3. IsFiniteSet(A) /\ a \in Nat
  <2>1. IsFiniteSet(1..n)
    BY <1>1, FS_Interval
  <2>2. A \subseteq 1..n
    OBVIOUS
  <2>3. IsFiniteSet(A)
    BY <2>1, <2>2, FS_Subset
  <2> QED
    BY <2>3, FS_CardinalityType
<1>4. PICK c \in Nat, d \in BOOLEAN : e = <<c, d>>
  BY DEF Evt
<1>5. e[1] = c /\ (e[2] <=> d)
  BY <1>4
<1>6. e = x <=> c = code /\ d
  BY <1>4
<1>7. CASE e = x
  <2>1. B = A \cup {n + 1} /\ n + 1 \notin A
    <3> HIDE DEF n, t, x
    <3> QED
      BY <1>1, <1>7
  <2>2. Cardinality(B) = a + 1
    <3> HIDE DEF A, B
    <3> QED
      BY <1>3, <2>1, FS_AddElement DEF a
  <2>3. (a + 1) % 2 = 1 <=> ~(a % 2 = 1)
    <3> HIDE DEF a
    <3> QED
      BY <1>3
  <2>4. OddAfter(t, code) <=> ~OddAfter(s, code)
    <3> HIDE DEF a, B, t
    <3> QED
      BY <1>2, <2>2, <2>3
  <2> QED
    BY <1>5, <1>6, <1>7, <2>4
<1>8. CASE e # x
  <2>1. B = A
    <3> HIDE DEF n, t, x
    <3> QED
      BY <1>1, <1>8
  <2>2. OddAfter(t, code) <=> OddAfter(s, code)
    BY <1>2, <2>1
  <2> QED
    BY <1>5, <1>6, <1>8, <2>2
<1> QED
  BY <1>7, <1>8


\* The decoder's flags are those of the events s.
FlagsBy(k, s) ==
  /\ k.lshift <=> DownAfter(s, LSHIFT)
  /\ k.rshift <=> DownAfter(s, RSHIFT)
  /\ k.lctrl <=> DownAfter(s, LCTRL)
  /\ ~k.rctrl
  /\ k.lalt <=> DownAfter(s, LALT)
  /\ k.ralt <=> DownAfter(s, RALT)
  /\ k.caps <=> OddAfter(s, CAPSLOCK)
  /\ k.num <=> OddAfter(s, NUMLOCK)

\* o is what event i of ts should be for hid_on_keyboard.
RightOutput(o, ts, i) ==
  LET before == SubSeq(ts, 1, i - 1)
      down(codes) == \E c \in codes : DownAfter(before, c)
  IN  o = IF ~ts[i][2] THEN Raw(ts[i][1])
          ELSE Translate(ts[i][1], down({LCTRL, LALT, RALT}), down({LSHIFT, RSHIFT}),
                         OddAfter(before, CAPSLOCK), OddAfter(SubSeq(ts, 1, i), NUMLOCK))

LEMMA FlagsSame ==
  ASSUME NEW k \in Keyboard, NEW r \in Keyboard, SameFlags(r, k), NEW s, FlagsBy(k, s)
  PROVE  FlagsBy(r, s)
BY Zenon DEF SameFlags, FlagsBy

LEMMA FlagsNext ==
  ASSUME NEW k \in Keyboard, NEW s \in Seq(Evt), NEW e \in Evt, FlagsBy(k, s)
  PROVE  FlagsBy(KeyFlags(k, e[1], e[2]), Append(s, e))
<1> DEFINE code == e[1]
           down == e[2]
           j == KeyFlags(k, code, down)
           t == Append(s, e)
<1>1. code \in Nat /\ code # RCTRL /\ down \in BOOLEAN
  BY DEF Evt
<1>2. \A c : DownAfter(t, c) <=> IF code = c THEN down ELSE DownAfter(s, c)
  BY DownNext
<1>3. \A c : OddAfter(t, c) <=> IF code = c /\ down THEN ~OddAfter(s, c) ELSE OddAfter(s, c)
  BY OddNext
<1> HIDE DEF code, down, t
<1>4. /\ j.lshift = IF code = LSHIFT THEN down ELSE k.lshift
      /\ j.rshift = IF code = RSHIFT THEN down ELSE k.rshift
      /\ j.lctrl = IF code = LCTRL THEN down ELSE k.lctrl
      /\ j.rctrl = IF code = RCTRL THEN down ELSE k.rctrl
      /\ j.lalt = IF code = LALT THEN down ELSE k.lalt
      /\ j.ralt = IF code = RALT THEN down ELSE k.ralt
      /\ j.caps = IF code = CAPSLOCK /\ down THEN ~k.caps ELSE k.caps
      /\ j.num = IF code = NUMLOCK /\ down THEN ~k.num ELSE k.num
  BY <1>1, KeyFlagsTyped
<1> HIDE DEF j
<1>5. j.lshift <=> DownAfter(t, LSHIFT)
  BY <1>2, <1>4, Zenon DEF FlagsBy
<1>6. j.rshift <=> DownAfter(t, RSHIFT)
  BY <1>2, <1>4, Zenon DEF FlagsBy
<1>7. j.lctrl <=> DownAfter(t, LCTRL)
  BY <1>2, <1>4, Zenon DEF FlagsBy
<1>8. j.lalt <=> DownAfter(t, LALT)
  BY <1>2, <1>4, Zenon DEF FlagsBy
<1>9. j.ralt <=> DownAfter(t, RALT)
  BY <1>2, <1>4, Zenon DEF FlagsBy
<1>10. ~j.rctrl
  BY <1>1, <1>4, Zenon DEF FlagsBy
<1>11. j.caps <=> OddAfter(t, CAPSLOCK)
  BY <1>3, <1>4, Zenon DEF FlagsBy
<1>12. j.num <=> OddAfter(t, NUMLOCK)
  BY <1>3, <1>4, Zenon DEF FlagsBy
<1>13. FlagsBy(j, t)
  BY <1>5, <1>6, <1>7, <1>8, <1>9, <1>10, <1>11, <1>12, Zenon DEF FlagsBy
<1> QED
  BY <1>13 DEF j, code, down, t

\* Translate depends on the truth of its arguments only.
LEMMA TranslateSame ==
  ASSUME NEW code, NEW a1 \in BOOLEAN, NEW b1 \in BOOLEAN, NEW c1 \in BOOLEAN, NEW d1 \in BOOLEAN,
         NEW a2 \in BOOLEAN, NEW b2 \in BOOLEAN, NEW c2 \in BOOLEAN, NEW d2 \in BOOLEAN,
         a1 <=> a2, b1 <=> b2, c1 <=> c2, d1 <=> d2
  PROVE  Translate(code, a1, b1, c1, d1) = Translate(code, a2, b2, c2, d2)
<1>1. a1 = a2 /\ b1 = b2 /\ c1 = c2 /\ d1 = d2
  OBVIOUS
<1> QED
  BY <1>1, Zenon

LEMMA RightNext ==
  ASSUME NEW k \in Keyboard, NEW ts \in Seq(Evt), NEW i \in 1..Len(ts), FlagsBy(k, SubSeq(ts, 1, i - 1))
  PROVE  RightOutput(ProcessKeyevent(k, ts[i][1], ts[i][2]), ts, i)
<1> DEFINE e == ts[i]
           n == i - 1
           s == SubSeq(ts, 1, n)
           t == SubSeq(ts, 1, i)
           code == e[1]
           down == e[2]
           j == KeyFlags(k, code, down)
           a1 == k.lctrl \/ k.rctrl \/ k.lalt \/ k.ralt
           b1 == k.lshift \/ k.rshift
           c1 == k.caps
           d1 == j.num
           a2 == \E c \in {LCTRL, LALT, RALT} : DownAfter(s, c)
           b2 == \E c \in {LSHIFT, RSHIFT} : DownAfter(s, c)
           c2 == OddAfter(s, CAPSLOCK)
           d2 == OddAfter(t, NUMLOCK)
<1>1. e \in Evt
  BY ElementOfSeq
<1>2. code \in Nat /\ down \in BOOLEAN
  BY <1>1 DEF Evt
<1>3. n \in Nat /\ n + 1 = i /\ n + 1 <= Len(ts) /\ n \in 0..Len(ts)
  BY LenProperties
<1>4. s \in Seq(Evt)
  BY <1>3, FirstOnes
<1>5. t = Append(s, e)
  <2> HIDE DEF n
  <2>1. SubSeq(ts, 1, n + 1) = Append(SubSeq(ts, 1, n), ts[n + 1])
    BY <1>3, FirstOnesNext
  <2> QED
    BY <1>3, <2>1
<1>6. FlagsBy(k, s)
  OBVIOUS
<1>7. FlagsBy(j, Append(s, e))
  <2> HIDE DEF s, e
  <2> QED
    BY <1>1, <1>4, <1>6, FlagsNext
<1>8. FlagsBy(j, t)
  <2> HIDE DEF s, e, t
  <2> QED
    BY <1>5, <1>7
<1> HIDE DEF s, t, e, j, code, down
<1>9. (a1 <=> a2) /\ (b1 <=> b2)
  BY <1>6, Zenon DEF FlagsBy
<1>10. c1 <=> c2
  BY <1>6, Zenon DEF FlagsBy
<1>11. d1 <=> d2
  BY <1>8, Zenon DEF FlagsBy
<1>12. a1 \in BOOLEAN /\ a2 \in BOOLEAN /\ b1 \in BOOLEAN /\ b2 \in BOOLEAN
  OBVIOUS
<1>13. c1 \in BOOLEAN /\ c2 \in BOOLEAN /\ d2 \in BOOLEAN
  BY DEF Keyboard, OddAfter
<1>14. d1 \in BOOLEAN
  <2>1. j \in Keyboard
    BY <1>2, KeyFlagsTyped DEF j
  <2> QED
    BY <2>1 DEF Keyboard
<1> HIDE DEF a1, a2, b1, b2, c1, c2, d1, d2
<1>15. Translate(code, a1, b1, c1, d1) = Translate(code, a2, b2, c2, d2)
  BY <1>9, <1>10, <1>11, <1>12, <1>13, <1>14, TranslateSame
<1>16. ProcessKeyevent(k, code, down) = IF ~down THEN Raw(code) ELSE Translate(code, a1, b1, c1, d1)
  BY Zenon DEF ProcessKeyevent, a1, b1, c1, d1, j
<1>17. ProcessKeyevent(k, code, down) = IF ~down THEN Raw(code) ELSE Translate(code, a2, b2, c2, d2)
  BY <1>15, <1>16, Zenon
<1> QED
  BY <1>17, Zenon DEF RightOutput, code, down, e, a2, b2, c2, d2, s, t, n


\* The flags are those of the events reported so far, and every event of a key
\* came with what it should be for hid_on_keyboard.
Marks ==
  /\ NoneLost => FlagsBy(kb, SubSeq(typed, 1, Len(events)))
  /\ \A i \in 1..Len(events) : RightOutput(events[i][2], typed, i)

LEMMA MarksInit == Init => Marks
<1> SUFFICES ASSUME Init PROVE Marks
  OBVIOUS
<1>1. typed = <<>> /\ events = <<>> /\ Len(events) = 0
  BY DEF Init
<1> DEFINE s == SubSeq(typed, 1, Len(events))
<1>2. s \in Seq(Evt) /\ Len(s) = 0
  <2>1. typed \in Seq(Evt) /\ 0 \in 0..Len(typed)
    BY <1>1, LenProperties
  <2>2. Len(SubSeq(typed, 1, 0)) = 0 /\ SubSeq(typed, 1, 0) \in Seq(Evt)
    BY <2>1, FirstOnes
  <2> QED
    BY <1>1, <2>2
<1> HIDE DEF s
<1>3. \A c : ~DownAfter(s, c)
  BY <1>2 DEF DownAfter
<1>4. \A c : ~OddAfter(s, c)
  <2> TAKE c
  <2>1. {i \in 1..Len(s) : s[i] = <<c, TRUE>>} = {}
    BY <1>2
  <2>2. Cardinality({}) = 0
    BY FS_EmptySet
  <2>3. ~(0 % 2 = 1)
    OBVIOUS
  <2> QED
    BY <2>1, <2>2, <2>3 DEF OddAfter
<1>5. FlagsBy(kb, s)
  <2>1. /\ ~kb.lshift /\ ~kb.rshift /\ ~kb.lctrl /\ ~kb.rctrl /\ ~kb.lalt /\ ~kb.ralt
        /\ ~kb.caps /\ ~kb.num
    BY DEF Init
  <2> QED
    BY <1>3, <1>4, <2>1 DEF FlagsBy
<1> QED
  BY <1>1, <1>5 DEF Marks, s

\* More strokes at the end change nothing for the events reported.
LEMMA RightSame ==
  ASSUME NEW ts \in Seq(Evt), NEW a \in Seq(Evt), NEW i \in 1..Len(ts), NEW o, RightOutput(o, ts, i)
  PROVE  RightOutput(o, ts \o a, i)
<1>1. i - 1 \in 0..Len(ts) /\ i \in 0..Len(ts)
  BY LenProperties
<1>2. (ts \o a)[i] = ts[i]
  BY ConcatProperties
<1>3. SubSeq(ts \o a, 1, i - 1) = SubSeq(ts, 1, i - 1)
  BY <1>1, FirstOnesSame
<1>4. SubSeq(ts \o a, 1, i) = SubSeq(ts, 1, i)
  BY <1>1, FirstOnesSame
<1> QED
  BY <1>2, <1>3, <1>4, Zenon DEF RightOutput

LEMMA MarksStroke ==
  ASSUME Types, Way, Marks, NEW key \in Keys, NEW down \in BOOLEAN, Stroke(key, down)
  PROVE  Marks'
<1> DEFINE a == News(key, down)
           n == Len(events)
<1>1. UNCHANGED <<kb, lost, events>> /\ typed' = IF NoneLost THEN typed \o a ELSE typed
  BY StrokeDef DEF Stroke, Types
<1>2. NoneLost' <=> NoneLost
  BY <1>1 DEF NoneLost
<1>3. CASE ~NoneLost
  <2>1. typed' = typed
    BY <1>1, <1>3
  <2> QED
    BY <1>1, <1>2, <1>3, <2>1 DEF Marks
<1>4. CASE NoneLost
  <2>1. typed \in Seq(Evt) /\ a \in Seq(Evt) /\ n \in 0..Len(typed)
    <3>1. PICK run : OnTheWay(run)
      BY <1>4 DEF Way
    <3>2. n <= Len(typed)
      BY <3>1, ReportedLess
    <3>3. n \in Nat /\ typed \in Seq(Evt) /\ Len(typed) \in Nat
      BY LenProperties DEF Types
    <3> QED
      BY <3>2, <3>3, NewsTyped
  <2> HIDE DEF a
  <2>2. typed' = typed \o a
    BY <1>1, <1>4
  <2>3. SubSeq(typed', 1, n) = SubSeq(typed, 1, n)
    BY <2>1, <2>2, FirstOnesSame
  <2>4. \A i \in 1..n : RightOutput(events[i][2], typed', i)
    <3> SUFFICES ASSUME NEW i \in 1..n PROVE RightOutput(events[i][2], typed', i)
      OBVIOUS
    <3>1. i \in 1..Len(typed)
      BY <2>1
    <3>2. RightOutput(events[i][2], typed, i)
      BY DEF Marks
    <3>3. RightOutput(events[i][2], typed \o a, i)
      BY <2>1, <3>1, <3>2, RightSame
    <3> QED
      BY <2>2, <3>3
  <2> QED
    BY <1>1, <1>2, <1>4, <2>3, <2>4 DEF Marks
<1> QED
  BY <1>3, <1>4

LEMMA NoMoreReported == Types /\ Way /\ NoneLost => Len(events) <= Len(typed)
<1> SUFFICES ASSUME Types, Way, NoneLost PROVE Len(events) <= Len(typed)
  OBVIOUS
<1>1. PICK run : OnTheWay(run)
  BY DEF Way
<1> QED
  BY <1>1, ReportedLess

LEMMA MarksKey ==
  ASSUME Types, Way, Marks, OnKeyboard
  PROVE  Marks'
<1> DEFINE b == Head(queue).data
           r == PutKey(kb, b).kb
           e == PutKey(kb, b).evt
           o == ProcessKeyevent(r, e[1], e[2])
           n == Len(events)
           s == SubSeq(typed, 1, n)
<1>1. /\ queue \in Seq(Message) /\ kb \in Keyboard /\ events \in Seq(Evt \X Output)
      /\ typed \in Seq(Evt) /\ n \in Nat /\ Len(typed) \in Nat
  BY LenProperties DEF Types
<1>2. /\ kb' = After(kb, b) /\ b \in Octet
      /\ e # <<>> => e \in Evt
      /\ events' = IF e # <<>> /\ NoneLost THEN Append(events, <<e, o>>) ELSE events
  BY <1>1, OnKeyboardDef
<1>3. UNCHANGED <<lost, typed>> /\ (NoneLost' <=> NoneLost)
  BY DEF OnKeyboard, NoneLost
<1>4. r \in Keyboard /\ SameFlags(r, kb)
  BY <1>1, <1>2, PutKeyStep DEF GoodStep
<1>5. kb' = IF e = <<>> THEN r ELSE KeyFlags(r, e[1], e[2])
  BY <1>2 DEF After
<1> HIDE DEF b, r, e, o
<1>6. CASE ~NoneLost
  BY <1>2, <1>3, <1>6 DEF Marks
<1>7. CASE NoneLost /\ e = <<>>
  <2>1. events' = events /\ kb' = r
    BY <1>2, <1>5, <1>7
  <2>2. FlagsBy(kb, s)
    BY <1>7 DEF Marks
  <2> HIDE DEF s
  <2>3. FlagsBy(r, s)
    BY <1>1, <1>4, <2>2, FlagsSame
  <2> QED
    BY <1>3, <1>7, <2>1, <2>3 DEF Marks, s
<1>8. CASE NoneLost /\ e # <<>>
  <2> DEFINE z == <<e, o>>
             m == n + 1
  <2>1. events' = Append(events, z) /\ events' \in Seq(Evt \X Output)
    <3>1. Types'
      BY TypesStep DEF Next
    <3> QED
      BY <1>2, <1>8, <3>1 DEF Types
  <2>2. Way'
    BY WayKey
  <2>3. NoneLost' /\ Types'
    BY <1>3, <1>8, TypesStep DEF Next
  <2>4. Reported' /\ Len(events') <= Len(typed')
    <3>1. Reported'
      BY <2>2, <2>3 DEF Way
    <3>2. (Types /\ Way /\ NoneLost)' => (Len(events) <= Len(typed))'
      BY NoMoreReported, PTL
    <3> QED
      BY <2>2, <2>3, <3>1, <3>2
  <2>5. e \in Evt
    BY <1>2, <1>8
  <2>6. Len(events') = m /\ events'[m] = z /\ \A i \in 1..n : events'[i] = events[i]
    <3>1. z \in Evt \X Output
      <4>1. e[1] \in Nat /\ e[2] \in BOOLEAN
        BY <2>5 DEF Evt
      <4>2. o \in Output
        BY <1>4, <4>1, OutputTyped DEF o
      <4> QED
        BY <2>5, <4>2
    <3> HIDE DEF z
    <3> QED
      BY <1>1, <2>1, <3>1, AppendProperties
  <2>7. m \in 1..Len(typed) /\ typed[m] = e /\ m - 1 = n /\ n + 1 <= Len(typed)
    <3>1. m \in 1..m /\ m <= Len(typed)
      BY <1>1, <1>3, <2>4, <2>6
    <3>2. events'[m][1] = typed[m]
      BY <1>3, <2>4, <2>6, <3>1 DEF Reported
    <3> QED
      BY <1>1, <2>6, <3>1, <3>2
  <2>8. FlagsBy(kb, s) /\ s \in Seq(Evt)
    <3>1. n \in 0..Len(typed)
      BY <1>1, <2>7
    <3> QED
      BY <1>1, <1>8, <3>1, FirstOnes DEF Marks
  <2>9. FlagsBy(r, s)
    <3> HIDE DEF s
    <3> QED
      BY <1>1, <1>4, <2>8, FlagsSame
  <2>10. RightOutput(o, typed, m)
    <3>1. FlagsBy(r, SubSeq(typed, 1, m - 1))
      BY <2>7, <2>9
    <3>2. RightOutput(ProcessKeyevent(r, typed[m][1], typed[m][2]), typed, m)
      <4> HIDE DEF m
      <4> QED
        BY <1>1, <1>4, <2>7, <3>1, RightNext
    <3> QED
      BY <2>7, <3>2 DEF o
  <2>11. FlagsBy(kb', SubSeq(typed, 1, m))
    <3>1. SubSeq(typed, 1, m) = Append(s, e)
      BY <1>1, <2>7, FirstOnesNext
    <3>2. kb' = KeyFlags(r, e[1], e[2])
      BY <1>5, <1>8
    <3> HIDE DEF s, m
    <3>3. FlagsBy(KeyFlags(r, e[1], e[2]), Append(s, e))
      BY <1>4, <2>5, <2>8, <2>9, FlagsNext
    <3> QED
      BY <3>1, <3>2, <3>3
  <2>12. \A i \in 1..m : RightOutput(events'[i][2], typed, i)
    <3>1. \A i \in 1..n : RightOutput(events'[i][2], typed, i)
      BY <2>6 DEF Marks
    <3>2. RightOutput(events'[m][2], typed, m)
      BY <2>6, <2>10
    <3>3. \A i \in 1..m : i \in 1..n \/ i = m
      BY <1>1
    <3> HIDE DEF m, n
    <3> QED
      BY <3>1, <3>2, <3>3
  <2> QED
    BY <1>3, <2>6, <2>11, <2>12 DEF Marks
<1> QED
  BY <1>6, <1>7, <1>8

LEMMA MarksStep == Types /\ Way /\ Marks /\ [Next]_vars => Marks'
<1> SUFFICES ASSUME Types, Way, Marks, [Next]_vars PROVE Marks'
  OBVIOUS
<1>1. ASSUME NEW key \in Keys, NEW down \in BOOLEAN, Stroke(key, down)
      PROVE  Marks'
  BY <1>1, MarksStroke
<1>2. ASSUME UNCHANGED <<kb, lost, typed, events>>
      PROVE  Marks'
  BY <1>2 DEF Marks, NoneLost
<1>3. CASE Lose
  <2>1. ~NoneLost' /\ events' = <<>>
    BY <1>3, LoseSome
  <2>2. Len(events') = 0
    BY <2>1
  <2> QED
    BY <2>1, <2>2 DEF Marks
<1>4. CASE OnKeyboard
  BY <1>4, MarksKey
<1>5. (\E m \in Moves : Move(m)) \/ OnMouse \/ UNCHANGED vars => UNCHANGED <<kb, lost, typed, events>>
  BY DEF Move, OnMouse, vars
<1> QED
  BY <1>1, <1>2, <1>3, <1>4, <1>5 DEF Next

\* A key types the character that the keys held and the locks call for, for
\* any strokes however late their messages are decoded: the flags that
\* ps2_keyboard_process_keyevent keeps are those of the keys before.
THEOREM RightCharacters == Spec => []Typed
<1>1. Init => Types /\ Way /\ Marks
  BY TypesInit, WayInit, MarksInit
<1>2. (Types /\ Way /\ Marks) /\ [Next]_vars => (Types /\ Way /\ Marks)'
  BY TypesStep, WayStep, MarksStep
<1>3. Types /\ Way /\ Marks => Typed
  BY Zenon DEF Marks, Typed, RightOutput
<1> QED
  BY <1>1, <1>2, <1>3, PTL DEF Spec

-----------------------------------------------------------------------------
(* HidInit: the inductive invariant *)

\* The labels from which hid_init still has the mouse to reset, those up to the
\* start of kb_enable_scan, and those before interrupt_device_enable.
BeforeMs == {"start", "test", "detect", "ports", "port2", "kb_init", "kb_reset", "ms_init"}
BeforeScan == BeforeMs \cup {"kb_scan", "failed"}
AtWork == BeforeScan \cup {"ms_scan", "config", "done"}

\* A port that is accepted after its device was reset has its handler.
Registered ==
  /\ pc \in {"ms_init", "kb_scan", "ms_scan", "config"} /\ 1 \in ok => 1 \in isr
  /\ pc \in {"kb_scan", "ms_scan", "config"} /\ 2 \in ok => 2 \in isr

\* The lines that are ready: those of the ports accepted so far, which all have
\* their handler.
ReadyOK ==
  /\ ready \subseteq isr
  /\ pc \in BeforeScan => ready = {}
  /\ pc = "ms_scan" => ready = ok \cap {1}
  /\ pc = "config" => ready = ok

\* What the end of hid_init and interrupt_device_enable establish.
EndOK ==
  /\ pc \in AtWork => open = {}
  /\ pc = "done" => ready = ok /\ intr = ok /\ clock = ok
  /\ pc = "running" => open = ok /\ intr = ok /\ clock = ok
  /\ pc = "no_hid" => open = {}

IInv ==
  /\ StartUpTypeOK
  /\ pc \in AtWork \cup {"running", "no_hid"}
  /\ tries < Retries
  /\ Registered
  /\ ReadyOK
  /\ EndOK
  /\ open \subseteq isr

-----------------------------------------------------------------------------
(* Reading the output buffer *)

\* in8 returns a byte and leaves bytes, whether or not one was waiting.
LEMMA ReadOneTyped ==
  ASSUME out \in Seq(Octet), last \in Octet, NEW a \in Seq(Octet), ReadOne(a)
  PROVE  out' \in Seq(Octet) /\ last' \in Octet /\ last' = Byte(a)
<1>1. out \o a \in Seq(Octet)
  OBVIOUS
<1>2. CASE out \o a = <<>>
  BY <1>2 DEF ReadOne, Byte
<1>3. CASE out \o a # <<>>
  <2>1. Head(out \o a) \in Octet /\ Tail(out \o a) \in Seq(Octet)
    BY <1>1, <1>3, HeadTailProperties
  <2> QED
    BY <2>1, <1>3 DEF ReadOne, Byte
<1> QED
  BY <1>2, <1>3

\* So does the loop that reads up to four of them.
LEMMA ReadAllTyped ==
  ASSUME out \in Seq(Octet), last \in Octet, NEW a \in Seq(Octet), ReadAll(a)
  PROVE  out' \in Seq(Octet) /\ last' \in Octet
<1> DEFINE s == out \o a
           n == IF Len(s) < 4 THEN Len(s) ELSE 4
<1>1. s \in Seq(Octet) /\ Len(s) \in Nat /\ n \in 0 .. Len(s)
  BY LenProperties
<1>2. \A i \in 1 .. Len(s) : s[i] \in Octet
  BY <1>1, ElementOfSeq
<1>3. Bytes(a) = SubSeq(s, 1, n)
  BY DEF Bytes
<1>4. out' = SubSeq(s, 5, Len(s))
  BY DEF ReadAll
<1>5. last' = IF Bytes(a) = <<>> THEN last ELSE Last(Bytes(a))
  BY DEF ReadAll
<1> HIDE DEF s, n
<1>6. SubSeq(s, 1, n) \in Seq(Octet)
  BY <1>1, <1>2, SubSeqProperties
<1>7. SubSeq(s, 5, Len(s)) \in Seq(Octet)
  BY <1>1, <1>2, SubSeqProperties
<1>8. ASSUME SubSeq(s, 1, n) # <<>>
      PROVE  Last(SubSeq(s, 1, n)) \in Octet
  <2>1. Len(SubSeq(s, 1, n)) \in 1 .. Len(SubSeq(s, 1, n))
    BY <1>6, <1>8, EmptySeq, LenProperties
  <2> QED
    BY <1>6, <2>1, ElementOfSeq DEF Last
<1> QED
  BY <1>3, <1>4, <1>5, <1>6, <1>7, <1>8

\* What the devices answer is bytes.
LEMMA AnswersTyped ==
  ASSUME NEW p \in Port, kind \in [Port -> {"good", "mute", "odd"}]
  PROVE  ResetAnswers(p) \subseteq Seq(Octet) /\ ScanAnswers(p) \subseteq Seq(Octet)
<1>1. /\ <<>> \in Seq(Octet) /\ <<ACK>> \in Seq(Octet) /\ <<RESEND>> \in Seq(Octet)
      /\ <<252>> \in Seq(Octet)
  BY DEF ACK, RESEND, Octet
<1>2. /\ <<ACK, BAT>> \in Seq(Octet) /\ <<ACK, BAT, 0>> \in Seq(Octet)
      /\ <<ACK, 252>> \in Seq(Octet) /\ <<ACK, BAT, 3>> \in Seq(Octet)
  BY DEF ACK, BAT, Octet
<1>3. kind[p] \in {"good", "mute", "odd"}
  OBVIOUS
<1>4. ResetAnswers(p) \subseteq Seq(Octet)
  BY <1>1, <1>2, <1>3 DEF ResetAnswers
<1>5. ScanAnswers(p) \subseteq Seq(Octet)
  BY <1>1, <1>3 DEF ScanAnswers
<1> QED
  BY <1>4, <1>5

-----------------------------------------------------------------------------
(* The invariant *)

\* The type invariant variable by variable.
PortsTyped ==
  /\ ok \subseteq Port /\ clock \subseteq Port /\ intr \subseteq Port /\ isr \subseteq Port
  /\ ready \subseteq Port /\ open \subseteq Port /\ sending \subseteq Port
  /\ tries \in 0 .. Retries /\ touched \in 0 .. MaxTouch
  /\ kind \in [Port -> {"good", "mute", "odd"}]
  /\ out \in Seq(Octet) /\ last \in Octet

LEMMA PortsTypedIs == StartUpTypeOK <=> PortsTyped
BY DEF StartUpTypeOK, PortsTyped, Octet

\* The rest of the invariant is about the control and the ports only.
Ctl ==
  /\ pc \in AtWork \cup {"running", "no_hid"}
  /\ tries < Retries
  /\ Registered
  /\ ReadyOK
  /\ EndOK
  /\ open \subseteq isr

LEMMA IInvParts == IInv <=> PortsTyped /\ Ctl
BY PortsTypedIs DEF IInv, Ctl

\* It holds when the firmware hands over.
LEMMA FirmwareInv == Firmware => IInv
<1> SUFFICES ASSUME Firmware PROVE PortsTyped /\ Ctl
  BY IInvParts
<1>1. PortsTyped
  <2>1. <<>> \in Seq(Octet) /\ <<30>> \in Seq(Octet)
    BY DEF Octet
  <2>2. out \in Seq(Octet)
    BY <2>1 DEF Firmware
  <2>3. clock \subseteq Port /\ intr \subseteq Port /\ ok \subseteq Port /\ 0 \in Octet
    BY DEF Firmware, Port, Octet
  <2> QED
    BY <2>2, <2>3, RetriesAssumption, MaxTouchAssumption DEF Firmware, PortsTyped
<1>2. Ctl
  BY RetriesAssumption
     DEF Firmware, Ctl, Registered, ReadyOK, EndOK, AtWork, BeforeScan, BeforeMs
<1> QED
  BY <1>1, <1>2

\* Every exchange of hid_init, and what the user does, preserves it.
LEMMA StepInv == IInv /\ [StartUpNext]_startUpVars => IInv'
<1>0. IInv' <=> PortsTyped' /\ Ctl'
  BY IInvParts, PTL
<1> SUFFICES ASSUME PortsTyped, Ctl, [StartUpNext]_startUpVars PROVE PortsTyped' /\ Ctl'
  BY IInvParts, <1>0
<1> USE RetriesAssumption, MaxTouchAssumption
<1>1. out \in Seq(Octet) /\ last \in Octet /\ kind \in [Port -> {"good", "mute", "odd"}]
  BY DEF PortsTyped
<1>2. CASE Disable
  <2>1. <<>> \in Seq(Octet) /\ ReadOne(<<>>)
    BY <1>2 DEF Disable
  <2>2. out' \in Seq(Octet) /\ last' \in Octet
    BY <1>1, <2>1, ReadOneTyped
  <2>3. PortsTyped'
    BY <1>2, <2>2 DEF Disable, PortsTyped
  <2>4. Ctl'
    BY <1>2 DEF Disable, Goto, Ctl, Registered, ReadyOK, EndOK, AtWork, BeforeScan, BeforeMs
  <2> QED
    BY <2>3, <2>4
<1>3. CASE TestController
  <2>1. PICK a \in {<<PASS>>, <<252>>, <<>>} :
               ReadOne(a) /\ pc' = IF Byte(a) = PASS THEN "detect" ELSE "failed"
    BY <1>3 DEF TestController, Goto
  <2>2. a \in Seq(Octet)
    <3>1. <<PASS>> \in Seq(Octet) /\ <<252>> \in Seq(Octet) /\ <<>> \in Seq(Octet)
      BY DEF PASS, Octet
    <3> QED
      BY <3>1
  <2>3. out' \in Seq(Octet) /\ last' \in Octet
    BY <1>1, <2>1, <2>2, ReadOneTyped
  <2>4. PortsTyped'
    BY <1>3, <2>3 DEF TestController, PortsTyped
  <2>5. Ctl'
    BY <1>3, <2>1
       DEF TestController, Ctl, Registered, ReadyOK, EndOK, AtWork, BeforeScan, BeforeMs
  <2> QED
    BY <2>4, <2>5
<1>4. CASE Detect
  <2>1. PICK a \in {<<0>>, <<CLOCK_2>>} :
               /\ ReadOne(a)
               /\ clock' = IF a = <<0>> THEN {2} ELSE {}
               /\ ok' = {1} \cup (IF (Byte(a) \div CLOCK_2) % 2 = 0 THEN {2} ELSE {})
    BY <1>4 DEF Detect
  <2>2. a \in Seq(Octet)
    <3>1. <<0>> \in Seq(Octet) /\ <<CLOCK_2>> \in Seq(Octet)
      BY DEF CLOCK_2, Octet
    <3> QED
      BY <3>1
  <2>3. out' \in Seq(Octet) /\ last' \in Octet
    BY <1>1, <2>1, <2>2, ReadOneTyped
  <2>4. clock' \subseteq Port /\ ok' \subseteq Port
    BY <2>1 DEF Port
  <2>5. PortsTyped'
    BY <1>4, <2>3, <2>4 DEF Detect, PortsTyped
  <2>6. Ctl'
    BY <1>4 DEF Detect, Goto, Ctl, Registered, ReadyOK, EndOK, AtWork, BeforeScan, BeforeMs
  <2> QED
    BY <2>5, <2>6
<1>5. ASSUME NEW p \in Port, TestPort(p)
      PROVE  PortsTyped' /\ Ctl'
  <2>1. out' \in Seq(Octet) /\ last' \in Octet /\ ok' \subseteq ok
    <3>1. CASE p \in ok
      <4>1. PICK a \in {<<0>>, <<1>>, <<>>} : ReadOne(a) /\ ok' = IF Byte(a) = 0 THEN ok ELSE ok \ {p}
        BY <1>5, <3>1 DEF TestPort
      <4>2. a \in Seq(Octet)
        <5>1. <<0>> \in Seq(Octet) /\ <<1>> \in Seq(Octet) /\ <<>> \in Seq(Octet)
          BY DEF Octet
        <5> QED
          BY <5>1
      <4>3. out' \in Seq(Octet) /\ last' \in Octet
        BY <1>1, <4>1, <4>2, ReadOneTyped
      <4> QED
        BY <4>1, <4>3
    <3>2. CASE p \notin ok
      BY <1>1, <1>5, <3>2 DEF TestPort
    <3> QED
      BY <3>1, <3>2
  <2>2. PortsTyped'
    BY <1>5, <2>1 DEF TestPort, PortsTyped
  <2>3. Ctl'
    BY <1>5, <2>1
       DEF TestPort, Goto, Ctl, Registered, ReadyOK, EndOK, AtWork, BeforeScan, BeforeMs, Port
  <2> QED
    BY <2>2, <2>3
<1>6. CASE EnablePort1
  <2>1. PortsTyped'
    BY <1>6 DEF EnablePort1, PortsTyped, Port
  <2>2. Ctl'
    BY <1>6 DEF EnablePort1, Goto, Ctl, Registered, ReadyOK, EndOK, AtWork, BeforeScan, BeforeMs
  <2> QED
    BY <2>1, <2>2
<1>7. ASSUME NEW p \in Port, NEW expected, DeviceInit(p, expected), kind' = kind,
             UNCHANGED <<tries, intr, ready, open, kind, touched>>
      PROVE  /\ PortsTyped'
             /\ isr \subseteq isr' /\ ok' \subseteq ok /\ (p \in ok' => p \in isr')
  <2>1. PICK a \in ResetAnswers(p) :
               /\ ReadAll(a)
               /\ \/ isr' = isr \cup {p} /\ UNCHANGED <<ok, clock>>
                  \/ ok' = ok \ {p} /\ clock' = clock \ {1} /\ UNCHANGED isr
    BY <1>7 DEF DeviceInit
  <2>2. a \in Seq(Octet)
    BY <1>1, <2>1, AnswersTyped
  <2>3. out' \in Seq(Octet) /\ last' \in Octet
    BY <1>1, <2>1, <2>2, ReadAllTyped
  <2>4. sending' = sending \ {p}
    BY <1>7 DEF DeviceInit
  <2>5. PortsTyped'
    BY <1>7, <2>1, <2>3, <2>4 DEF PortsTyped
  <2> QED
    BY <2>1, <2>5
<1>8. CASE KbInit
  <2>1. 1 \in Port /\ DeviceInit(1, <<ACK, BAT>>) /\ UNCHANGED <<tries, intr, ready, open, kind, touched>>
    BY <1>8 DEF KbInit, Port
  <2>2. PortsTyped' /\ isr \subseteq isr' /\ ok' \subseteq ok /\ (1 \in ok' => 1 \in isr')
    BY <2>1, <1>7
  <2>3. Ctl'
    BY <1>8, <2>2
       DEF KbInit, Goto, Ctl, Registered, ReadyOK, EndOK, AtWork, BeforeScan, BeforeMs
  <2> QED
    BY <2>2, <2>3
<1>9. CASE MsInit
  <2>1. 2 \in Port /\ DeviceInit(2, <<ACK, BAT, 0>>) /\ UNCHANGED <<tries, intr, ready, open, kind, touched>>
    BY <1>9 DEF MsInit, Port
  <2>2. PortsTyped' /\ isr \subseteq isr' /\ ok' \subseteq ok /\ (2 \in ok' => 2 \in isr')
    BY <2>1, <1>7
  <2>3. Ctl'
    BY <1>9, <2>2
       DEF MsInit, Goto, Ctl, Registered, ReadyOK, EndOK, AtWork, BeforeScan, BeforeMs
  <2> QED
    BY <2>2, <2>3
<1>10. CASE Pass
  <2>1. PortsTyped'
    BY <1>10 DEF Pass, PortsTyped
  <2>2. Ctl'
    BY <1>10 DEF Pass, Goto, Ctl, Registered, ReadyOK, EndOK, AtWork, BeforeScan, BeforeMs, PortsTyped, Port
  <2> QED
    BY <2>1, <2>2
<1>11. ASSUME NEW p \in Port, EnableScan(p)
       PROVE  PortsTyped' /\ Ctl'
  <2>1. PICK a \in ScanAnswers(p) :
               LET b == Byte(a)
                   next == IF p = 1 THEN "ms_scan" ELSE "config"
               IN  /\ ReadOne(a)
                   /\ sending' = IF a = <<ACK>> THEN sending \cup {p} ELSE sending
                   /\ \/ /\ TryAgain(b, tries)
                         /\ tries' = (tries + 1) % Retries
                         /\ UNCHANGED <<pc, ok, ready>>
                      \/ /\ ~TryAgain(b, tries)
                         /\ tries' = 0
                         /\ pc' = next
                         /\ ok' = IF b = ACK THEN ok ELSE ok \ {p}
                         /\ ready' = IF b = ACK THEN ready \cup {p} ELSE ready
    BY <1>11 DEF EnableScan, Goto
  <2>2. a \in Seq(Octet)
    BY <1>1, <2>1, AnswersTyped
  <2>3. out' \in Seq(Octet) /\ last' \in Octet
    BY <1>1, <2>1, <2>2, ReadOneTyped
  <2>4. sending' \subseteq Port
    BY <2>1 DEF PortsTyped
  <2>5. CASE UNCHANGED <<pc, ok, ready>> /\ tries + 1 < Retries /\ tries' = (tries + 1) % Retries
    <3>1. tries' \in 0 .. Retries /\ tries' < Retries
      BY <2>5 DEF PortsTyped
    <3>2. PortsTyped'
      BY <1>11, <2>3, <2>4, <2>5, <3>1 DEF EnableScan, PortsTyped
    <3>3. Ctl'
      BY <1>11, <2>5, <3>1
         DEF EnableScan, Ctl, Registered, ReadyOK, EndOK, AtWork, BeforeScan, BeforeMs
    <3> QED
      BY <3>2, <3>3
  <2>6. CASE /\ tries' = 0
             /\ pc' = IF p = 1 THEN "ms_scan" ELSE "config"
             /\ \/ ok' = ok /\ ready' = ready \cup {p}
                \/ ok' = ok \ {p} /\ ready' = ready
    <3>1. PortsTyped'
      BY <1>11, <2>3, <2>4, <2>6 DEF EnableScan, PortsTyped
    <3>2. UNCHANGED <<intr, clock, isr, open>> /\ p \in ok /\ pc = (IF p = 1 THEN "kb_scan" ELSE "ms_scan")
      BY <1>11 DEF EnableScan
    <3>3. p \in isr /\ isr' = isr
      BY <3>2 DEF Ctl, Registered, Port
    <3>4. Registered' /\ EndOK' /\ pc' \in AtWork /\ open' \subseteq isr' /\ tries' < Retries
      BY <2>6, <3>2, <3>3 DEF Ctl, Registered, EndOK, AtWork, BeforeScan, BeforeMs
    <3>5. ready' \subseteq isr'
      BY <2>6, <3>3 DEF Ctl, ReadyOK
    <3>6. CASE p = 1
      <4>1. ready = {} /\ pc' = "ms_scan"
        BY <2>6, <3>2, <3>6 DEF Ctl, ReadyOK, BeforeScan
      <4>2. ready' = ok' \cap {1}
        BY <2>6, <3>2, <3>6, <4>1
      <4> QED
        BY <3>4, <3>5, <4>1, <4>2, <3>1 DEF Ctl, ReadyOK, BeforeScan, BeforeMs
    <3>7. CASE p = 2
      <4>1. ready = ok \cap {1} /\ pc' = "config" /\ ok \subseteq Port
        BY <2>6, <3>2, <3>7 DEF Ctl, ReadyOK, PortsTyped
      <4>2. ready' = ok'
        BY <2>6, <3>2, <3>7, <4>1 DEF Port
      <4> QED
        BY <3>4, <3>5, <4>1, <4>2, <3>1 DEF Ctl, ReadyOK, BeforeScan, BeforeMs
    <3> QED
      BY <3>6, <3>7 DEF Port
  <2> QED
    BY <2>1, <2>5, <2>6 DEF TryAgain
<1>12. CASE Config
  <2>1. PortsTyped'
    BY <1>12 DEF Config, PortsTyped
  <2>2. Ctl'
    BY <1>12 DEF Config, Goto, Ctl, Registered, ReadyOK, EndOK, AtWork, BeforeScan, BeforeMs
  <2> QED
    BY <2>1, <2>2
<1>13. CASE DeviceEnable
  <2>1. PortsTyped'
    BY <1>13 DEF DeviceEnable, PortsTyped
  <2>2. Ctl'
    BY <1>13 DEF DeviceEnable, Goto, Ctl, Registered, ReadyOK, EndOK, AtWork, BeforeScan, BeforeMs
  <2> QED
    BY <2>1, <2>2
<1>14. ASSUME NEW p \in Port, User(p)
       PROVE  PortsTyped' /\ Ctl'
  <2>1. Touch(p) \in Octet
    BY DEF Touch, Octet
  <2>2. out' \in Seq(Octet)
    BY <1>1, <1>14, <2>1, AppendProperties DEF User
  <2>3. PortsTyped'
    BY <1>14, <2>2 DEF User, PortsTyped
  <2>4. Ctl'
    BY <1>14 DEF User, Ctl, Registered, ReadyOK, EndOK, AtWork, BeforeScan, BeforeMs
  <2> QED
    BY <2>3, <2>4
<1>15. CASE UNCHANGED startUpVars
  BY <1>15 DEF startUpVars, PortsTyped, Ctl, Registered, ReadyOK, EndOK
<1> QED
  BY <1>2, <1>3, <1>4, <1>5, <1>6, <1>8, <1>9, <1>10, <1>11, <1>12, <1>13, <1>14, <1>15
     DEF StartUpNext, HidInit

-----------------------------------------------------------------------------
(* HidInit: the theorem *)

LEMMA Inductive == StartUp => []IInv
BY FirmwareInv, StepInv, PTL DEF StartUp

\* hid_init ends with the lines that interrupt_device_enable lets in being those
\* of the ports that are accepted, enabled and raise interrupts, each with the
\* handler that interrupt_register_isr registered, whatever the devices answer.
THEOREM AgreeAtEnd == StartUp => []Consistent
<1>1. IInv => Consistent
  BY DEF IInv, EndOK, Consistent
<1> QED
  BY <1>1, Inductive, PTL
=============================================================================
