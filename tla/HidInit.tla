------------------------------- MODULE HidInit ------------------------------
(***************************************************************************)
(* hid_init of kernel/src/arch/x86_64/drivers/ps2_hid.c: it tests and      *)
(* configures the PS/2 controller by polling, resets the keyboard on port  *)
(* 1 and the mouse on port 2, makes them send and unmasks the interrupts   *)
(* of those that answered, which interrupt_device_enable then lets in.     *)
(*                                                                         *)
(* The controller and the devices are external.  Their bytes wait in out;  *)
(* wait_for_output gives up after a while, and reading the empty port      *)
(* repeats the last byte.  A device is "good", "mute" or "odd" (it answers *)
(* with other bytes), and the user may touch it at any time.               *)
(***************************************************************************)
EXTENDS Integers, Sequences, FiniteSets, SequencesExt

CONSTANTS
  Retries,     \* attempts of kb_enable_scan and ms_enable_scan (10 in the code)
  MaxTouch     \* bound: bytes the devices send because of the user

ASSUME RetriesAssumption == Retries \in Nat \ {0}
ASSUME MaxTouchAssumption == MaxTouch \in Nat

VARIABLES
  pc,          \* the next exchange of hid_init
  ok,          \* the ports whose flag, p1 or p2, is set
  tries,       \* i of the loops in kb_enable_scan and ms_enable_scan
  clock,       \* the ports the controller has enabled
  intr,        \* the ports whose bytes raise an interrupt
  out,         \* the bytes that wait in the output buffer
  last,        \* the byte read last
  isr,         \* the ports whose handler interrupt_register_isr has registered
  ready,       \* the ports whose line is not set in g_mask
  open,        \* the ports whose line the interrupt controller lets in
  kind,        \* the devices
  sending,     \* the devices that report what the user does
  touched      \* history: the bytes sent because of the user

startUpVars == <<pc, ok, tries, clock, intr, out, last, isr, ready, open, kind, sending, touched>>

Port == {1, 2}

ACK == 250
RESEND == 254
BAT == 170         \* self test passed
PASS == 85         \* controller test passed
CLOCK_2 == 32      \* bit of the configuration byte: port 2 is disabled
Touch(p) == IF p = 1 THEN 30 ELSE 8

\* in8(OUTPUT) after the answer a, where it finds at most one byte.
Byte(a) == IF out \o a = <<>> THEN last ELSE Head(out \o a)
ReadOne(a) ==
  /\ last' = Byte(a)
  /\ out' = IF out \o a = <<>> THEN <<>> ELSE Tail(out \o a)

\* The loop of read_device_type_reset: at most four bytes.
Bytes(a) == SubSeq(out \o a, 1, IF Len(out \o a) < 4 THEN Len(out \o a) ELSE 4)
ReadAll(a) ==
  /\ last' = IF Bytes(a) = <<>> THEN last ELSE Last(Bytes(a))
  /\ out' = SubSeq(out \o a, 5, Len(out \o a))

-----------------------------------------------------------------------------
(* Answers (external) *)

ResetAnswers(p) ==
  IF p \notin clock THEN {<<>>}
  ELSE CASE kind[p] = "good" -> {IF p = 1 THEN <<ACK, BAT>> ELSE <<ACK, BAT, 0>>}
         [] kind[p] = "mute" -> {<<>>}
         [] kind[p] = "odd"  -> {<<ACK, 252>>, <<ACK>>, <<RESEND>>, <<ACK, BAT, 3>>}

\* A good device asks for at most one repetition.
ScanAnswers(p) ==
  IF p \notin clock THEN {<<>>}
  ELSE CASE kind[p] = "good" -> {<<ACK>>} \cup (IF tries = 0 THEN {<<RESEND>>} ELSE {})
         [] kind[p] = "mute" -> {<<>>}
         [] kind[p] = "odd"  -> {<<RESEND>>, <<252>>}

-----------------------------------------------------------------------------
(* hid_init *)

Goto(l) == pc' = l

\* The ports are disabled and the output buffer is read once.
Disable ==
  /\ pc = "start"
  /\ Goto("test")
  /\ clock' = {}
  /\ ReadOne(<<>>)
  /\ UNCHANGED <<ok, tries, intr, isr, ready, open, kind, sending, touched>>

\* The controller tests itself, or hid_init returns; ports and interrupts are
\* then switched off in the configuration byte.
TestController ==
  /\ pc = "test"
  /\ \E a \in {<<PASS>>, <<252>>, <<>>} : ReadOne(a) /\ Goto(IF Byte(a) = PASS THEN "detect" ELSE "failed")
  /\ intr' = IF pc' = "detect" THEN {} ELSE intr
  /\ UNCHANGED <<ok, tries, clock, isr, ready, open, kind, sending, touched>>

\* Port 2 is enabled; if it exists, the configuration byte says that it is.
Detect ==
  /\ pc = "detect"
  /\ \E a \in {<<0>>, <<CLOCK_2>>} :
       /\ ReadOne(a)
       /\ clock' = IF a = <<0>> THEN {2} ELSE {}
       /\ ok' = {1} \cup (IF (Byte(a) \div CLOCK_2) % 2 = 0 THEN {2} ELSE {})
  /\ Goto("ports")
  /\ UNCHANGED <<tries, intr, isr, ready, open, kind, sending, touched>>

\* The test of port 1, then that of port 2 if it was found.
TestPort(p) ==
  /\ pc = IF p = 1 THEN "ports" ELSE "port2"
  /\ IF p \in ok THEN \E a \in {<<0>>, <<1>>, <<>>} : ReadOne(a) /\ ok' = IF Byte(a) = 0 THEN ok ELSE ok \ {p}
                 ELSE UNCHANGED <<ok, out, last>>
  /\ Goto(IF p = 1 THEN "port2" ELSE "kb_init")
  /\ UNCHANGED <<tries, clock, intr, isr, ready, open, kind, sending, touched>>

\* The device is reset.  If it does not answer as expected, port 1 is disabled,
\* also when it is the mouse.
DeviceInit(p, expected) ==
  /\ \E a \in ResetAnswers(p) :
       /\ ReadAll(a)
       /\ IF Bytes(a) = expected
            THEN isr' = isr \cup {p} /\ UNCHANGED <<ok, clock>>
            ELSE ok' = ok \ {p} /\ clock' = clock \ {1} /\ UNCHANGED isr
  /\ sending' = sending \ {p}

EnablePort1 ==
  /\ pc = "kb_init" /\ 1 \in ok
  /\ clock' = clock \cup {1}
  /\ Goto("kb_reset")
  /\ UNCHANGED <<ok, tries, intr, out, last, isr, ready, open, kind, sending, touched>>

KbInit ==
  /\ pc = "kb_reset"
  /\ DeviceInit(1, <<ACK, BAT>>)
  /\ Goto("ms_init")
  /\ UNCHANGED <<tries, intr, ready, open, kind, touched>>

MsInit ==
  /\ pc = "ms_init" /\ 2 \in ok
  /\ DeviceInit(2, <<ACK, BAT, 0>>)
  /\ Goto("kb_scan")
  /\ UNCHANGED <<tries, intr, ready, open, kind, touched>>

\* A device that was not accepted is passed over.
Pass ==
  /\ \/ pc = "kb_init" /\ 1 \notin ok /\ Goto("ms_init")
     \/ pc = "ms_init" /\ 2 \notin ok /\ Goto("kb_scan")
     \/ pc = "kb_scan" /\ 1 \notin ok /\ Goto("ms_scan")
     \/ pc = "ms_scan" /\ 2 \notin ok /\ Goto("config")
  /\ UNCHANGED <<ok, tries, clock, intr, out, last, isr, ready, open, kind, sending, touched>>

\* Fault: a request to repeat is always answered, or never.
TryAgainAlways(b, i) == b = RESEND
TryAgainNever(b, i) == FALSE

\* The loops give a device a number of attempts.
TryAgain(b, i) == b = RESEND /\ i + 1 < Retries

\* One round of kb_enable_scan or ms_enable_scan, and pic_mark_irq_as_ready
\* when the device agrees.
EnableScan(p) ==
  /\ pc = (IF p = 1 THEN "kb_scan" ELSE "ms_scan") /\ p \in ok
  /\ \E a \in ScanAnswers(p) :
       LET b == Byte(a)
           next == IF p = 1 THEN "ms_scan" ELSE "config"
       IN  /\ ReadOne(a)
           /\ sending' = IF a = <<ACK>> THEN sending \cup {p} ELSE sending
           /\ \/ /\ TryAgain(b, tries)
                 /\ tries' = (tries + 1) % Retries
                 /\ UNCHANGED <<pc, ok, ready>>
              \/ /\ ~TryAgain(b, tries)
                 /\ tries' = 0
                 /\ Goto(next)
                 /\ ok' = IF b = ACK THEN ok ELSE ok \ {p}
                 /\ ready' = IF b = ACK THEN ready \cup {p} ELSE ready
  /\ UNCHANGED <<clock, intr, isr, open, kind, touched>>

\* Fault: the ports stay enabled whether or not a device was accepted.
ConfigKeepsClock ==
  /\ pc = "config"
  /\ intr' = ok
  /\ clock' = Port
  /\ Goto("done")
  /\ UNCHANGED <<ok, tries, out, last, isr, ready, open, kind, sending, touched>>

\* The final configuration byte: a port raises interrupts or is disabled.
Config ==
  /\ pc = "config"
  /\ intr' = ok
  /\ clock' = ok
  /\ Goto("done")
  /\ UNCHANGED <<ok, tries, out, last, isr, ready, open, kind, sending, touched>>

\* interrupt_device_enable, which kmain calls next: pic_enable_int
DeviceEnable ==
  /\ pc \in {"done", "failed"}
  /\ open' = ready
  /\ Goto(IF pc = "done" THEN "running" ELSE "no_hid")
  /\ UNCHANGED <<ok, tries, clock, intr, out, last, isr, ready, kind, sending, touched>>

-----------------------------------------------------------------------------
\* The user presses a key or moves the mouse while it is being set up.
User(p) ==
  /\ pc \notin {"running", "no_hid"}
  /\ touched < MaxTouch
  /\ p \in sending /\ p \in clock
  /\ out' = Append(out, Touch(p))
  /\ touched' = touched + 1
  /\ UNCHANGED <<pc, ok, tries, clock, intr, last, isr, ready, open, kind, sending>>

\* The firmware leaves the devices in any state, and a byte unread.
Firmware ==
  /\ pc = "start" /\ ok = {1} /\ tries = 0
  /\ clock \in {{}, Port} /\ intr \in SUBSET clock
  /\ out \in {<<>>, <<30>>} /\ last = 0
  /\ isr = {} /\ ready = {} /\ open = {}
  /\ kind \in [Port -> {"good", "mute", "odd"}]
  /\ sending \in SUBSET Port /\ touched = 0

HidInit ==
  \/ Disable \/ TestController \/ Detect \/ \E p \in Port : TestPort(p)
  \/ EnablePort1 \/ KbInit \/ MsInit \/ Pass \/ \E p \in Port : EnableScan(p)
  \/ Config \/ DeviceEnable

StartUpNext == HidInit \/ \E p \in Port : User(p)

StartUp == Firmware /\ [][StartUpNext]_startUpVars /\ WF_startUpVars(HidInit)

-----------------------------------------------------------------------------
(* Properties *)

\* Every variable has its type: the bytes are bytes, the loops end at Retries.
StartUpTypeOK ==
  /\ \A s \in {ok, clock, intr, isr, ready, open, sending} : s \subseteq Port
  /\ tries \in 0 .. Retries /\ touched \in 0 .. MaxTouch
  /\ kind \in [Port -> {"good", "mute", "odd"}]
  /\ out \in Seq(0 .. 255) /\ last \in 0 .. 255

\* Whatever the devices answer, a line is let in only with its handler
\* registered, and in the end for exactly the ports that are accepted, enabled
\* and raise interrupts; if the controller fails, for none.
Consistent ==
  /\ StartUpTypeOK
  /\ open \subseteq isr
  /\ pc = "running" => open = ok /\ intr = ok /\ clock = ok
  /\ pc = "no_hid" => open = {}

\* A good mouse that passed its port's test is accepted if nobody touches the
\* devices, whatever the keyboard does; a good keyboard if the mouse is good
\* or missing.  No byte is left then that would keep interrupts from coming.
Accepted ==
  \A p \in Port :
    /\ pc = "kb_init" /\ p \in ok /\ kind[p] = "good"
    /\ p = 1 => 2 \notin ok \/ kind[2] = "good"
    ~> touched > 0 \/ (pc = "running" /\ p \in open /\ out = <<>>)

\* hid_init ends, whatever the devices and the user do.
Ends == <>(pc \in {"running", "no_hid"})
=============================================================================
