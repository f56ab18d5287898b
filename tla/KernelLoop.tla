----------------------------- MODULE KernelLoop -----------------------------
(***************************************************************************)
(* The main loop of kmain and the two device interrupts that preempt it.   *)
(*                                                                         *)
(* kmain sleeps with "sti; hlt", and when an interrupt wakes it takes the  *)
(* messages from g_intr_queue one by one, with interrupts disabled while   *)
(* it pops and enabled while it handles the message; when the queue is     *)
(* empty it repaints, interrupts still disabled, and sleeps again.  The    *)
(* keyboard and mouse handlers read the byte from the PS/2 controller,     *)
(* push a message or drop it when the queue is full, and acknowledge the   *)
(* interrupt at the two 8259 controllers.  The handlers run through        *)
(* interrupt gates, with interrupts disabled until iretq.                  *)
(*                                                                         *)
(* There is one processor.  A step of kmain is the piece of code an        *)
(* interrupt cannot divide or that does not touch what a handler touches.  *)
(* A byte is represented by the position at which it left its device.      *)
(***************************************************************************)
EXTENDS Integers, Sequences, RingBuffer

CONSTANTS
  QueueSize,   \* INTR_QUEUE_SIZE
  MaxBytes     \* bound: how many bytes the devices send

ASSUME QueueAssumption == QueueSize \in Nat \ {0} /\ MaxBytes \in Nat

VARIABLES
  pc,          \* where kmain is
  intr,        \* the interrupt flag of the processor
  isr,         \* the device whose handler is running, or "none"
  ipc,         \* where that handler is
  code,        \* its local variable
  rb,          \* g_intr_queue
  buffer,      \* g_msg_buffer
  slot,        \* the slot ringbuffer_pop is about to read
  msg,         \* kmain's local variable
  obf,         \* the output buffer of the PS/2 controller, or NoByte
  irr,         \* the interrupt lines that request service
  inService,   \* the interrupt lines that wait for an EOI
  sent,        \* history: sent[n] is the device byte n came from
  accepted,    \* history: the messages the queue accepted
  dropped,     \* history: the messages that found the queue full
  handled,     \* history: the messages dispatched
  shown        \* history: how many of them the screen reflects

mainVars == <<pc, slot, msg, handled, shown>>
isrVars == <<isr, ipc, code>>
devVars == <<obf, irr, inService, sent>>
queueVars == <<rb, buffer, accepted, dropped>>
vars == <<mainVars, isrVars, devVars, queueVars, intr>>

Devices == {"keyboard", "mouse"}
NoByte == 0
Msg == [type : Devices, data : 1..MaxBytes]
NoMsg == [type |-> "none", data |-> NoByte]

Slave == 2                                               \* PIC_IRQ_SLAVE
Irq(d) == IF d = "keyboard" THEN 1 ELSE 12

Init ==
  /\ pc = "sleep"
  /\ intr = FALSE
  /\ isr = "none"
  /\ ipc = "none"
  /\ code = NoByte
  /\ rb = RingInit(QueueSize)
  /\ buffer = [i \in 0..(QueueSize - 1) |-> NoMsg]
  /\ slot = 0
  /\ msg = NoMsg
  /\ obf = NoByte
  /\ irr = {}
  /\ inService = {}
  /\ sent = <<>>
  /\ accepted = <<>>
  /\ dropped = <<>>
  /\ handled = <<>>
  /\ shown = 0

-----------------------------------------------------------------------------
(* The devices and the two interrupt controllers (external) *)

\* A device puts its next byte into the empty output buffer, and the PS/2
\* controller raises the device's line.
Send(d) ==
  /\ obf = NoByte
  /\ Len(sent) < MaxBytes
  /\ sent' = Append(sent, d)
  /\ obf' = Len(sent')
  /\ irr' = irr \cup {Irq(d)}
  /\ UNCHANGED <<mainVars, isrVars, queueVars, intr, inService>>

\* The lines that go into service with an interrupt of line q, and the lines
\* that hold it back: lower numbers have priority, and the slave's lines
\* come in at line Slave of the master.
Lines(q) == IF q < 8 THEN {q} ELSE {Slave, q}
Blocks(q) == IF q < 8 THEN 0..q ELSE 0..Slave \cup 8..q

\* The processor takes the interrupt between two instructions; hlt ends.
Deliver(d) ==
  /\ Irq(d) \in irr
  /\ intr
  /\ isr = "none"
  /\ inService \cap Blocks(Irq(d)) = {}
  /\ irr' = irr \ {Irq(d)}
  /\ inService' = inService \cup Lines(Irq(d))
  /\ isr' = d
  /\ ipc' = "in8"
  /\ intr' = FALSE
  /\ pc' = IF pc = "hlt" THEN "cli" ELSE pc
  /\ UNCHANGED <<code, slot, msg, handled, shown, obf, sent, queueVars>>

-----------------------------------------------------------------------------
(* The interrupt handlers isr_impl_keyboard and isr_impl_mouse *)

\* Fault: the byte is left in the controller when there is no room for it.
IsrReadIfRoom ==
  /\ ipc = "in8"
  /\ code' = IF IsFull(rb) THEN NoByte ELSE obf
  /\ obf' = IF IsFull(rb) THEN obf ELSE NoByte
  /\ ipc' = "push"
  /\ UNCHANGED <<mainVars, queueVars, intr, isr, irr, inService, sent>>

\* in8(OUTPUT)
IsrRead ==
  /\ ipc = "in8"
  /\ code' = obf
  /\ obf' = NoByte
  /\ ipc' = "push"
  /\ UNCHANGED <<mainVars, queueVars, intr, isr, irr, inService, sent>>

\* Fault: the oldest message is overwritten when the queue is full.
IsrPushOverwrites ==
  LET m == [type |-> isr, data |-> code]
  IN  /\ ipc = "push"
      /\ buffer' = [buffer EXCEPT ![rb.tail] = m]
      /\ rb' = Pushed(rb)
      /\ accepted' = Append(accepted, m)
      /\ ipc' = "eoi"
      /\ UNCHANGED <<mainVars, devVars, intr, isr, code, dropped>>

\* Fault: the queue is taken for full one message too early.
IsrPushEarlyFull ==
  LET m == [type |-> isr, data |-> code]
  IN  /\ ipc = "push"
      /\ \/ /\ rb.count + 1 >= rb.maxlen
            /\ dropped' = Append(dropped, m)
            /\ UNCHANGED <<rb, buffer, accepted>>
         \/ /\ rb.count + 1 < rb.maxlen
            /\ buffer' = [buffer EXCEPT ![rb.tail] = m]
            /\ rb' = Pushed(rb)
            /\ accepted' = Append(accepted, m)
            /\ UNCHANGED dropped
      /\ ipc' = "eoi"
      /\ UNCHANGED <<mainVars, devVars, intr, isr, code>>

\* Fault: messages of either handler carry the keyboard's type.
IsrPushWrongType ==
  LET m == [type |-> "keyboard", data |-> code]
  IN  /\ ipc = "push"
      /\ \/ /\ IsFull(rb)
            /\ dropped' = Append(dropped, m)
            /\ UNCHANGED <<rb, buffer, accepted>>
         \/ /\ ~IsFull(rb)
            /\ buffer' = [buffer EXCEPT ![rb.tail] = m]
            /\ rb' = Pushed(rb)
            /\ accepted' = Append(accepted, m)
            /\ UNCHANGED dropped
      /\ ipc' = "eoi"
      /\ UNCHANGED <<mainVars, devVars, intr, isr, code>>

\* intr_queue_push; its result is ignored.
IsrPush ==
  LET m == [type |-> isr, data |-> code]
  IN  /\ ipc = "push"
      /\ \/ /\ IsFull(rb)
            /\ dropped' = Append(dropped, m)
            /\ UNCHANGED <<rb, buffer, accepted>>
         \/ /\ ~IsFull(rb)
            /\ buffer' = [buffer EXCEPT ![rb.tail] = m]
            /\ rb' = Pushed(rb)
            /\ accepted' = Append(accepted, m)
            /\ UNCHANGED dropped
      /\ ipc' = "eoi"
      /\ UNCHANGED <<mainVars, devVars, intr, isr, code>>

\* pic_send_eoi: the lines a specific EOI for q takes out of service.
Eoi(q) == IF q < 8 THEN {q} ELSE {Slave, q}

\* pic_send_eoi, and iretq restores the flags of the interrupted code, which
\* had interrupts enabled.
IsrEoi ==
  /\ ipc = "eoi"
  /\ inService' = inService \ Eoi(Irq(isr))
  /\ isr' = "none"
  /\ ipc' = "none"
  /\ code' = NoByte
  /\ intr' = TRUE
  /\ UNCHANGED <<mainVars, queueVars, obf, irr, sent>>

-----------------------------------------------------------------------------
(* kmain *)

\* kmain is at l and no handler runs.
At(l) == pc = l /\ isr = "none"

\* Fault: "sti" takes effect before "hlt", so an interrupt can come between.
HaltDivided ==
  /\ At("sleep")
  /\ pc' = IF intr THEN "hlt" ELSE "sleep"
  /\ intr' = TRUE
  /\ UNCHANGED <<slot, msg, handled, shown, isrVars, devVars, queueVars>>

\* interrupt_enable_and_wait: "sti" takes effect after the instruction that
\* follows it, so that no interrupt comes between "sti" and "hlt".
Halt ==
  /\ At("sleep")
  /\ pc' = "hlt"
  /\ intr' = TRUE
  /\ UNCHANGED <<slot, msg, handled, shown, isrVars, devVars, queueVars>>

\* Fault: the queue is read with interrupts enabled.
DisableForgotten ==
  /\ At("cli")
  /\ pc' = "pop"
  /\ UNCHANGED <<intr, slot, msg, handled, shown, isrVars, devVars, queueVars>>

\* interrupt_disable, at the top of the inner loop.
Disable ==
  /\ At("cli")
  /\ pc' = "pop"
  /\ intr' = FALSE
  /\ UNCHANGED <<slot, msg, handled, shown, isrVars, devVars, queueVars>>

\* intr_queue_try_pop returns false and the inner loop ends.
PopEmpty ==
  /\ At("pop")
  /\ IsEmpty(rb)
  /\ pc' = "draw"
  /\ UNCHANGED <<slot, msg, handled, shown, intr, isrVars, devVars, queueVars>>

\* intr_queue_try_pop frees the slot ...
PopIndex ==
  /\ At("pop")
  /\ ~IsEmpty(rb)
  /\ slot' = rb.head
  /\ rb' = Popped(rb)
  /\ pc' = "read"
  /\ UNCHANGED <<msg, handled, shown, intr, isrVars, devVars, buffer, accepted, dropped>>

\* ... and then copies it.
PopRead ==
  /\ At("read")
  /\ msg' = buffer[slot]
  /\ pc' = "sti"
  /\ UNCHANGED <<slot, handled, shown, intr, isrVars, devVars, queueVars>>

Enable ==
  /\ At("sti")
  /\ pc' = "dispatch"
  /\ intr' = TRUE
  /\ UNCHANGED <<slot, msg, handled, shown, isrVars, devVars, queueVars>>

\* Fault: one message per interrupt.
DispatchOnce ==
  /\ At("dispatch")
  /\ handled' = Append(handled, msg)
  /\ pc' = "draw"
  /\ UNCHANGED <<slot, msg, shown, intr, isrVars, devVars, queueVars>>

\* dispatch_intr_msg; what the handlers do to the windows is abstracted to
\* the fact that the screen has to be repainted.
Dispatch ==
  /\ At("dispatch")
  /\ handled' = Append(handled, msg)
  /\ pc' = "cli"
  /\ UNCHANGED <<slot, msg, shown, intr, isrVars, devVars, queueVars>>

\* gui_draw_all
Draw ==
  /\ At("draw")
  /\ shown' = Len(handled)
  /\ pc' = "sleep"
  /\ UNCHANGED <<slot, msg, handled, intr, isrVars, devVars, queueVars>>

-----------------------------------------------------------------------------

Main == Halt \/ Disable \/ PopEmpty \/ PopIndex \/ PopRead \/ Enable \/ Dispatch \/ Draw

Isr == IsrRead \/ IsrPush \/ IsrEoi

Next == Main \/ Isr \/ \E d \in Devices : Send(d) \/ Deliver(d)

Spec == Init /\ [][Next]_vars

\* The processor executes kmain and the handlers, and takes an interrupt that
\* stays possible; the devices need not send anything.
FairSpec ==
  /\ Spec
  /\ WF_vars(Main)
  /\ WF_vars(Isr)
  /\ \A d \in Devices : WF_vars(Deliver(d))

-----------------------------------------------------------------------------
(* Properties *)

\* Every variable has its type.
TypeOK ==
  /\ pc \in {"sleep", "hlt", "cli", "pop", "read", "sti", "dispatch", "draw"}
  /\ intr \in BOOLEAN
  /\ isr \in Devices \cup {"none"}
  /\ ipc \in {"none", "in8", "push", "eoi"}
  /\ code \in 0..MaxBytes
  /\ rb \in [head : 0..(QueueSize - 1), tail : 0..(QueueSize - 1),
             count : 0..QueueSize, maxlen : {QueueSize}]
  /\ buffer \in [0..(QueueSize - 1) -> Msg \cup {NoMsg}]
  /\ slot \in 0..(QueueSize - 1)
  /\ msg \in Msg \cup {NoMsg}
  /\ obf \in 0..MaxBytes
  /\ irr \subseteq {1, 12}
  /\ inService \subseteq {1, Slave, 12}
  /\ sent \in Seq(Devices)
  /\ accepted \in Seq(Msg)
  /\ dropped \in Seq(Msg)
  /\ handled \in Seq(Msg \cup {NoMsg})
  /\ shown \in Nat

\* The messages that wait: a message leaves the queue when kmain has copied
\* it, although pop_index has given its slot away before that.
QueueHead == IF pc = "read" THEN slot ELSE rb.head
Waiting == IF pc = "read" THEN rb.count + 1 ELSE rb.count
Contents == [k \in 1..Waiting |-> buffer[SlotFrom(rb, QueueHead, k)]]

\* The messages kmain has copied.
Delivered == IF pc \in {"sti", "dispatch"} THEN Append(handled, msg) ELSE handled

\* Every accepted message is delivered once, in the order of acceptance: the
\* accepted messages are those delivered, then those that wait in the ring,
\* whatever handlers ran between the steps of kmain.
Fifo ==
  /\ Len(accepted) = Len(Delivered) + Waiting
  /\ \A i \in 1..Len(Delivered) : Delivered[i] = accepted[i]
  /\ \A k \in 1..Waiting : Contents[k] = accepted[Len(Delivered) + k]

\* The indices of the ring agree: the next message goes right behind the last
\* one that waits, and a slot given away is the one before the head.
RingOK ==
  /\ Waiting <= QueueSize
  /\ rb.tail = SlotFrom(rb, QueueHead, Waiting + 1)
  /\ pc = "read" => rb.head = Advance(rb, slot)

\* Handlers run with interrupts disabled, interrupt only code that had them
\* enabled, and never leave a line in service behind them; kmain touches the
\* queue only with interrupts disabled, and paints that way too.
Discipline ==
  /\ (isr = "none") = (ipc = "none")
  /\ isr = "none" => (intr <=> pc \in {"hlt", "cli", "dispatch"})
  /\ isr # "none" => ~intr /\ pc \in {"cli", "dispatch"}
  /\ inService = IF isr = "none" THEN {} ELSE Lines(Irq(isr))

\* The bytes a handler or the controller still holds.
InTransit == {code, obf} \ {NoByte}

\* The handler that runs reads the byte of its own device, although both read
\* the same port and neither looks at the status register.
OwnByte ==
  /\ obf # NoByte => obf = Len(sent)
  /\ irr = IF obf = NoByte \/ ipc = "in8" THEN {} ELSE {Irq(sent[obf])}
  /\ ipc = "in8" => obf # NoByte /\ sent[obf] = isr
  /\ ipc \in {"push", "eoi"} => code # NoByte /\ code <= Len(sent) /\ sent[code] = isr

\* No byte is altered, duplicated, reordered or lost without a trace: messages
\* name the device their byte came from, in the order in which the bytes were
\* sent over both devices, and every byte is in transit, accepted or dropped.
Intact ==
  /\ \A s \in {accepted, dropped} : \A i \in 1..Len(s) :
       /\ s[i].data <= Len(sent)
       /\ s[i].type = sent[s[i].data]
       /\ \A j \in 1..(i - 1) : s[j].data < s[i].data
  /\ \A n \in 1..Len(sent) :
       \/ n \in InTransit
       \/ \E s \in {accepted, dropped} : \E i \in 1..Len(s) : s[i].data = n

\* The processor never halts with work left: no message waits in the queue and
\* everything dispatched has been painted.
NoSleepWithWork == pc = "hlt" => rb.count = 0 /\ shown = Len(handled)

\* What orders the bytes: those already recorded left their device before the
\* one in a handler's hands, and that one before the one in the controller.
Fresh ==
  /\ Len(sent) <= MaxBytes
  /\ ipc \in {"none", "in8"} => code = NoByte
  /\ code # NoByte /\ obf # NoByte => code < obf
  /\ \A s \in {accepted, dropped} : \A i \in 1..Len(s) :
       /\ obf # NoByte => s[i].data < obf
       /\ ipc = "push" => s[i].data < code
  /\ ipc = "eoi" => \E s \in {accepted, dropped} : \E i \in 1..Len(s) : s[i].data = code

\* The inductive invariant of the proofs; the queue is already empty when kmain
\* paints and when it is about to sleep.
IInv ==
  /\ TypeOK
  /\ RingOK
  /\ Fifo
  /\ Discipline
  /\ OwnByte
  /\ Intact
  /\ Fresh
  /\ pc \in {"draw", "sleep", "hlt"} => rb.count = 0
  /\ pc \in {"sleep", "hlt"} => shown = Len(handled)

Abs == INSTANCE LossyQueue WITH
  Capacity  <- QueueSize,
  queue     <- Contents,
  delivered <- Delivered,
  refused   <- dropped

\* The ring buffer with its producers and its consumer is a lossy queue: in
\* particular a message is dropped only while QueueSize others wait.
AbsSpec == Abs!Spec

\* The devices pause: from some time on they send nothing.
Pause == <>[][FALSE]_sent

\* Once the devices pause, every byte sent ends up on the screen, or was
\* dropped.  (Both acknowledgements, the wake-up from hlt, and gui_draw_all
\* behind the inner loop.  Without a pause kmain may handle messages for ever
\* and never come to gui_draw_all.)
Answered ==
  Pause => \A n \in 1..MaxBytes :
    Len(sent) >= n ~> \/ \E i \in 1..Len(handled) : i <= shown /\ handled[i].data = n
                      \/ \E i \in 1..Len(dropped) : dropped[i].data = n
=============================================================================
