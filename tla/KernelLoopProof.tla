--------------------------- MODULE KernelLoopProof ---------------------------
(***************************************************************************)
(* Proofs about KernelLoop, for every size of the queue and any number of  *)
(* bytes.                                                                  *)
(***************************************************************************)
EXTENDS KernelLoop, SequenceTheorems, TLAPS

\* The k-th slot from the next slot on is the one after the k-th from here.
LEMMA SlotAfter ==
  ASSUME NEW r, r.maxlen \in Nat \ {0}, NEW i \in 0..(r.maxlen - 1), NEW k \in 1..r.maxlen
  PROVE  SlotFrom(r, Advance(r, i), k) = SlotFrom(r, i, k + 1)
<1> DEFINE n == r.maxlen
<1>1. n \in Nat \ {0} /\ i \in 0..(n - 1) /\ k \in 1..n
  OBVIOUS
<1>2. CASE i + 1 = n
  <2>1. Advance(r, i) = 0
    BY <1>2 DEF Advance
  <2>2. SlotFrom(r, 0, k) = k - 1
    BY <1>1 DEF SlotFrom
  <2>3. SlotFrom(r, i, k + 1) = i + (k + 1) - 1 - n
    BY <1>1, <1>2 DEF SlotFrom
  <2> HIDE DEF n
  <2>4. i + (k + 1) - 1 - n = k - 1
    BY <1>1, <1>2
  <2> QED
    BY <2>1, <2>2, <2>3, <2>4
<1>3. CASE i + 1 # n
  <2>1. Advance(r, i) = i + 1
    BY <1>3 DEF Advance
  <2>2. (i + 1) + k - 1 = i + (k + 1) - 1
    BY <1>1
  <2> QED
    BY <2>1, <2>2 DEF SlotFrom
<1> QED
  BY <1>2, <1>3

\* The invariant holds when kmain reaches its loop.
LEMMA InitIInv == Init => IInv
<1> SUFFICES ASSUME Init PROVE IInv
  OBVIOUS
<1> USE QueueAssumption DEF Init
<1>1. TypeOK
  <2>1. rb \in [head : 0..(QueueSize - 1), tail : 0..(QueueSize - 1),
                count : 0..QueueSize, maxlen : {QueueSize}]
    BY DEF RingInit
  <2>2. buffer \in [0..(QueueSize - 1) -> Msg \cup {NoMsg}]
    OBVIOUS
  <2>3. code \in 0..MaxBytes /\ obf \in 0..MaxBytes /\ slot \in 0..(QueueSize - 1)
    BY DEF NoByte
  <2>4. irr = {} /\ inService = {} /\ sent \in Seq(Devices) /\ accepted \in Seq(Msg)
        /\ dropped \in Seq(Msg) /\ handled \in Seq(Msg \cup {NoMsg})
    OBVIOUS
  <2> QED
    BY <2>1, <2>2, <2>3, <2>4 DEF TypeOK
<1>2. RingOK /\ Fifo
  BY DEF RingOK, Fifo, Waiting, QueueHead, Contents, Delivered, SlotFrom, RingInit
<1>3. Discipline
  BY DEF Discipline
<1>4. OwnByte /\ Intact /\ Fresh
  BY DEF OwnByte, Intact, Fresh, NoByte
<1>5. rb.count = 0 /\ shown = Len(handled)
  BY DEF RingInit
<1> QED
  BY <1>1, <1>2, <1>3, <1>4, <1>5 DEF IInv

\* Steps of kmain that touch neither the queue nor a message in its hands:
\* the queue part of the invariant stands on what they leave alone.
LEMMA QueueUntouched ==
  ASSUME IInv, UNCHANGED <<queueVars, slot, msg, handled>>,
         pc' = "read" <=> pc = "read",
         pc' \in {"sti", "dispatch"} <=> pc \in {"sti", "dispatch"}
  PROVE  RingOK' /\ Fifo'
<1>1. QueueHead' = QueueHead /\ Waiting' = Waiting /\ Contents' = Contents
      /\ Delivered' = Delivered
  BY DEF QueueHead, Waiting, Contents, Delivered, queueVars, SlotFrom
<1> QED
  BY <1>1 DEF IInv, RingOK, Fifo, queueVars, SlotFrom, Advance

\* The byte part of the invariant stands on what kmain leaves alone.
LEMMA BytesUntouched ==
  ASSUME IInv, UNCHANGED <<isrVars, devVars, accepted, dropped>>
  PROVE  OwnByte' /\ Intact' /\ Fresh'
BY DEF IInv, OwnByte, Intact, Fresh, InTransit, isrVars, devVars

\* kmain goes to sleep.
LEMMA HaltIInv == ASSUME IInv, Halt PROVE IInv'
<1> USE DEF Halt, At, queueVars, isrVars, devVars
<1>1. TypeOK'
  BY DEF IInv, TypeOK
<1>2. RingOK' /\ Fifo'
  BY QueueUntouched
<1>3. OwnByte' /\ Intact' /\ Fresh'
  BY BytesUntouched
<1>4. Discipline'
  BY DEF IInv, Discipline
<1> QED
  BY <1>1, <1>2, <1>3, <1>4 DEF IInv

\* kmain disables interrupts, enables them, or finds the queue empty.
LEMMA DisableIInv == ASSUME IInv, Disable PROVE IInv'
<1> USE DEF Disable, At, queueVars, isrVars, devVars
<1>1. TypeOK'
  BY DEF IInv, TypeOK
<1>2. RingOK' /\ Fifo'
  BY QueueUntouched
<1>3. OwnByte' /\ Intact' /\ Fresh'
  BY BytesUntouched
<1>4. Discipline'
  BY DEF IInv, Discipline
<1> QED
  BY <1>1, <1>2, <1>3, <1>4 DEF IInv

\* The inner loop ends.
LEMMA PopEmptyIInv == ASSUME IInv, PopEmpty PROVE IInv'
<1> USE DEF PopEmpty, At, queueVars, isrVars, devVars
<1>1. TypeOK'
  BY DEF IInv, TypeOK
<1>2. RingOK' /\ Fifo'
  BY QueueUntouched
<1>3. OwnByte' /\ Intact' /\ Fresh'
  BY BytesUntouched
<1>4. Discipline'
  BY DEF IInv, Discipline
<1> QED
  BY <1>1, <1>2, <1>3, <1>4 DEF IInv, IsEmpty

\* kmain enables interrupts with the message in its hands.
LEMMA EnableIInv == ASSUME IInv, Enable PROVE IInv'
<1> USE DEF Enable, At, queueVars, isrVars, devVars
<1>1. TypeOK'
  BY DEF IInv, TypeOK
<1>2. RingOK' /\ Fifo'
  BY QueueUntouched
<1>3. OwnByte' /\ Intact' /\ Fresh'
  BY BytesUntouched
<1>4. Discipline'
  BY DEF IInv, Discipline
<1> QED
  BY <1>1, <1>2, <1>3, <1>4 DEF IInv

\* kmain repaints.
LEMMA DrawIInv == ASSUME IInv, Draw PROVE IInv'
<1> USE DEF Draw, At, queueVars, isrVars, devVars
<1>1. TypeOK'
  BY DEF IInv, TypeOK
<1>2. RingOK' /\ Fifo'
  BY QueueUntouched
<1>3. OwnByte' /\ Intact' /\ Fresh'
  BY BytesUntouched
<1>4. Discipline'
  BY DEF IInv, Discipline
<1> QED
  BY <1>1, <1>2, <1>3, <1>4 DEF IInv

\* A step that changes no variable changes no part of the invariant.
LEMMA StutterIInv == ASSUME IInv, UNCHANGED vars PROVE IInv'
<1> USE DEF vars, mainVars, queueVars, isrVars, devVars
<1>1. TypeOK'
  BY DEF IInv, TypeOK
<1>2. RingOK' /\ Fifo'
  BY QueueUntouched
<1>3. OwnByte' /\ Intact' /\ Fresh'
  BY BytesUntouched
<1>4. Discipline'
  BY DEF IInv, Discipline
<1> QED
  BY <1>1, <1>2, <1>3, <1>4 DEF IInv

\* A message counts as delivered from the moment kmain has copied it, so that
\* dispatching it changes nothing for the queue.
LEMMA DispatchIInv == ASSUME IInv, Dispatch PROVE IInv'
<1> USE DEF Dispatch, At, queueVars, isrVars, devVars
<1>1. TypeOK'
  <2>1. handled' \in Seq(Msg \cup {NoMsg})
    BY DEF IInv, TypeOK
  <2> QED
    BY <2>1 DEF IInv, TypeOK
<1>2. RingOK' /\ Fifo'
  <2>1. QueueHead' = QueueHead /\ Waiting' = Waiting /\ Contents' = Contents
        /\ Delivered' = Delivered
    BY DEF QueueHead, Waiting, Contents, Delivered, SlotFrom
  <2> QED
    BY <2>1 DEF IInv, RingOK, Fifo, SlotFrom, Advance
<1>3. OwnByte' /\ Intact' /\ Fresh'
  BY BytesUntouched
<1>4. Discipline'
  BY DEF IInv, Discipline
<1> QED
  BY <1>1, <1>2, <1>3, <1>4 DEF IInv

\* pop_index gives the slot away, but the message still waits in it.
LEMMA PopIndexIInv == ASSUME IInv, PopIndex PROVE IInv'
<1> USE QueueAssumption DEF PopIndex, At, queueVars, isrVars, devVars
<1>0. /\ rb \in [head : 0..(QueueSize - 1), tail : 0..(QueueSize - 1),
                 count : 0..QueueSize, maxlen : {QueueSize}]
      /\ rb.count # 0
  BY DEF IInv, TypeOK, IsEmpty
<1>1. /\ rb' \in [head : 0..(QueueSize - 1), tail : 0..(QueueSize - 1),
                  count : 0..QueueSize, maxlen : {QueueSize}]
      /\ rb'.head = Advance(rb, rb.head)
      /\ rb'.count = rb.count - 1
      /\ rb'.tail = rb.tail
      /\ rb'.maxlen = rb.maxlen
  <2>1. Advance(rb, rb.head) \in 0..(QueueSize - 1)
    BY <1>0 DEF Advance
  <2>2. rb' = [rb EXCEPT !.head = Advance(rb, rb.head), !.count = rb.count - 1]
    BY <1>0 DEF Popped
  <2>3. rb.count - 1 \in 0..QueueSize
    BY <1>0
  <2>4. DOMAIN rb = {"head", "tail", "count", "maxlen"}
    BY <1>0
  <2>5. /\ rb'.head = Advance(rb, rb.head) /\ rb'.count = rb.count - 1
        /\ rb'.tail = rb.tail /\ rb'.maxlen = rb.maxlen
    BY <2>2, <2>4
  <2>6. rb' = [head |-> rb'.head, tail |-> rb'.tail, count |-> rb'.count, maxlen |-> rb'.maxlen]
    BY <1>0, <2>2
  <2> QED
    BY <1>0, <2>1, <2>3, <2>5, <2>6
<1>2. TypeOK'
  BY <1>0, <1>1 DEF IInv, TypeOK
<1>3. RingOK' /\ Fifo'
  <2>1. QueueHead' = QueueHead /\ Waiting' = Waiting /\ Delivered' = Delivered
    BY <1>0, <1>1 DEF QueueHead, Waiting, Delivered
  <2>2. Contents' = Contents
    BY <1>1, <2>1 DEF Contents, SlotFrom
  <2> QED
    BY <1>0, <1>1, <2>1, <2>2 DEF IInv, RingOK, Fifo, SlotFrom, Advance
<1>4. OwnByte' /\ Intact' /\ Fresh'
  BY BytesUntouched
<1>5. Discipline'
  BY DEF IInv, Discipline
<1> QED
  BY <1>2, <1>3, <1>4, <1>5 DEF IInv

\* The copy kmain makes is the oldest message that waits: no handler can have
\* reused the slot.
LEMMA PopReadIInv == ASSUME IInv, PopRead PROVE IInv'
<1> USE QueueAssumption DEF PopRead, At, queueVars, isrVars, devVars
<1>0. /\ rb \in [head : 0..(QueueSize - 1), tail : 0..(QueueSize - 1),
                 count : 0..QueueSize, maxlen : {QueueSize}]
      /\ slot \in 0..(QueueSize - 1)
      /\ handled \in Seq(Msg \cup {NoMsg})
      /\ accepted \in Seq(Msg)
      /\ buffer[slot] \in Msg \cup {NoMsg}
  BY DEF IInv, TypeOK
<1>1. TypeOK'
  BY <1>0 DEF IInv, TypeOK
<1>2. /\ QueueHead = slot /\ QueueHead' = rb.head
      /\ Waiting = rb.count + 1 /\ Waiting' = rb.count
      /\ Delivered = handled /\ Delivered' = Append(handled, buffer[slot])
      /\ rb.head = Advance(rb, slot)
      /\ Len(Delivered') = Len(handled) + 1
  BY <1>0 DEF QueueHead, Waiting, Delivered, IInv, RingOK
<1>3. /\ rb.count + 1 <= QueueSize
      /\ rb.tail = SlotFrom(rb, slot, rb.count + 2)
      /\ Len(accepted) = Len(handled) + rb.count + 1
      /\ \A i \in 1..Len(handled) : handled[i] = accepted[i]
      /\ \A k \in 1..(rb.count + 1) : buffer[SlotFrom(rb, slot, k)] = accepted[Len(handled) + k]
  BY <1>0, <1>2 DEF IInv, RingOK, Fifo, Contents
<1>4. \A k \in 1..(rb.count + 1) : SlotFrom(rb, rb.head, k) = SlotFrom(rb, slot, k + 1)
  <2>1. rb.maxlen = QueueSize /\ rb.count + 1 <= rb.maxlen /\ rb.count \in Nat
    BY <1>0, <1>3
  <2>2. \A k \in 1..rb.maxlen : SlotFrom(rb, Advance(rb, slot), k) = SlotFrom(rb, slot, k + 1)
    BY <1>0, <2>1, SlotAfter
  <2>3. \A k \in 1..(rb.count + 1) : k \in 1..rb.maxlen
    BY <2>1
  <2> QED
    BY <1>2, <2>2, <2>3
<1>5. RingOK'
  <2>1. rb.tail = SlotFrom(rb, rb.head, rb.count + 1)
    <3>1. rb.count + 1 \in 1..(rb.count + 1) /\ (rb.count + 1) + 1 = rb.count + 2
      BY <1>0
    <3>2. SlotFrom(rb, rb.head, rb.count + 1) = SlotFrom(rb, slot, (rb.count + 1) + 1)
      BY <1>4, <3>1
    <3> QED
      BY <1>3, <3>1, <3>2
  <2> QED
    BY <1>0, <1>2, <1>3, <2>1, pc' # "read", rb' = rb DEF RingOK
<1>6. Fifo'
  <2>1. Len(accepted') = Len(Delivered') + Waiting'
    BY <1>0, <1>2, <1>3
  <2>2. buffer[slot] = accepted[Len(handled) + 1]
    <3>1. SlotFrom(rb, slot, 1) = slot
      BY <1>0 DEF SlotFrom
    <3>2. 1 \in 1..(rb.count + 1)
      BY <1>0
    <3> QED
      BY <1>3, <3>1, <3>2
  <2>3. \A i \in 1..Len(Delivered') : Delivered'[i] = accepted'[i]
    BY <1>0, <1>2, <1>3, <2>2
  <2>4. ASSUME NEW k \in 1..Waiting' PROVE Contents'[k] = accepted'[Len(Delivered') + k]
    <3>1. k \in 1..rb.count /\ k + 1 \in 1..(rb.count + 1)
      BY <1>0, <1>2
    <3>2. Contents'[k] = buffer[SlotFrom(rb, rb.head, k)]
      BY <1>2, <3>1 DEF Contents, SlotFrom
    <3>3. buffer[SlotFrom(rb, slot, k + 1)] = accepted[Len(handled) + (k + 1)]
      BY <1>3, <3>1
    <3>4. Len(handled) + (k + 1) = Len(Delivered') + k
      BY <1>0, <1>2, <3>1
    <3>5. SlotFrom(rb, rb.head, k) = SlotFrom(rb, slot, k + 1)
      BY <1>0, <1>4, <3>1
    <3> QED
      BY <3>2, <3>3, <3>4, <3>5
  <2> QED
    BY <2>1, <2>3, <2>4 DEF Fifo
<1>7. OwnByte' /\ Intact' /\ Fresh'
  BY BytesUntouched
<1>8. Discipline'
  BY DEF IInv, Discipline
<1> QED
  BY <1>1, <1>5, <1>6, <1>7, <1>8 DEF IInv

\* A device sends a byte: it is newer than every byte before it.
LEMMA SendIInv == ASSUME IInv, NEW d \in Devices, Send(d) PROVE IInv'
<1> USE DEF Send, mainVars, queueVars, isrVars
<1>0. /\ sent \in Seq(Devices) /\ accepted \in Seq(Msg) /\ dropped \in Seq(Msg)
      /\ MaxBytes \in Nat /\ code \in 0..MaxBytes
      /\ obf = 0 /\ Len(sent) < MaxBytes /\ Len(sent) \in Nat
      /\ sent' = Append(sent, d) /\ obf' = Len(sent) + 1 /\ Len(sent') = Len(sent) + 1
  BY QueueAssumption DEF IInv, TypeOK, NoByte
<1>1. /\ sent' \in Seq(Devices)
      /\ \A n \in 1..Len(sent) : sent'[n] = sent[n]
      /\ sent'[obf'] = d
      /\ irr' = irr \cup {Irq(d)}
  BY <1>0
<1>2. TypeOK'
  <2>1. irr' \subseteq {1, 12}
    BY <1>1 DEF IInv, TypeOK, Irq
  <2>2. obf' \in 0..MaxBytes
    BY <1>0
  <2> QED
    BY <1>1, <2>1, <2>2 DEF IInv, TypeOK
<1>3. RingOK' /\ Fifo'
  BY QueueUntouched
<1>4. Discipline'
  BY DEF IInv, Discipline
<1>5. ipc # "in8" /\ irr = {}
  BY <1>0 DEF IInv, OwnByte, NoByte
<1>6. OwnByte'
  <2>1. ipc \in {"push", "eoi"} => code \in 1..Len(sent) /\ sent[code] = isr
    BY <1>0 DEF IInv, OwnByte, NoByte
  <2>2. ipc' \in {"push", "eoi"} => code' # NoByte /\ code' <= Len(sent') /\ sent'[code'] = isr'
    BY <1>0, <1>1, <2>1 DEF NoByte
  <2>3. obf' # NoByte
    BY <1>0 DEF NoByte
  <2> QED
    BY <1>0, <1>1, <1>5, <2>2, <2>3 DEF OwnByte
<1>7. \A s \in {accepted, dropped} : \A i \in 1..Len(s) : s[i].data \in 1..Len(sent)
  <2>1. \A s \in {accepted, dropped} : \A i \in 1..Len(s) : s[i] \in Msg
    BY <1>0
  <2>2. \A s \in {accepted, dropped} : \A i \in 1..Len(s) : s[i].data \in 1..MaxBytes
    BY <2>1 DEF Msg
  <2>3. \A s \in {accepted, dropped} : \A i \in 1..Len(s) : s[i].data <= Len(sent)
    BY DEF IInv, Intact
  <2> QED
    BY <1>0, <2>2, <2>3
<1>8. Intact'
  <2>1. ASSUME NEW s \in {accepted', dropped'}, NEW i \in 1..Len(s)
        PROVE  /\ s[i].data <= Len(sent')
               /\ s[i].type = sent'[s[i].data]
               /\ \A j \in 1..(i - 1) : s[j].data < s[i].data
    BY <1>0, <1>1, <1>7 DEF IInv, Intact
  <2>2. ASSUME NEW n \in 1..Len(sent')
        PROVE  \/ n \in InTransit'
               \/ \E s \in {accepted', dropped'} : \E i \in 1..Len(s) : s[i].data = n
    <3>1. CASE n = obf'
      BY <1>0, <3>1 DEF InTransit, NoByte
    <3>2. CASE n \in 1..Len(sent)
      <4>1. n # obf
        BY <1>0, <3>2
      <4>2. (n = code /\ n # NoByte) \/ \E s \in {accepted, dropped} : \E i \in 1..Len(s) : s[i].data = n
        BY <3>2, <4>1 DEF IInv, Intact, InTransit
      <4> QED
        BY <4>2 DEF InTransit
    <3> QED
      BY <1>0, <3>1, <3>2
  <2> QED
    BY <2>1, <2>2 DEF Intact
<1>9. Fresh'
  <2>1. code' # NoByte => code' < obf'
    BY <1>0 DEF IInv, OwnByte, Fresh, TypeOK, NoByte
  <2>2. \A s \in {accepted', dropped'} : \A i \in 1..Len(s) : s[i].data < obf'
    BY <1>0, <1>7
  <2> QED
    BY <1>0, <2>1, <2>2 DEF IInv, Fresh
<1> QED
  BY <1>2, <1>3, <1>4, <1>6, <1>8, <1>9 DEF IInv

\* An interrupt is taken, possibly out of hlt: the handler that starts is the
\* one of the device whose byte is in the controller.
LEMMA DeliverIInv == ASSUME IInv, NEW d \in Devices, Deliver(d) PROVE IInv'
<1> USE DEF Deliver, queueVars
<1>1. TypeOK'
  <2>1. Lines(Irq(d)) \subseteq {1, Slave, 12}
    BY DEF Lines, Irq, Slave
  <2> QED
    BY <2>1 DEF IInv, TypeOK
<1>2. RingOK' /\ Fifo'
  BY QueueUntouched
<1>3. pc' \in {"cli", "dispatch"} /\ inService = {}
  BY DEF IInv, Discipline
<1>4. Discipline'
  BY <1>3 DEF Discipline, Devices
<1>5. obf # NoByte /\ ipc # "in8" /\ irr = {Irq(sent[obf])} /\ Irq(d) = Irq(sent[obf])
  BY DEF IInv, OwnByte, Discipline
<1>6. sent[obf] = d
  <2>1. obf \in 1..Len(sent) /\ sent \in Seq(Devices)
    BY <1>5, QueueAssumption DEF IInv, OwnByte, TypeOK, NoByte
  <2> QED
    BY <1>5, <2>1 DEF Irq, Devices
<1>7. OwnByte'
  BY <1>5, <1>6 DEF IInv, OwnByte
<1>8. ipc = "none" /\ code = NoByte
  BY DEF IInv, Discipline, Fresh
<1>9. Intact' /\ Fresh'
  BY <1>8 DEF IInv, Intact, Fresh, InTransit
<1> QED
  BY <1>1, <1>2, <1>3, <1>4, <1>7, <1>9 DEF IInv

\* The handler takes the byte out of the controller.
LEMMA IsrReadIInv == ASSUME IInv, IsrRead PROVE IInv'
<1> USE DEF IsrRead, mainVars, queueVars
<1>1. TypeOK'
  BY QueueAssumption DEF IInv, TypeOK, NoByte
<1>2. RingOK' /\ Fifo'
  BY QueueUntouched
<1>3. Discipline'
  BY DEF IInv, Discipline
<1>4. obf # NoByte /\ obf = Len(sent) /\ sent[obf] = isr /\ code = NoByte /\ irr = {}
  BY DEF IInv, OwnByte, Fresh
<1>5. Len(sent) \in Nat
  BY DEF IInv, TypeOK
<1>6. OwnByte'
  BY <1>4, <1>5 DEF OwnByte
<1>7. InTransit' = InTransit
  BY <1>4 DEF InTransit
<1>8. Intact'
  BY <1>7 DEF IInv, Intact
<1>9. Fresh'
  BY <1>4 DEF IInv, Fresh
<1> QED
  BY <1>1, <1>2, <1>3, <1>6, <1>8, <1>9 DEF IInv

\* The handler returns: its byte is accepted or dropped by now.
LEMMA IsrEoiIInv == ASSUME IInv, IsrEoi PROVE IInv'
<1> USE DEF IsrEoi, mainVars, queueVars
<1>1. TypeOK'
  <2>1. inService' \subseteq {1, Slave, 12}
    BY DEF IInv, TypeOK
  <2>2. code' \in 0..MaxBytes
    BY QueueAssumption DEF NoByte
  <2> QED
    BY <2>1, <2>2 DEF IInv, TypeOK
<1>2. RingOK' /\ Fifo'
  BY QueueUntouched
<1>3. isr # "none" /\ pc \in {"cli", "dispatch"} /\ inService = Lines(Irq(isr))
  BY DEF IInv, Discipline
<1>4. Discipline'
  BY <1>3 DEF Discipline, Lines, Eoi
<1>5. OwnByte'
  BY DEF IInv, OwnByte
<1>6. \E s \in {accepted, dropped} : \E i \in 1..Len(s) : s[i].data = code
  BY DEF IInv, Fresh
<1>7. InTransit \subseteq InTransit' \cup {code}
  BY DEF InTransit
<1>8. Intact'
  <2>1. ASSUME NEW n \in 1..Len(sent)
        PROVE  \/ n \in InTransit'
               \/ \E s \in {accepted', dropped'} : \E i \in 1..Len(s) : s[i].data = n
    BY <1>6, <1>7 DEF IInv, Intact
  <2> QED
    BY <2>1 DEF IInv, Intact
<1>9. Fresh'
  BY DEF IInv, Fresh
<1> QED
  BY <1>1, <1>2, <1>3, <1>4, <1>5, <1>8, <1>9 DEF IInv

\* Recording the handler's byte as accepted or as dropped keeps the bytes in
\* order and accounted for.
LEMMA RecordByte ==
  ASSUME IInv, ipc = "push", ipc' = "eoi", UNCHANGED <<devVars, isr, code>>,
         \/ accepted' = Append(accepted, [type |-> isr, data |-> code]) /\ dropped' = dropped
         \/ dropped' = Append(dropped, [type |-> isr, data |-> code]) /\ accepted' = accepted
  PROVE  /\ [type |-> isr, data |-> code] \in Msg
         /\ accepted' \in Seq(Msg) /\ dropped' \in Seq(Msg)
         /\ OwnByte' /\ Intact' /\ Fresh'
<1> DEFINE m == [type |-> isr, data |-> code]
<1> USE DEF devVars
<1>0. /\ accepted \in Seq(Msg) /\ dropped \in Seq(Msg) /\ MaxBytes \in Nat
      /\ code \in 1..MaxBytes /\ code <= Len(sent) /\ sent[code] = isr /\ Len(sent) \in Nat
      /\ obf \in 0..MaxBytes
  BY QueueAssumption DEF IInv, TypeOK, OwnByte, NoByte
<1>1. isr \in Devices
  BY DEF IInv, Discipline, TypeOK
<1>2. m \in Msg /\ m.data = code /\ m.type = isr
  BY <1>0, <1>1 DEF Msg
<1> HIDE DEF m
<1>3. \/ accepted' = Append(accepted, m) /\ dropped' = dropped
      \/ dropped' = Append(dropped, m) /\ accepted' = accepted
  BY DEF m
<1>4. accepted' \in Seq(Msg) /\ dropped' \in Seq(Msg)
  <2>1. Append(accepted, m) \in Seq(Msg) /\ Append(dropped, m) \in Seq(Msg)
    BY <1>0, <1>2
  <2> QED
    BY <1>0, <1>3, <2>1
<1>5. OwnByte'
  BY <1>0 DEF IInv, OwnByte
\* What is true of the elements of both histories is true of their successors.
<1>6. ASSUME NEW s \in {accepted', dropped'}
      PROVE  \E r \in {accepted, dropped} :
               /\ r \in Seq(Msg)
               /\ s = r \/ s = Append(r, m)
  BY <1>0, <1>3
<1>7. \E s \in {accepted', dropped'} : \E i \in 1..Len(s) : s[i].data = code
  <2>1. \A r \in Seq(Msg) : Len(r) + 1 \in 1..Len(Append(r, m)) /\ Append(r, m)[Len(r) + 1] = m
    BY <1>2
  <2> QED
    BY <1>0, <1>2, <1>3, <2>1
<1>8. \A r \in {accepted, dropped} : \A i \in 1..Len(r) :
        \E s \in {accepted', dropped'} : \E j \in 1..Len(s) : s[j].data = r[i].data
  <2>1. \A r \in Seq(Msg) : \A i \in 1..Len(r) :
          i \in 1..Len(Append(r, m)) /\ Append(r, m)[i] = r[i]
    BY <1>2
  <2> SUFFICES ASSUME NEW r \in {accepted, dropped}, NEW i \in 1..Len(r)
               PROVE  \E s \in {accepted', dropped'} : \E j \in 1..Len(s) : s[j].data = r[i].data
    OBVIOUS
  <2>2. i \in 1..Len(Append(r, m)) /\ Append(r, m)[i] = r[i]
    BY <1>0, <2>1
  <2>3. r \in {accepted', dropped'} \/ Append(r, m) \in {accepted', dropped'}
    BY <1>3
  <2> QED
    BY <2>2, <2>3
<1>9. ASSUME NEW s \in {accepted', dropped'}, NEW i \in 1..Len(s)
      PROVE  /\ s[i].data <= Len(sent)
             /\ s[i].type = sent[s[i].data]
             /\ \A j \in 1..(i - 1) : s[j].data < s[i].data
             /\ obf # NoByte => s[i].data < obf
  <2>1. PICK r \in {accepted, dropped} : r \in Seq(Msg) /\ (s = r \/ s = Append(r, m))
    BY <1>6
  <2>2. \A k \in 1..Len(r) : /\ r[k].data <= Len(sent)
                             /\ r[k].type = sent[r[k].data]
                             /\ \A j \in 1..(k - 1) : r[j].data < r[k].data
                             /\ r[k].data < code
                             /\ obf # NoByte => r[k].data < obf
    BY <2>1 DEF IInv, Intact, Fresh
  <2>3. obf # NoByte => code < obf
    BY <1>0 DEF IInv, Fresh, NoByte
  <2>4. CASE i \in 1..Len(r)
    <3>1. \A j \in 1..i : s[j] = r[j]
      BY <1>2, <2>1, <2>4
    <3> QED
      BY <2>1, <2>2, <2>4, <3>1
  <2>5. CASE s = Append(r, m) /\ i = Len(r) + 1
    <3>1. s[i] = m /\ \A j \in 1..(i - 1) : j \in 1..Len(r) /\ s[j] = r[j]
      BY <1>2, <2>1, <2>5
    <3> QED
      BY <1>0, <1>2, <2>2, <2>3, <3>1
  <2> QED
    BY <1>2, <2>1, <2>4, <2>5
<1>10. Intact'
  <2>1. ASSUME NEW n \in 1..Len(sent)
        PROVE  \/ n \in InTransit
               \/ \E s \in {accepted', dropped'} : \E i \in 1..Len(s) : s[i].data = n
    <3>1. \/ n \in InTransit
          \/ \E r \in {accepted, dropped} : \E i \in 1..Len(r) : r[i].data = n
      BY DEF IInv, Intact
    <3>2. CASE \E r \in {accepted, dropped} : \E i \in 1..Len(r) : r[i].data = n
      <4>1. PICK r \in {accepted, dropped} : \E i \in 1..Len(r) : r[i].data = n
        BY <3>2
      <4>2. PICK i \in 1..Len(r) : r[i].data = n
        BY <4>1
      <4> QED
        BY <1>8, <4>2
    <3> QED
      BY <3>1, <3>2
  <2> QED
    BY <1>9, <2>1 DEF Intact, InTransit
<1>11. Fresh'
  BY <1>7, <1>9 DEF IInv, Fresh
<1> QED
  BY <1>2, <1>4, <1>5, <1>10, <1>11 DEF m

\* What a push does to the queue: the message is the last one that waits, and
\* no message that waits is overwritten.
LEMMA PushContents ==
  ASSUME IInv, ipc = "push", ~IsFull(rb), NEW m \in Msg,
         buffer' = [buffer EXCEPT ![rb.tail] = m], rb' = Pushed(rb),
         UNCHANGED mainVars
  PROVE  /\ rb' \in [head : 0..(QueueSize - 1), tail : 0..(QueueSize - 1),
                     count : 0..QueueSize, maxlen : {QueueSize}]
         /\ Waiting' = Waiting + 1 /\ Waiting \in Nat /\ Waiting < QueueSize
         /\ QueueHead' = QueueHead /\ Delivered' = Delivered
         /\ Contents'[Waiting + 1] = m
         /\ \A k \in 1..Waiting : Contents'[k] = Contents[k]
         /\ RingOK'
<1> USE QueueAssumption DEF mainVars
<1>0. /\ rb \in [head : 0..(QueueSize - 1), tail : 0..(QueueSize - 1),
                 count : 0..QueueSize, maxlen : {QueueSize}]
      /\ buffer \in [0..(QueueSize - 1) -> Msg \cup {NoMsg}]
      /\ pc \in {"cli", "dispatch"}
      /\ rb.count < QueueSize
  BY DEF IInv, TypeOK, Discipline, IsFull
<1>1. /\ rb' = [head |-> rb.head, tail |-> Advance(rb, rb.tail),
                count |-> rb.count + 1, maxlen |-> QueueSize]
      /\ Advance(rb, rb.tail) \in 0..(QueueSize - 1)
  <2>1. Advance(rb, rb.tail) \in 0..(QueueSize - 1)
    BY <1>0 DEF Advance
  <2>2. rb' = [rb EXCEPT !.tail = Advance(rb, rb.tail), !.count = rb.count + 1]
    BY <1>0 DEF Pushed
  <2> QED
    BY <1>0, <2>1, <2>2
<1>2. rb' \in [head : 0..(QueueSize - 1), tail : 0..(QueueSize - 1),
               count : 0..QueueSize, maxlen : {QueueSize}]
  BY <1>0, <1>1
<1>3. /\ Waiting = rb.count /\ Waiting' = rb.count + 1
      /\ QueueHead = rb.head /\ QueueHead' = rb.head
      /\ Delivered' = Delivered
  BY <1>0, <1>1 DEF Waiting, QueueHead, Delivered
<1>4. rb.tail = SlotFrom(rb, rb.head, rb.count + 1)
  BY <1>3 DEF IInv, RingOK
<1>5. \A k \in 1..rb.count : SlotFrom(rb, rb.head, k) # rb.tail
                             /\ SlotFrom(rb, rb.head, k) \in 0..(QueueSize - 1)
  BY <1>0, <1>4 DEF SlotFrom
<1>6. rb'.maxlen = rb.maxlen
  BY <1>0, <1>1
<1>7. \A k \in 1..(rb.count + 1) : Contents'[k] = buffer'[SlotFrom(rb, rb.head, k)]
  BY <1>3, <1>6 DEF Contents, SlotFrom
<1>8. Contents'[Waiting + 1] = m
  BY <1>0, <1>3, <1>4, <1>7
<1>9. \A k \in 1..Waiting : Contents'[k] = Contents[k]
  <2> SUFFICES ASSUME NEW k \in 1..Waiting PROVE Contents'[k] = Contents[k]
    OBVIOUS
  <2>1. k \in 1..rb.count /\ k \in 1..(rb.count + 1)
    BY <1>0, <1>3
  <2>2. Contents[k] = buffer[SlotFrom(rb, rb.head, k)]
    BY <1>3, <2>1 DEF Contents
  <2>3. buffer'[SlotFrom(rb, rb.head, k)] = buffer[SlotFrom(rb, rb.head, k)]
    BY <1>0, <1>5, <2>1
  <2> QED
    BY <1>7, <2>1, <2>2, <2>3
<1>10. RingOK'
  <2>1. rb'.tail = Advance(rb, rb.tail) /\ rb'.maxlen = QueueSize /\ rb'.head = rb.head
        /\ rb.maxlen = QueueSize /\ rb.head \in 0..(QueueSize - 1) /\ rb.count \in Nat
    BY <1>0, <1>1
  <2>2. Advance(rb, rb.tail) = SlotFrom(rb, rb.head, rb.count + 2)
    BY <1>0, <1>4, <2>1 DEF Advance, SlotFrom
  <2>3. rb'.tail = SlotFrom(rb', rb.head, rb.count + 2)
    BY <2>1, <2>2 DEF SlotFrom
  <2>4. Waiting' + 1 = rb.count + 2 /\ Waiting' <= QueueSize
    BY <1>0, <1>3, <2>1
  <2>5. pc' # "read"
    BY <1>0
  <2> QED
    BY <1>3, <2>3, <2>4, <2>5 DEF RingOK
<1> QED
  BY <1>0, <1>2, <1>3, <1>8, <1>9, <1>10

\* The handler pushes its message, or drops it.
LEMMA IsrPushIInv == ASSUME IInv, IsrPush PROVE IInv'
<1> DEFINE m == [type |-> isr, data |-> code]
<1>0. /\ ipc = "push" /\ ipc' = "eoi"
      /\ UNCHANGED <<mainVars, devVars, intr, isr, code>>
      /\ \/ /\ IsFull(rb)
            /\ dropped' = Append(dropped, m)
            /\ UNCHANGED <<rb, buffer, accepted>>
         \/ /\ ~IsFull(rb)
            /\ buffer' = [buffer EXCEPT ![rb.tail] = m]
            /\ rb' = Pushed(rb)
            /\ accepted' = Append(accepted, m)
            /\ UNCHANGED dropped
  BY DEF IsrPush
<1>1. /\ m \in Msg
      /\ accepted' \in Seq(Msg) /\ dropped' \in Seq(Msg)
      /\ OwnByte' /\ Intact' /\ Fresh'
  BY <1>0, RecordByte
<1> HIDE DEF m
<1>2. Discipline'
  BY <1>0 DEF IInv, Discipline, mainVars, devVars
<1>3. pc \in {"cli", "dispatch"} /\ pc' = pc
  BY <1>0 DEF IInv, Discipline, mainVars
<1>4. CASE IsFull(rb)
  <2>1. UNCHANGED <<rb, buffer, accepted>>
    BY <1>0, <1>4
  <2>2. TypeOK'
    BY <1>0, <1>1, <2>1 DEF IInv, TypeOK, mainVars, devVars
  <2>3. QueueHead' = QueueHead /\ Waiting' = Waiting /\ Contents' = Contents
        /\ Delivered' = Delivered
    BY <1>0, <2>1 DEF QueueHead, Waiting, Contents, Delivered, SlotFrom, mainVars
  <2>4. RingOK' /\ Fifo'
    BY <1>3, <2>1, <2>3 DEF IInv, RingOK, Fifo, SlotFrom
  <2> QED
    BY <1>1, <1>2, <1>3, <2>2, <2>4 DEF IInv
<1>5. CASE ~IsFull(rb)
  <2>1. /\ buffer' = [buffer EXCEPT ![rb.tail] = m] /\ rb' = Pushed(rb)
        /\ accepted' = Append(accepted, m) /\ UNCHANGED mainVars
    BY <1>0, <1>5
  <2>2. /\ rb' \in [head : 0..(QueueSize - 1), tail : 0..(QueueSize - 1),
                    count : 0..QueueSize, maxlen : {QueueSize}]
        /\ Waiting' = Waiting + 1 /\ Waiting \in Nat
        /\ Delivered' = Delivered
        /\ Contents'[Waiting + 1] = m
        /\ \A k \in 1..Waiting : Contents'[k] = Contents[k]
        /\ RingOK'
    BY <1>0, <1>1, <1>5, <2>1, PushContents
  <2>3. TypeOK'
    <3>1. buffer' \in [0..(QueueSize - 1) -> Msg \cup {NoMsg}]
      BY <1>1, <2>1 DEF IInv, TypeOK
    <3> QED
      BY <1>0, <1>1, <2>2, <3>1 DEF IInv, TypeOK, mainVars, devVars
  <2>4. /\ accepted \in Seq(Msg) /\ Len(accepted) \in Nat
        /\ Len(accepted') = Len(accepted) + 1
        /\ accepted'[Len(accepted) + 1] = m
        /\ \A i \in 1..Len(accepted) : accepted'[i] = accepted[i]
    BY <1>1, <2>1 DEF IInv, TypeOK
  <2>5. Len(Delivered) \in Nat
    <3>1. Delivered \in Seq(Msg \cup {NoMsg})
      BY DEF IInv, TypeOK, Delivered
    <3> QED
      BY <3>1
  <2>6. /\ Len(accepted) = Len(Delivered) + Waiting
        /\ \A i \in 1..Len(Delivered) : Delivered[i] = accepted[i]
        /\ \A k \in 1..Waiting : Contents[k] = accepted[Len(Delivered) + k]
    BY DEF IInv, Fifo
  <2>7. Fifo'
    <3>1. Len(accepted') = Len(Delivered') + Waiting'
      BY <2>2, <2>4, <2>5, <2>6
    <3>2. \A i \in 1..Len(Delivered') : Delivered'[i] = accepted'[i]
      BY <2>2, <2>4, <2>5, <2>6
    <3>3. ASSUME NEW k \in 1..Waiting' PROVE Contents'[k] = accepted'[Len(Delivered') + k]
      <4>1. CASE k = Waiting + 1
        <5>1. Len(Delivered') + k = Len(accepted) + 1
          BY <2>2, <2>5, <2>6, <4>1
        <5> QED
          BY <2>2, <2>4, <4>1, <5>1
      <4>2. CASE k \in 1..Waiting
        <5>1. Len(Delivered') + k = Len(Delivered) + k /\ Len(Delivered) + k \in 1..Len(accepted)
          BY <2>2, <2>5, <2>6, <4>2
        <5>2. Contents'[k] = Contents[k] /\ Contents[k] = accepted[Len(Delivered) + k]
          BY <2>2, <2>6, <4>2
        <5> QED
          BY <2>4, <5>1, <5>2
      <4> QED
        BY <2>2, <4>1, <4>2
    <3> QED
      BY <3>1, <3>2, <3>3 DEF Fifo
  <2> QED
    BY <1>1, <1>2, <1>3, <2>2, <2>3, <2>7 DEF IInv
<1> QED
  BY <1>4, <1>5

-----------------------------------------------------------------------------
(* The theorems *)

\* The invariant holds in every state kmain, its handlers and the devices can
\* reach, for every size of the interrupt queue.
THEOREM Inductive == Spec => []IInv
<1>1. Init => IInv
  BY InitIInv
<1>2. IInv /\ [Next]_vars => IInv'
  BY HaltIInv, DisableIInv, PopEmptyIInv, PopIndexIInv, PopReadIInv, EnableIInv,
     DispatchIInv, DrawIInv, IsrReadIInv, IsrPushIInv, IsrEoiIInv, SendIInv,
     DeliverIInv, StutterIInv DEF Next, Main, Isr
<1> QED
  BY <1>1, <1>2, PTL DEF Spec

\* Every variable keeps its type; in particular every access of the message
\* buffer is within its bounds.
THEOREM TypeCorrect == Spec => []TypeOK
<1>1. IInv => TypeOK
  BY DEF IInv
<1> QED
  BY <1>1, Inductive, PTL

\* Messages leave the interrupt queue once and in the order in which they
\* were accepted.
THEOREM InOrder == Spec => []Fifo
<1>1. IInv => Fifo
  BY DEF IInv
<1> QED
  BY <1>1, Inductive, PTL

\* A handler that runs finds the byte of its own device in the output buffer
\* that both devices share, for any interleaving of their interrupts.
THEOREM NoMixUp == Spec => []OwnByte
<1>1. IInv => OwnByte
  BY DEF IInv
<1> QED
  BY <1>1, Inductive, PTL

\* No byte is altered, duplicated, attributed to the other device or lost
\* without a trace between a device and the queue.
THEOREM BytesIntact == Spec => []Intact
<1>1. IInv => Intact
  BY DEF IInv
<1> QED
  BY <1>1, Inductive, PTL

\* kmain executes hlt only when the queue is empty and the screen up to date:
\* no interrupt can slip in between its last look at the queue and hlt.
THEOREM NoLostWakeup == Spec => []NoSleepWithWork
<1>1. IInv => NoSleepWithWork
  BY DEF IInv, NoSleepWithWork
<1> QED
  BY <1>1, Inductive, PTL

\* A function on 1..n is a sequence of length n.
LEMMA FunctionIsSeq ==
  ASSUME NEW S, NEW n \in Nat, NEW f \in [1..n -> S]
  PROVE  f \in Seq(S) /\ Len(f) = n
OBVIOUS

\* The messages that wait form a sequence.
LEMMA ContentsSeq ==
  ASSUME IInv
  PROVE  Contents \in Seq(Msg) /\ Len(Contents) = Waiting /\ Waiting \in Nat
<1>1. Waiting \in Nat /\ accepted \in Seq(Msg) /\ Len(accepted) \in Nat
  BY QueueAssumption DEF IInv, TypeOK, Waiting
<1>2. Delivered \in Seq(Msg \cup {NoMsg}) /\ Len(Delivered) \in Nat
  <2>1. Delivered \in Seq(Msg \cup {NoMsg})
    BY DEF IInv, TypeOK, Delivered
  <2> QED
    BY <2>1
<1>3. Len(accepted) = Len(Delivered) + Waiting
  BY DEF IInv, Fifo
<1>4. \A k \in 1..Waiting : Contents[k] \in Msg
  <2> SUFFICES ASSUME NEW k \in 1..Waiting PROVE Contents[k] \in Msg
    OBVIOUS
  <2>1. Contents[k] = accepted[Len(Delivered) + k]
    BY DEF IInv, Fifo
  <2>2. Len(Delivered) + k \in 1..Len(accepted)
    BY <1>1, <1>2, <1>3
  <2> QED
    BY <1>1, <2>1, <2>2
<1>5. Contents = [k \in 1..Waiting |-> Contents[k]]
  BY DEF Contents
<1>6. Contents \in [1..Waiting -> Msg]
  BY <1>4, <1>5
<1> QED
  BY <1>1, <1>6, FunctionIsSeq

\* The same for the next state.
LEMMA ContentsSeqNext ==
  IInv' => (Contents \in Seq(Msg) /\ Len(Contents) = Waiting /\ Waiting \in Nat)'
<1>1. IInv => Contents \in Seq(Msg) /\ Len(Contents) = Waiting /\ Waiting \in Nat
  BY ContentsSeq
<1> QED
  BY <1>1, PTL

\* The first message that waits is the one kmain copies, and copying it leaves
\* the others in their order.
LEMMA PopReadRefines == ASSUME IInv, IInv', PopRead PROVE Abs!Pop
<1> USE QueueAssumption DEF PopRead, At, queueVars
<1>0. /\ rb \in [head : 0..(QueueSize - 1), tail : 0..(QueueSize - 1),
                 count : 0..QueueSize, maxlen : {QueueSize}]
      /\ slot \in 0..(QueueSize - 1) /\ rb' = rb /\ buffer' = buffer
  BY DEF IInv, TypeOK
<1>1. /\ Contents \in Seq(Msg) /\ Len(Contents) = Waiting
  BY ContentsSeq
<1>2. /\ Contents' \in Seq(Msg) /\ Len(Contents') = Waiting'
  BY ContentsSeqNext
<1>3. /\ Waiting = rb.count + 1 /\ Waiting' = rb.count /\ rb.count \in Nat
      /\ QueueHead = slot /\ QueueHead' = rb.head
      /\ rb.head = Advance(rb, slot) /\ rb.count + 1 <= QueueSize
  BY <1>0 DEF Waiting, QueueHead, IInv, RingOK
<1>4. Contents # <<>>
  BY <1>1, <1>3
<1>5. Head(Contents) = buffer[slot]
  <2>1. Contents[1] = buffer[SlotFrom(rb, slot, 1)]
    BY <1>3 DEF Contents
  <2>2. SlotFrom(rb, slot, 1) = slot
    BY <1>0 DEF SlotFrom
  <2> QED
    BY <1>1, <1>4, <2>1, <2>2
<1>6. \A k \in 1..rb.count : SlotFrom(rb, rb.head, k) = SlotFrom(rb, slot, k + 1)
  <2>1. rb.maxlen = QueueSize
    BY <1>0
  <2>2. \A k \in 1..rb.maxlen : SlotFrom(rb, Advance(rb, slot), k) = SlotFrom(rb, slot, k + 1)
    BY <1>0, <2>1, SlotAfter
  <2>3. \A k \in 1..rb.count : k \in 1..rb.maxlen
    BY <1>3, <2>1
  <2> QED
    BY <1>3, <2>2, <2>3
<1>7. Contents' = Tail(Contents)
  <2>1. Tail(Contents) \in Seq(Msg) /\ Len(Tail(Contents)) = rb.count
        /\ \A k \in 1..rb.count : Tail(Contents)[k] = Contents[k + 1]
    BY <1>1, <1>3, <1>4, HeadTailProperties
  <2>2. \A k \in 1..rb.count : Contents'[k] = buffer[SlotFrom(rb, rb.head, k)]
    BY <1>0, <1>3 DEF Contents, SlotFrom
  <2>3. \A k \in 1..rb.count : Contents[k + 1] = buffer[SlotFrom(rb, slot, k + 1)]
    BY <1>3 DEF Contents
  <2>4. \A k \in 1..rb.count : Contents'[k] = Tail(Contents)[k]
    BY <1>6, <2>1, <2>2, <2>3
  <2> QED
    BY <1>2, <1>3, <2>1, <2>4, SeqEqual
<1>8. Delivered = handled /\ Delivered' = Append(handled, buffer[slot])
  BY DEF Delivered
<1> QED
  BY <1>4, <1>5, <1>7, <1>8 DEF Abs!Pop

\* A handler's push appends to the waiting messages, and it drops its message
\* only when QueueSize messages wait.
LEMMA IsrPushRefines ==
  ASSUME IInv, IInv', IsrPush PROVE \E m \in Msg : Abs!Push(m) \/ Abs!Refuse(m)
<1> DEFINE m == [type |-> isr, data |-> code]
<1>0. /\ ipc = "push" /\ ipc' = "eoi"
      /\ UNCHANGED <<mainVars, devVars, intr, isr, code>>
      /\ \/ /\ IsFull(rb)
            /\ dropped' = Append(dropped, m)
            /\ UNCHANGED <<rb, buffer, accepted>>
         \/ /\ ~IsFull(rb)
            /\ buffer' = [buffer EXCEPT ![rb.tail] = m]
            /\ rb' = Pushed(rb)
            /\ accepted' = Append(accepted, m)
            /\ UNCHANGED dropped
  BY DEF IsrPush
<1>1. m \in Msg
  BY <1>0, RecordByte
<1> HIDE DEF m
<1>2. Contents \in Seq(Msg) /\ Len(Contents) = Waiting /\ Waiting \in Nat
  BY ContentsSeq
<1>3. Contents' \in Seq(Msg) /\ Len(Contents') = Waiting'
  BY ContentsSeqNext
<1>4. CASE IsFull(rb)
  <2>1. UNCHANGED <<rb, buffer, accepted>> /\ dropped' = Append(dropped, m)
    BY <1>0, <1>4
  <2>2. Contents' = Contents /\ Delivered' = Delivered
    BY <1>0, <2>1 DEF QueueHead, Waiting, Contents, Delivered, SlotFrom, mainVars
  <2>3. Len(Contents) = QueueSize
    <3>1. pc # "read" /\ rb.maxlen = QueueSize
      BY <1>0 DEF IInv, Discipline, TypeOK
    <3> QED
      BY <1>2, <1>4, <3>1 DEF Waiting, IsFull
  <2> QED
    BY <1>1, <2>1, <2>2, <2>3 DEF Abs!Refuse
<1>5. CASE ~IsFull(rb)
  <2>1. /\ buffer' = [buffer EXCEPT ![rb.tail] = m] /\ rb' = Pushed(rb)
        /\ UNCHANGED mainVars /\ dropped' = dropped
    BY <1>0, <1>5
  <2>2. /\ Waiting' = Waiting + 1 /\ Waiting < QueueSize
        /\ Delivered' = Delivered
        /\ Contents'[Waiting + 1] = m
        /\ \A k \in 1..Waiting : Contents'[k] = Contents[k]
    BY <1>0, <1>1, <1>5, <2>1, PushContents
  <2>3. Contents' = Append(Contents, m)
    <3>1. /\ Append(Contents, m) \in Seq(Msg)
          /\ Len(Append(Contents, m)) = Waiting + 1
          /\ Append(Contents, m)[Waiting + 1] = m
          /\ \A k \in 1..Waiting : Append(Contents, m)[k] = Contents[k]
      BY <1>1, <1>2
    <3>2. \A k \in 1..(Waiting + 1) : Contents'[k] = Append(Contents, m)[k]
      BY <1>2, <2>2, <3>1
    <3> QED
      BY <1>3, <2>2, <3>1, <3>2, SeqEqual
  <2> QED
    BY <1>1, <1>2, <2>1, <2>2, <2>3 DEF Abs!Push
<1> QED
  BY <1>4, <1>5

\* The other steps leave the abstract queue alone.
LEMMA OthersRefine ==
  ASSUME IInv, [Next]_vars, ~PopRead, ~IsrPush
  PROVE  UNCHANGED <<Contents, Delivered, dropped>>
<1> USE DEF mainVars, isrVars, devVars, queueVars
<1>1. CASE \/ Halt \/ Disable \/ PopEmpty \/ Enable \/ Draw \/ IsrRead \/ IsrEoi
           \/ (\E d \in Devices : Send(d)) \/ UNCHANGED vars
  <2>1. UNCHANGED <<rb, buffer, slot, msg, handled, dropped>>
    BY <1>1 DEF Halt, Disable, PopEmpty, Enable, Draw, IsrRead, IsrEoi, Send, vars
  <2>2. /\ pc' = "read" <=> pc = "read"
        /\ pc' \in {"sti", "dispatch"} <=> pc \in {"sti", "dispatch"}
    BY <1>1 DEF Halt, Disable, PopEmpty, Enable, Draw, IsrRead, IsrEoi, Send, vars, At
  <2> QED
    BY <2>1, <2>2 DEF QueueHead, Waiting, Contents, Delivered, SlotFrom
<1>2. CASE \E d \in Devices : Deliver(d)
  BY <1>2 DEF Deliver, QueueHead, Waiting, Contents, Delivered, SlotFrom
<1>3. CASE Dispatch
  BY <1>3 DEF Dispatch, At, QueueHead, Waiting, Contents, Delivered, SlotFrom
<1>4. CASE PopIndex
  <2>1. /\ rb'.maxlen = rb.maxlen /\ rb'.count = rb.count - 1 /\ rb.count \in Nat
        /\ buffer' = buffer /\ dropped' = dropped /\ handled' = handled
        /\ pc = "pop" /\ pc' = "read" /\ slot' = rb.head
    BY <1>4 DEF PopIndex, At, Popped, IInv, TypeOK
  <2>2. QueueHead' = QueueHead /\ Waiting' = Waiting
    BY <2>1 DEF QueueHead, Waiting
  <2> QED
    BY <2>1, <2>2 DEF Contents, Delivered, SlotFrom
<1> QED
  BY <1>1, <1>2, <1>3, <1>4 DEF Next, Main, Isr

\* The interrupt queue of the kernel is a lossy queue of INTR_QUEUE_SIZE
\* messages, although its consumer frees a slot before it reads it.
THEOREM Implements == Spec => AbsSpec
<1>1. Init => Abs!Init
  <2> SUFFICES ASSUME Init PROVE Abs!Init
    OBVIOUS
  <2>1. IInv
    BY InitIInv
  <2>2. Waiting = 0 /\ Delivered = <<>> /\ dropped = <<>>
    BY DEF Init, Waiting, Delivered, RingInit
  <2>3. Contents = <<>>
    BY <2>1, <2>2, ContentsSeq
  <2> QED
    BY <2>2, <2>3 DEF Abs!Init
<1>2. IInv /\ IInv' /\ [Next]_vars => [Abs!Next]_<<Contents, Delivered, dropped>>
  <2> SUFFICES ASSUME IInv, IInv', [Next]_vars
               PROVE  [Abs!Next]_<<Contents, Delivered, dropped>>
    OBVIOUS
  <2>1. CASE PopRead
    BY <2>1, PopReadRefines DEF Abs!Next
  <2>2. CASE IsrPush
    BY <2>2, IsrPushRefines DEF Abs!Next
  <2>3. CASE ~PopRead /\ ~IsrPush
    BY <2>3, OthersRefine
  <2> QED
    BY <2>1, <2>2, <2>3
<1> QED
  BY <1>1, <1>2, Inductive, PTL DEF Spec, AbsSpec, Abs!Spec
=============================================================================
