----------------------------- MODULE RingBuffer -----------------------------
(***************************************************************************)
(* struct ringbuffer of libcoll/src/ringbuffer.c: the indices of a         *)
(* circular buffer.  The elements are the caller's; push_index and         *)
(* pop_index only say which slot to write or to read.                      *)
(***************************************************************************)
EXTENDS Naturals

RingInit(maxlen) == [head |-> 0, tail |-> 0, count |-> 0, maxlen |-> maxlen]

IsFull(rb) == rb.count = rb.maxlen

IsEmpty(rb) == rb.count = 0

\* The index after i, with the wrap-around both operations spell out.
Advance(rb, i) == IF i + 1 = rb.maxlen THEN 0 ELSE i + 1

\* push_index returns rb.tail and leaves this behind ...
Pushed(rb) == [rb EXCEPT !.tail = Advance(rb, @), !.count = @ + 1]

\* ... and pop_index returns rb.head and leaves this behind.
Popped(rb) == [rb EXCEPT !.head = Advance(rb, @), !.count = @ - 1]

\* The k-th slot from slot i on.
SlotFrom(rb, i, k) ==
  IF i + k - 1 < rb.maxlen THEN i + k - 1 ELSE i + k - 1 - rb.maxlen
=============================================================================
