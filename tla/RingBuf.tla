-------------------------------- MODULE RingBuf --------------------------------
(***************************************************************************)
(* user/ringbuf.c: a ring of bytes in which one byte stays free, to tell a *)
(* full ring from an empty one.  A ring is a record; buf is what it holds  *)
(* between tail and head, and Garbage elsewhere.                           *)
(***************************************************************************)
EXTENDS Integers, Sequences

CONSTANTS
  Capacity,   \* the capacity it is created with
  Garbage     \* a byte nobody has written, or that was read already

ASSUME RingAssumption == Capacity \in Nat \ {0}

BufferSize == Capacity + 1
Positions == 0 .. BufferSize - 1

ringbuf_new == [buf |-> [i \in Positions |-> Garbage], head |-> 0, tail |-> 0]

ringbuf_reset(rb) == ringbuf_new

ringbuf_bytes_free_mutant(rb) ==      \* forgets the byte that stays free
  IF rb.head >= rb.tail THEN BufferSize - (rb.head - rb.tail)
                        ELSE rb.tail - rb.head
ringbuf_bytes_free(rb) ==
  IF rb.head >= rb.tail THEN Capacity - (rb.head - rb.tail)
                        ELSE rb.tail - rb.head - 1

ringbuf_bytes_used(rb) == Capacity - ringbuf_bytes_free(rb)

(* The position n bytes on, for n up to the size of the buffer. *)
Advance(p, n) == IF p + n < BufferSize THEN p + n ELSE p + n - BufferSize

(* How far position p lies behind position q. *)
Distance(q, p) == IF p >= q THEN p - q ELSE p + BufferSize - q

(* The bytes go in at the head.  What does not fit overwrites the oldest    *)
(* ones, and the tail moves behind the head.                                *)
ringbuf_memcpy_into(rb, bytes) ==
  LET n == Len(bytes)
      next == Advance(rb.head, n)
  IN  [buf  |-> [i \in Positions |->
                   IF Distance(rb.head, i) < n THEN bytes[Distance(rb.head, i) + 1]
                   ELSE rb.buf[i]],
       head |-> next,
       tail |-> IF n > ringbuf_bytes_free(rb) THEN Advance(next, 1) ELSE rb.tail]

(* The ring after count bytes were copied out; it must hold as many.        *)
ringbuf_memcpy_from(rb, count) ==
  IF count > ringbuf_bytes_used(rb) THEN rb
  ELSE [rb EXCEPT !.buf = [i \in Positions |->
                             IF Distance(rb.tail, i) < count THEN Garbage ELSE @[i]],
                  !.tail = Advance(@, count)]

(* What the ring holds, the oldest byte first. *)
Contents(rb) ==
  [i \in 1 .. ringbuf_bytes_used(rb) |-> rb.buf[Advance(rb.tail, i - 1)]]
=============================================================================
