----------------------------- MODULE PacketPathProofs -----------------------------
(***************************************************************************)
(* Proofs about the packet path for every rate, bucket, timer interval,    *)
(* word size, list of rules and capacity of the monitor's ring.            *)
(***************************************************************************)
EXTENDS PacketPath, FiniteSetTheorems, TLAPS
-----------------------------------------------------------------------------
(* The ring and the monitor, for every capacity, record header and size of  *)
(* what is sent at once.                                                    *)

Bytes == Ids \cup {"pcap_pkthdr", Garbage}
Rings == [buf : [Positions -> Bytes], head : Positions, tail : Positions]

USE DEF BufferSize, Positions, Rings

LEMMA NewRing == ringbuf_new \in Rings /\ ringbuf_bytes_free(ringbuf_new) = Capacity
BY RingAssumption DEF ringbuf_new, ringbuf_bytes_free, Bytes

(* Neither fill level leaves the capacity. *)
LEMMA FreeRange ==
  ASSUME NEW rb \in Rings
  PROVE  /\ ringbuf_bytes_free(rb) \in 0 .. Capacity
         /\ ringbuf_bytes_used(rb) = Capacity - ringbuf_bytes_free(rb)
BY RingAssumption DEF ringbuf_bytes_free, ringbuf_bytes_used

(* Copying out frees as many bytes as were copied. *)
LEMMA TakeFrees ==
  ASSUME NEW rb \in Rings, NEW n \in Nat, n <= ringbuf_bytes_used(rb)
  PROVE  /\ ringbuf_memcpy_from(rb, n) \in Rings
         /\ ringbuf_bytes_free(ringbuf_memcpy_from(rb, n)) = ringbuf_bytes_free(rb) + n
<1> DEFINE out == ringbuf_memcpy_from(rb, n)
<1>1. n <= Capacity
  BY FreeRange, RingAssumption
<1>2. Advance(rb.tail, n) \in Positions
  BY <1>1, RingAssumption DEF Advance
<1>3. out.head = rb.head /\ out.tail = Advance(rb.tail, n)
  <2>1. ~(n > ringbuf_bytes_used(rb))
    BY FreeRange, RingAssumption
  <2>2. QED
    BY <2>1 DEF ringbuf_memcpy_from
<1>4. out \in Rings
  BY <1>2 DEF ringbuf_memcpy_from, Bytes
<1>5. ringbuf_bytes_free(out) = ringbuf_bytes_free(rb) + n
  BY <1>1, <1>3, RingAssumption DEF ringbuf_bytes_free, ringbuf_bytes_used, Advance
<1>6. QED
  BY <1>4, <1>5

(* Copying in what fits keeps the tail and takes up as many bytes. *)
LEMMA PutFits ==
  ASSUME NEW rb \in Rings, NEW bytes \in Seq(Bytes), Len(bytes) <= ringbuf_bytes_free(rb)
  PROVE  /\ ringbuf_memcpy_into(rb, bytes) \in Rings
         /\ ringbuf_bytes_free(ringbuf_memcpy_into(rb, bytes))
              = ringbuf_bytes_free(rb) - Len(bytes)
<1> DEFINE n == Len(bytes)
           in == ringbuf_memcpy_into(rb, bytes)
<1>1. n \in Nat /\ n <= Capacity
  BY FreeRange, RingAssumption
<1>2. Advance(rb.head, n) \in Positions
  BY <1>1, RingAssumption DEF Advance
<1>3. in.head = Advance(rb.head, n) /\ in.tail = rb.tail
  BY <1>1, FreeRange DEF ringbuf_memcpy_into
<1>4. \A i \in Positions : Distance(rb.head, i) \in Nat
  BY RingAssumption DEF Distance
<1>5. \A i \in Positions : Distance(rb.head, i) < n =>
        bytes[Distance(rb.head, i) + 1] \in Bytes
  BY <1>1, <1>4
<1>6. in.buf \in [Positions -> Bytes]
  BY <1>5 DEF ringbuf_memcpy_into
<1>7. in \in Rings
  BY <1>2, <1>3, <1>6 DEF ringbuf_memcpy_into
<1>8. ringbuf_bytes_free(in) = ringbuf_bytes_free(rb) - n
  BY <1>1, <1>3, RingAssumption DEF ringbuf_bytes_free, Advance
<1>9. QED
  BY <1>7, <1>8

(* What a ring holds is a sequence as long as the ring is full. *)
LEMMA ContentsSeq ==
  ASSUME NEW rb \in Rings
  PROVE  Contents(rb) \in Seq(Bytes) /\ Len(Contents(rb)) = ringbuf_bytes_used(rb)
<1> DEFINE used == ringbuf_bytes_used(rb)
<1>1. used \in Nat /\ used <= Capacity
  BY FreeRange, RingAssumption
<1>2. \A i \in 1 .. used : Advance(rb.tail, i - 1) \in Positions
  BY <1>1, RingAssumption DEF Advance
<1>3. \A i \in 1 .. used : rb.buf[Advance(rb.tail, i - 1)] \in Bytes
  BY <1>2
<1> HIDE DEF used
<1>4. Contents(rb) = [i \in 1 .. used |-> rb.buf[Advance(rb.tail, i - 1)]]
  BY DEF Contents, used
<1>5. QED
  BY <1>1, <1>3, <1>4 DEF used

(* Positions are as far apart as they were advanced from a common one. *)
LEMMA AdvanceCases ==
  ASSUME NEW t \in Positions, NEW a \in 0 .. Capacity
  PROVE  /\ Advance(t, a) \in Positions
         /\ Advance(t, a) = t + a \/ Advance(t, a) = t + a - BufferSize
BY RingAssumption DEF Advance

LEMMA DistanceAhead ==
  ASSUME NEW t \in Positions, NEW a \in 0 .. Capacity, NEW b \in a .. Capacity
  PROVE  Distance(Advance(t, a), Advance(t, b)) = b - a
<1>1. b \in 0 .. Capacity
  BY RingAssumption
<1> DEFINE p == Advance(t, a)
           q == Advance(t, b)
<1>2. /\ p \in Positions /\ q \in Positions
      /\ p = t + a \/ p = t + a - BufferSize
      /\ q = t + b \/ q = t + b - BufferSize
  BY <1>1, AdvanceCases
<1> HIDE DEF p, q
<1>3. Distance(p, q) = b - a
  BY <1>1, <1>2, RingAssumption DEF Distance
<1>4. QED
  BY <1>3 DEF p, q

LEMMA DistanceBehind ==
  ASSUME NEW t \in Positions, NEW a \in 0 .. Capacity, NEW b \in 0 .. Capacity, b < a
  PROVE  Distance(Advance(t, a), Advance(t, b)) = b - a + BufferSize
<1> DEFINE p == Advance(t, a)
           q == Advance(t, b)
<1>2. /\ p \in Positions /\ q \in Positions
      /\ p = t + a \/ p = t + a - BufferSize
      /\ q = t + b \/ q = t + b - BufferSize
  BY AdvanceCases
<1> HIDE DEF p, q
<1>3. Distance(p, q) = b - a + BufferSize
  BY <1>2, RingAssumption DEF Distance
<1>4. QED
  BY <1>3 DEF p, q

(* The head is as far behind the tail as there are bytes. *)
LEMMA HeadAfterUsed ==
  ASSUME NEW rb \in Rings
  PROVE  rb.head = Advance(rb.tail, ringbuf_bytes_used(rb))
<1>1. rb.head \in 0 .. Capacity /\ rb.tail \in 0 .. Capacity /\ Capacity \in Nat
  BY RingAssumption
<1>2. QED
  BY <1>1 DEF ringbuf_bytes_used, ringbuf_bytes_free, Advance

(* What is copied in comes behind what was there, wherever the ring wraps.  *)
LEMMA PutAppends ==
  ASSUME NEW rb \in Rings, NEW bytes \in Seq(Bytes), Len(bytes) <= ringbuf_bytes_free(rb)
  PROVE  Contents(ringbuf_memcpy_into(rb, bytes)) = Contents(rb) \o bytes
<1> DEFINE n == Len(bytes)
           in == ringbuf_memcpy_into(rb, bytes)
           used == ringbuf_bytes_used(rb)
           slot(i) == Advance(rb.tail, i - 1)
<1>1. /\ n \in Nat /\ used \in Nat /\ used + n <= Capacity
      /\ ~(n > ringbuf_bytes_free(rb))
  BY FreeRange, RingAssumption
<1>2. in.tail = rb.tail /\ ringbuf_bytes_used(in) = used + n
  <2>1. in \in Rings /\ ringbuf_bytes_free(in) = ringbuf_bytes_free(rb) - n
    BY PutFits
  <2>2. ringbuf_bytes_used(in) = used + n
    BY <2>1, FreeRange, RingAssumption DEF ringbuf_bytes_used
  <2>4. in.tail = rb.tail
    BY <1>1 DEF ringbuf_memcpy_into
  <2>5. QED
    BY <2>2, <2>4
<1>3. \A i \in 1 .. used + n : slot(i) \in Positions
  BY <1>1, RingAssumption DEF Advance
<1>4. \A i \in 1 .. used : ~(Distance(rb.head, slot(i)) < n)
  <2> SUFFICES ASSUME NEW i \in 1 .. used
               PROVE  ~(Distance(rb.head, slot(i)) < n)
    OBVIOUS
  <2>1. rb.tail \in Positions /\ used \in 0 .. Capacity /\ i - 1 \in 0 .. Capacity /\ i - 1 < used
    BY <1>1, RingAssumption
  <2>2. Distance(rb.head, slot(i)) = (i - 1) - used + BufferSize
    BY <2>1, DistanceBehind, HeadAfterUsed
  <2> HIDE DEF used, n, slot
  <2>3. QED
    BY <1>1, <2>2, RingAssumption
<1>5. \A i \in used + 1 .. used + n : Distance(rb.head, slot(i)) = i - used - 1
  <2> SUFFICES ASSUME NEW i \in used + 1 .. used + n
               PROVE  Distance(rb.head, slot(i)) = i - used - 1
    OBVIOUS
  <2>1. rb.tail \in Positions /\ used \in 0 .. Capacity /\ i - 1 \in used .. Capacity
    BY <1>1, RingAssumption
  <2>2. Distance(rb.head, slot(i)) = (i - 1) - used
    BY <2>1, DistanceAhead, HeadAfterUsed
  <2> HIDE DEF used, n, slot
  <2>3. QED
    BY <1>1, <2>2
<1>6. \A i \in 1 .. used : in.buf[slot(i)] = rb.buf[slot(i)]
  BY <1>1, <1>3, <1>4 DEF ringbuf_memcpy_into
<1>7. \A i \in used + 1 .. used + n : in.buf[slot(i)] = bytes[i - used]
  <2> SUFFICES ASSUME NEW i \in used + 1 .. used + n
               PROVE  in.buf[slot(i)] = bytes[i - used]
    OBVIOUS
  <2>1. slot(i) \in Positions
    BY <1>1, <1>3
  <2>2. Distance(rb.head, slot(i)) = i - used - 1 /\ i - used - 1 < n
    BY <1>1, <1>5
  <2>3. in.buf[slot(i)] = bytes[Distance(rb.head, slot(i)) + 1]
    BY <2>1, <2>2 DEF ringbuf_memcpy_into
  <2>4. QED
    BY <1>1, <2>2, <2>3
<1> HIDE DEF in, used, n, slot
<1>8. Contents(in) = [i \in 1 .. used + n |-> in.buf[slot(i)]]
  BY <1>2 DEF Contents, slot
<1>9. Contents(rb) = [i \in 1 .. used |-> rb.buf[slot(i)]]
  BY DEF Contents, slot, used
<1>10. Contents(rb) \in Seq(Bytes) /\ Len(Contents(rb)) = used
  BY ContentsSeq DEF used
<1>11. Contents(in) = Contents(rb) \o bytes
  BY <1>1, <1>6, <1>7, <1>8, <1>9, <1>10 DEF n
<1>12. QED
  BY <1>11 DEF in

(* What is copied out is the front of what was there. *)
LEMMA TakeDropsFront ==
  ASSUME NEW rb \in Rings, NEW count \in Nat, count <= ringbuf_bytes_used(rb)
  PROVE  Contents(ringbuf_memcpy_from(rb, count))
           = SubSeq(Contents(rb), count + 1, Len(Contents(rb)))
<1> DEFINE out == ringbuf_memcpy_from(rb, count)
           used == ringbuf_bytes_used(rb)
           slot(i) == Advance(rb.tail, i - 1)
<1>1. used \in Nat /\ used <= Capacity
  BY FreeRange, RingAssumption
<1>2. ~(count > used)
  BY <1>1
<1>3. out.tail = Advance(rb.tail, count)
  BY <1>2 DEF ringbuf_memcpy_from
<1>4. ringbuf_bytes_used(out) = used - count
  BY TakeFrees, FreeRange, RingAssumption DEF ringbuf_bytes_used
<1>5. \A i \in 1 .. used : slot(i) \in Positions
  BY <1>1, RingAssumption DEF Advance
<1>6. \A i \in count + 1 .. used : ~(Distance(rb.tail, slot(i)) < count)
  <2> SUFFICES ASSUME NEW i \in count + 1 .. used
               PROVE  ~(Distance(rb.tail, slot(i)) < count)
    OBVIOUS
  <2>1. rb.tail \in Positions /\ i - 1 \in 0 .. Capacity /\ 0 \in 0 .. Capacity
    BY <1>1, RingAssumption
  <2>2. Advance(rb.tail, 0) = rb.tail
    BY <2>1, RingAssumption DEF Advance
  <2>3. Distance(rb.tail, slot(i)) = i - 1
    BY <2>1, <2>2, DistanceAhead
  <2> HIDE DEF used, slot
  <2>4. QED
    BY <1>1, <2>3
<1>7. \A i \in count + 1 .. used : out.buf[slot(i)] = rb.buf[slot(i)]
  BY <1>1, <1>2, <1>5, <1>6 DEF ringbuf_memcpy_from
<1>8. \A i \in 1 .. used - count : Advance(out.tail, i - 1) = slot(i + count)
  BY <1>1, <1>3, RingAssumption DEF Advance
<1> HIDE DEF out, used, slot
<1>9. Contents(out) = [i \in 1 .. used - count |-> rb.buf[slot(i + count)]]
  <2>1. Contents(out) = [i \in 1 .. used - count |-> out.buf[Advance(out.tail, i - 1)]]
    BY <1>4 DEF Contents
  <2>2. \A i \in 1 .. used - count : out.buf[Advance(out.tail, i - 1)] = rb.buf[slot(i + count)]
    BY <1>1, <1>7, <1>8
  <2>3. QED
    BY <2>1, <2>2
<1>10. Contents(rb) = [i \in 1 .. used |-> rb.buf[slot(i)]]
  BY DEF Contents, slot, used
<1>11. Contents(rb) \in Seq(Bytes) /\ Len(Contents(rb)) = used
  BY ContentsSeq DEF used
<1>12. QED
  BY <1>1, <1>2, <1>9, <1>10, <1>11 DEF out
-----------------------------------------------------------------------------
(* A connection is accepted only while a port is set. *)
ListeningHasPort == listening => monitor_port

MInv == MonitorType /\ BufferWhileOn /\ IdleHasRoom /\ ListeningHasPort

LEMMA MonitorTypeRing == MonitorType <=>
  /\ pcap_buffer \in Rings
  /\ monitor_port \in BOOLEAN /\ listening \in BOOLEAN /\ monitoring_on \in BOOLEAN
  /\ acl_monitoring \in BOOLEAN /\ monitoring_send_ongoing \in BOOLEAN
  /\ cur_mon_conn \in Clients \cup {NONE}
  /\ up \subseteq Clients /\ closing \subseteq up /\ unsent \subseteq up
BY DEF MonitorType, Bytes

(* Whatever becomes of the send, tcp_monitor_sent_cb takes a front of the   *)
(* ring out and leaves room for a packet.                                   *)
LEMMA SentCbStep ==
  ASSUME NEW c, NEW ring \in Rings, NEW pending \in SUBSET up,
         tcp_monitor_sent_cb(c, ring, pending), monitoring_on \in BOOLEAN
  PROVE  /\ pcap_buffer' \in Rings
         /\ monitoring_send_ongoing' \in BOOLEAN
         /\ unsent' \in SUBSET up
         /\ monitoring_on => ringbuf_bytes_free(pcap_buffer') >= HEADER + CUT
         /\ \E n \in 0 .. Len(Contents(ring)) :
              Contents(pcap_buffer') = SubSeq(Contents(ring), n + 1, Len(Contents(ring)))
<1> DEFINE used == ringbuf_bytes_used(ring)
           len == IF used > SEND_MAX THEN SEND_MAX ELSE used
           rest == ringbuf_memcpy_from(ring, len)
<1>1. /\ used \in Nat /\ len \in Nat /\ len <= used
      /\ ringbuf_bytes_free(ring) \in Nat /\ used = Capacity - ringbuf_bytes_free(ring)
  BY FreeRange, RingAssumption, MonitorAssumption
<1>2. rest \in Rings /\ ringbuf_bytes_free(rest) = ringbuf_bytes_free(ring) + len
  BY <1>1, TakeFrees
<1>3. len # 0 => ringbuf_bytes_free(rest) >= HEADER + CUT
  BY <1>1, <1>2, RingAssumption, MonitorAssumption
<1>4. len = 0 => ringbuf_bytes_free(ring) >= HEADER + CUT
  BY <1>1, RingAssumption, MonitorAssumption
<1>5. Contents(ring) \in Seq(Bytes) /\ Len(Contents(ring)) = used
  BY ContentsSeq
<1>6. Contents(rest) = SubSeq(Contents(ring), len + 1, Len(Contents(ring)))
  BY <1>1, TakeDropsFront
<1>7. CASE ~monitoring_on \/ len = 0
  <2>1. pcap_buffer' = ring /\ unsent' = pending /\ monitoring_send_ongoing' = FALSE
    BY <1>7 DEF tcp_monitor_sent_cb
  <2>2. Contents(ring) = SubSeq(Contents(ring), 0 + 1, Len(Contents(ring)))
    BY <1>5
  <2>3. 0 \in 0 .. Len(Contents(ring))
    BY <1>1, <1>5
  <2>4. \E n \in 0 .. Len(Contents(ring)) :
          Contents(pcap_buffer') = SubSeq(Contents(ring), n + 1, Len(Contents(ring)))
    BY <2>1, <2>2, <2>3
  <2>5. QED
    BY <1>4, <1>7, <2>1, <2>4
<1>8. CASE ~(~monitoring_on \/ len = 0)
  <2>1. PICK ok \in CanSend(c) :
          /\ pcap_buffer' = rest /\ monitoring_send_ongoing' = ok
          /\ unsent' = IF ok THEN pending \cup {c} ELSE pending
    BY <1>8 DEF tcp_monitor_sent_cb
  <2>2. ok \in BOOLEAN /\ (ok => c \in up)
    BY DEF CanSend
  <2>3. len \in 0 .. Len(Contents(ring))
    BY <1>1, <1>5
  <2>4. QED
    BY <1>2, <1>3, <1>6, <1>8, <2>1, <2>2, <2>3
<1>9. QED
  BY <1>7, <1>8

(* A packet that fits is recorded behind what is there, as a whole record.  *)
LEMMA PutRecord ==
  ASSUME NEW p, p.len \in 1 .. MaxLen, p.id \in Ids, pcap_buffer \in Rings
  PROVE  /\ put_packet_to_ringbuf(p) \in Rings
         /\ \E r \in Records \cup {<<>>} :
              Contents(put_packet_to_ringbuf(p)) = Contents(pcap_buffer) \o r
<1> DEFINE free == ringbuf_bytes_free(pcap_buffer)
           n == CapLen(p)
           header == ringbuf_memcpy_into(pcap_buffer, PcapHeader)
           data == Payload(p, n)
           r == PcapHeader \o data
<1>1. n \in 1 .. MaxLen
  BY MonitorAssumption, FreeRange, RingAssumption DEF CapLen
<1>2. PcapHeader \in Seq(Bytes) /\ Len(PcapHeader) = HEADER
  BY MonitorAssumption DEF PcapHeader, Bytes
<1>3. data \in Seq(Bytes) /\ Len(data) = n
  BY <1>1, MonitorAssumption DEF Payload, Bytes
<1>4. r \in Records
  <2>1. data = Payload([id |-> p.id], n)
    BY DEF Payload
  <2>2. QED
    BY <1>1, <2>1 DEF Records
<1> HIDE DEF n, data
<1>5. CASE Fits(p)
  <2>1. free \in Nat /\ HEADER + n <= free
    BY <1>5, FreeRange, RingAssumption, MonitorAssumption DEF Fits, n
  <2>2. Len(PcapHeader) <= free
    BY <1>1, <1>2, <2>1, MonitorAssumption
  <2>3. /\ header \in Rings /\ ringbuf_bytes_free(header) = free - HEADER
        /\ Contents(header) = Contents(pcap_buffer) \o PcapHeader
    BY <1>2, <2>2, PutFits, PutAppends
  <2>4. Len(data) <= ringbuf_bytes_free(header)
    BY <1>1, <1>3, <2>1, <2>3, MonitorAssumption
  <2>5. /\ ringbuf_memcpy_into(header, data) \in Rings
        /\ Contents(ringbuf_memcpy_into(header, data)) = Contents(header) \o data
    BY <1>3, <2>3, <2>4, PutFits, PutAppends
  <2>6. put_packet_to_ringbuf(p) = ringbuf_memcpy_into(header, data)
    BY <1>5 DEF put_packet_to_ringbuf, data, n
  <2>7. Contents(header) \o data = Contents(pcap_buffer) \o r
    <3>1. Contents(pcap_buffer) \in Seq(Bytes)
      BY ContentsSeq
    <3>2. QED
      BY <1>2, <1>3, <2>3, <3>1
  <2>8. QED
    BY <1>4, <2>5, <2>6, <2>7
<1>6. CASE ~Fits(p)
  <2>1. put_packet_to_ringbuf(p) = pcap_buffer
    BY <1>6 DEF put_packet_to_ringbuf
  <2>2. Contents(pcap_buffer) = Contents(pcap_buffer) \o <<>>
    BY ContentsSeq
  <2>3. QED
    BY <2>1, <2>2
<1>7. QED
  BY <1>5, <1>6

(* A record goes in and a front comes out: a step of the stream. *)
LEMMA StreamMove ==
  ASSUME NEW r \in Records \cup {<<>>},
         NEW n \in 0 .. Len(Contents(pcap_buffer) \o r),
         Contents(pcap_buffer)'
           = SubSeq(Contents(pcap_buffer) \o r, n + 1, Len(Contents(pcap_buffer) \o r))
  PROVE  Stream!Next
<1> DEFINE all == Contents(pcap_buffer) \o r
<1>1. Contents(pcap_buffer)' = Stream!After(all, n)
  BY DEF Stream!After
<1>2. \E k \in 0 .. Len(all) : Contents(pcap_buffer)' = Stream!After(all, k)
  BY <1>1
<1>3. Stream!Move
  BY <1>2 DEF Stream!Move
<1>4. QED
  BY <1>3 DEF Stream!Next

(* The monitor's part of the hooks keeps the invariant, and what it does to *)
(* what waits in the ring is a step of the stream.                          *)
LEMMA MirrorStep ==
  ASSUME MInv, NEW p, p.len \in 1 .. MaxLen, p.id \in Ids, NEW verdict, Mirror(p, verdict)
  PROVE  MInv' /\ (Stream!Next \/ UNCHANGED Contents(pcap_buffer))
<1> DEFINE ring == put_packet_to_ringbuf(p)
<1>1. /\ ring \in Rings
      /\ \E r \in Records \cup {<<>>} : Contents(ring) = Contents(pcap_buffer) \o r
  BY PutRecord, MonitorTypeRing DEF MInv
<1>2. UNCHANGED <<monitor_port, listening, monitoring_on, acl_monitoring,
                  cur_mon_conn, up, closing>>
  BY DEF Mirror
<1>3. BufferWhileOn' /\ ListeningHasPort'
  BY <1>2 DEF MInv, BufferWhileOn, ListeningHasPort
<1> HIDE DEF ring
<1>4. CASE UNCHANGED <<pcap_buffer, unsent, monitoring_send_ongoing>>
  <2>1. MonitorType' /\ IdleHasRoom'
    BY <1>2, <1>4 DEF MInv, MonitorType, IdleHasRoom
  <2>2. QED
    BY <1>3, <1>4, <2>1 DEF MInv
<1>5. CASE /\ monitoring_send_ongoing /\ pcap_buffer' = ring
           /\ UNCHANGED <<unsent, monitoring_send_ongoing>>
  <2>1. MonitorType'
    BY <1>1, <1>2, <1>5, MonitorTypeRing DEF MInv, MonitorType, Bytes
  <2>2. IdleHasRoom'
    BY <1>5 DEF IdleHasRoom
  <2>3. PICK r \in Records \cup {<<>>} : Contents(ring) = Contents(pcap_buffer) \o r
    BY <1>1
  <2>4. Stream!Next
    <3>1. Contents(ring) \in Seq(Bytes)
      BY <1>1, ContentsSeq
    <3>2. Contents(ring) = SubSeq(Contents(ring), 0 + 1, Len(Contents(ring)))
      BY <3>1
    <3>3. 0 \in 0 .. Len(Contents(ring))
      BY <3>1
    <3>4. QED
      BY <1>5, <2>3, <3>2, <3>3, StreamMove
  <2>5. QED
    BY <1>3, <2>1, <2>2, <2>4 DEF MInv
<1>6. CASE tcp_monitor_sent_cb(cur_mon_conn, ring, unsent)
  <2>1. unsent \in SUBSET up /\ monitoring_on \in BOOLEAN
    BY DEF MInv, MonitorType
  <2>2. /\ pcap_buffer' \in Rings
        /\ monitoring_send_ongoing' \in BOOLEAN /\ unsent' \in SUBSET up
        /\ monitoring_on => ringbuf_bytes_free(pcap_buffer') >= HEADER + CUT
        /\ \E n \in 0 .. Len(Contents(ring)) :
             Contents(pcap_buffer') = SubSeq(Contents(ring), n + 1, Len(Contents(ring)))
    BY <1>1, <1>6, <2>1, SentCbStep
  <2>3. MonitorType'
    BY <1>2, <2>2 DEF MInv, MonitorType, Bytes
  <2>4. IdleHasRoom'
    BY <1>2, <2>2 DEF IdleHasRoom
  <2>5. Stream!Next
    <3>1. PICK r \in Records \cup {<<>>} : Contents(ring) = Contents(pcap_buffer) \o r
      BY <1>1
    <3>2. QED
      BY <2>2, <3>1, StreamMove
  <2>6. QED
    BY <1>3, <2>3, <2>4, <2>5 DEF MInv
<1>7. QED
  BY <1>4, <1>5, <1>6 DEF Mirror, ring

LEMMA MonitorInitInv == MonitorInit => MInv /\ Stream!Init
<1> SUFFICES ASSUME MonitorInit PROVE MInv /\ Stream!Init
  OBVIOUS
<1>1. MonitorType
  BY NewRing, MonitorTypeRing DEF MonitorInit
<1>2. BufferWhileOn /\ IdleHasRoom /\ ListeningHasPort
  BY DEF MonitorInit, BufferWhileOn, IdleHasRoom, ListeningHasPort
<1>3. Contents(ringbuf_new) = <<>>
  BY NewRing, ContentsSeq, RingAssumption DEF ringbuf_bytes_used
<1>4. QED
  BY <1>1, <1>2, <1>3 DEF MInv, Stream!Init, MonitorInit

(* A ring made new or reset is empty. *)
LEMMA StreamReset ==
  ASSUME pcap_buffer' = ringbuf_new
  PROVE  Stream!Next
<1>1. Contents(ringbuf_new) = <<>>
  BY NewRing, ContentsSeq, RingAssumption DEF ringbuf_bytes_used
<1>2. QED
  BY <1>1 DEF Stream!Next, Stream!Reset

(* Each command and callback of the monitor does the same. *)
LEMMA MonitorStep ==
  ASSUME MInv, MonitorNext
  PROVE  MInv' /\ (Stream!Next \/ UNCHANGED Contents(pcap_buffer))
<1> USE DEF MInv
<1>1. ASSUME NEW mode \in MonitorModes, MonitorOn(mode)
      PROVE  MInv' /\ (Stream!Next \/ UNCHANGED Contents(pcap_buffer))
  <2>1. MonitorType'
    BY <1>1, NewRing, MonitorTypeRing DEF MonitorOn, MonitorType, Bytes
  <2>2. BufferWhileOn' /\ IdleHasRoom' /\ ListeningHasPort'
    BY <1>1 DEF MonitorOn, MonitorType, BufferWhileOn, IdleHasRoom, ListeningHasPort
  <2>3. pcap_buffer' = ringbuf_new \/ UNCHANGED pcap_buffer
    BY <1>1 DEF MonitorOn
  <2>4. QED
    BY <2>1, <2>2, <2>3, StreamReset
<1>2. CASE MonitorOff
  <2>1. MonitorType'
    BY <1>2, NewRing, MonitorTypeRing DEF MonitorOff, MonitorType, Bytes
  <2>2. BufferWhileOn' /\ IdleHasRoom' /\ ListeningHasPort'
    BY <1>2 DEF MonitorOff, BufferWhileOn, IdleHasRoom, ListeningHasPort
  <2>3. QED
    BY <1>2, <2>1, <2>2, StreamReset DEF MonitorOff
<1>3. ASSUME NEW c \in Clients, MonitorConnected(c)
      PROVE  MInv' /\ (Stream!Next \/ UNCHANGED Contents(pcap_buffer))
  <2>1. MonitorType'
    BY <1>3, NewRing, MonitorTypeRing
    DEF MonitorConnected, MonitorType, ringbuf_reset, Bytes
  <2>2. BufferWhileOn' /\ IdleHasRoom' /\ ListeningHasPort'
    BY <1>3 DEF MonitorConnected, BufferWhileOn, IdleHasRoom, ListeningHasPort
  <2>3. QED
    BY <1>3, <2>1, <2>2, StreamReset DEF MonitorConnected, ringbuf_reset
<1>4. ASSUME NEW c \in Clients, MonitorSent(c)
      PROVE  MInv' /\ (Stream!Next \/ UNCHANGED Contents(pcap_buffer))
  <2>1. /\ pcap_buffer \in Rings /\ monitoring_on \in BOOLEAN
        /\ unsent \ {c} \in SUBSET up /\ tcp_monitor_sent_cb(c, pcap_buffer, unsent \ {c})
    BY <1>4, MonitorTypeRing DEF MonitorSent
  <2>2. /\ pcap_buffer' \in Rings
        /\ monitoring_send_ongoing' \in BOOLEAN /\ unsent' \in SUBSET up
        /\ monitoring_on => ringbuf_bytes_free(pcap_buffer') >= HEADER + CUT
        /\ \E n \in 0 .. Len(Contents(pcap_buffer)) :
             Contents(pcap_buffer')
               = SubSeq(Contents(pcap_buffer), n + 1, Len(Contents(pcap_buffer)))
    BY <2>1, SentCbStep
  <2>3. MonitorType'
    BY <1>4, <2>2 DEF MonitorSent, MonitorType, Bytes
  <2>4. BufferWhileOn' /\ IdleHasRoom' /\ ListeningHasPort'
    BY <1>4, <2>2 DEF MonitorSent, BufferWhileOn, IdleHasRoom, ListeningHasPort
  <2>5. Contents(pcap_buffer) = Contents(pcap_buffer) \o <<>>
    BY <2>1, ContentsSeq
  <2>6. Stream!Next
    BY <2>2, <2>5, StreamMove
  <2>7. QED
    BY <1>4, <2>3, <2>4, <2>6 DEF MonitorSent, ListeningHasPort
<1>5. ASSUME NEW c \in Clients, MonitorDisconnected(c) \/ MonitorBroken(c)
      PROVE  MInv' /\ (Stream!Next \/ UNCHANGED Contents(pcap_buffer))
  <2>1. MonitorType'
    BY <1>5 DEF MonitorDisconnected, MonitorBroken, Gone, MonitorType
  <2>2. BufferWhileOn' /\ IdleHasRoom' /\ ListeningHasPort'
    BY <1>5 DEF MonitorDisconnected, MonitorBroken, Gone, BufferWhileOn, IdleHasRoom, ListeningHasPort
  <2>3. QED
    BY <1>5, <2>1, <2>2 DEF MonitorDisconnected, MonitorBroken
<1>6. QED
  BY <1>1, <1>2, <1>3, <1>4, <1>5 DEF MonitorNext

HIDE DEF BufferSize, Positions, Rings
-----------------------------------------------------------------------------
(* Sums over finite sets (SumFunction), of which HitsCounted speaks: they are *)
(* well defined, do not depend on the order, and change term by term.       *)

LEMMA LeastNumber ==
  ASSUME NEW S, S \subseteq Nat, S # {}
  PROVE  \E s \in S : \A o \in S : ~(o < s)
<1> DEFINE R == {ss \in Nat \X Nat : ss[1] < ss[2]}
<1>1. IsWellFoundedOn(R, Nat)
  BY NatLessThanWellFounded DEF OpToRel
<1> HIDE DEF R
<1>2. PICK s \in S : \A o \in S : ~ (<<o, s>> \in R)
  BY <1>1, WFMin
<1>3. QED
  BY <1>2 DEF R

(* Of the finite sets that are bad there is one with fewest elements. *)
LEMMA SmallestSet ==
  ASSUME NEW S, IsFiniteSet(S), NEW Bad, Bad \subseteq SUBSET S, Bad # {}
  PROVE  \E T \in Bad : /\ IsFiniteSet(T)
                        /\ \A x \in T : IsFiniteSet(T \ {x}) /\ T \ {x} \notin Bad
<1>1. \A T \in SUBSET S : IsFiniteSet(T) /\ Cardinality(T) \in Nat
  BY FS_Subset, FS_CardinalityType
<1> DEFINE C == {Cardinality(T) : T \in Bad}
<1>2. C \subseteq Nat /\ C # {}
  BY <1>1
<1>3. PICK n \in C : \A o \in C : ~(o < n)
  <2> HIDE DEF C
  <2>1. QED
    BY <1>2, LeastNumber
<1>4. PICK T \in Bad : Cardinality(T) = n
  BY <1>3
<1>5. IsFiniteSet(T) /\ Cardinality(T) \in Nat
  BY <1>1
<1>6. ASSUME NEW x \in T
      PROVE  IsFiniteSet(T \ {x}) /\ T \ {x} \notin Bad
  <2>1. IsFiniteSet(T \ {x}) /\ Cardinality(T \ {x}) = Cardinality(T) - 1
    BY <1>5, FS_RemoveElement
  <2>2. Cardinality(T \ {x}) < n
    BY <1>4, <1>5, <2>1
  <2>3. QED
    BY <1>3, <2>1, <2>2
<1>7. QED
  BY <1>5, <1>6

Any(T) == CHOOSE x \in T : TRUE

LEMMA AnyIn == ASSUME NEW T, T # {} PROVE Any(T) \in T
BY DEF Any

(* What a sum is: g[T] is the sum of f over T, for the sets T of D. *)
SumStep(g, f, T) == IF T = {} THEN 0 ELSE f[Any(T)] + g[T \ {Any(T)}]
Sums(g, f, D) == g = [T \in D |-> SumStep(g, f, T)]

LEMMA SumIs ==
  ASSUME NEW f, NEW S, DOMAIN f = S
  PROVE  SumFunction(f) = (CHOOSE g : Sums(g, f, SUBSET S))[S]
BY DEF SumFunction, SumFunctionOnSet, FoldFunctionOnSet, MapThenFoldSet, Sums, SumStep, Any

UpTo(S, n) == {T \in SUBSET S : Cardinality(T) <= n}

LEMMA SumsExtend ==
  ASSUME NEW f, NEW S, IsFiniteSet(S), NEW n \in Nat, NEW g, Sums(g, f, UpTo(S, n))
  PROVE  \E h : Sums(h, f, UpTo(S, n + 1))
<1> DEFINE D == UpTo(S, n)
           E == UpTo(S, n + 1)
           h == [T \in E |-> IF T \in D THEN g[T] ELSE SumStep(g, f, T)]
<1>1. \A T \in SUBSET S : IsFiniteSet(T) /\ Cardinality(T) \in Nat
  BY FS_Subset, FS_CardinalityType
<1>2. D \subseteq E
  BY <1>1 DEF UpTo
<1>3. \A T \in E : T # {} => T \ {Any(T)} \in D
  <2> SUFFICES ASSUME NEW T \in E, T # {} PROVE T \ {Any(T)} \in D
    OBVIOUS
  <2>1. Any(T) \in T /\ T \in SUBSET S
    BY AnyIn DEF UpTo
  <2>2. Cardinality(T \ {Any(T)}) = Cardinality(T) - 1 /\ Cardinality(T) \in Nat
    BY <1>1, <2>1, FS_RemoveElement
  <2>3. QED
    BY <2>1, <2>2 DEF UpTo
<1>4. \A T \in D : g[T] = SumStep(g, f, T)
  BY DEF Sums
<1>5. \A T \in E : T # {} => h[T \ {Any(T)}] = g[T \ {Any(T)}]
  BY <1>2, <1>3
<1>6. \A T \in E : h[T] = SumStep(g, f, T)
  BY <1>4
<1>7. \A T \in E : SumStep(g, f, T) = SumStep(h, f, T)
  <2> HIDE DEF h, D, E
  <2>1. QED
    BY <1>5 DEF SumStep
<1>8. h = [T \in E |-> SumStep(h, f, T)]
  <2> DEFINE k == [T \in E |-> SumStep(h, f, T)]
  <2>1. \A T \in E : h[T] = k[T]
    <3>1. \A T \in E : k[T] = SumStep(h, f, T)
      OBVIOUS
    <3> HIDE DEF h, k, E
    <3>2. QED
      BY <1>6, <1>7, <3>1
  <2>2. h = [T \in E |-> h[T]] /\ k = [T \in E |-> k[T]]
    OBVIOUS
  <2> HIDE DEF h, k, E
  <2>3. QED
    BY <2>1, <2>2 DEF k
<1>9. QED
  <2> HIDE DEF h
  <2>1. QED
    BY <1>8 DEF Sums

LEMMA SumsExist ==
  ASSUME NEW f, NEW S, IsFiniteSet(S)
  PROVE  \E g : Sums(g, f, SUBSET S)
<1> DEFINE N == {n \in Nat : ~ \E g : Sums(g, f, UpTo(S, n))}
<1>1. \A T \in SUBSET S : Cardinality(T) \in Nat /\ Cardinality(T) <= Cardinality(S)
                          /\ (Cardinality(T) = 0 <=> T = {})
  BY FS_Subset, FS_CardinalityType, FS_EmptySet
<1>2. N = {}
  <2> SUFFICES ASSUME N # {} PROVE FALSE
    OBVIOUS
  <2>1. PICK n \in N : \A o \in N : ~(o < n)
    <3>1. N \subseteq Nat
      OBVIOUS
    <3> HIDE DEF N
    <3>2. QED
      BY <3>1, LeastNumber
  <2>2. CASE n = 0
    <3> DEFINE g == [T \in {{}} |-> 0]
    <3>1. UpTo(S, 0) = {{}}
      BY <1>1 DEF UpTo
    <3>2. \A h : SumStep(h, f, {}) = 0
      BY DEF SumStep
    <3>3. g = [T \in {{}} |-> SumStep(g, f, T)]
      BY <3>2
    <3>4. Sums(g, f, UpTo(S, 0))
      <4> HIDE DEF g
      <4>1. QED
        BY <3>1, <3>3 DEF Sums
    <3>5. QED
      BY <2>2, <3>4
  <2>3. CASE n # 0
    <3>1. n - 1 \in Nat /\ n - 1 < n /\ (n - 1) + 1 = n
      BY <2>3
    <3>2. PICK g : Sums(g, f, UpTo(S, n - 1))
      BY <2>1, <3>1
    <3>3. \E h : Sums(h, f, UpTo(S, (n - 1) + 1))
      BY <3>1, <3>2, SumsExtend
    <3>4. QED
      BY <3>1, <3>3
  <2>4. QED
    BY <2>2, <2>3
<1>3. Cardinality(S) \in Nat /\ UpTo(S, Cardinality(S)) = SUBSET S
  BY <1>1 DEF UpTo
<1>4. Cardinality(S) \notin N
  BY <1>2
<1>5. \E g : Sums(g, f, UpTo(S, Cardinality(S)))
  BY <1>3, <1>4
<1>6. QED
  BY <1>3, <1>5

(* The same, as a property of the sums g of the parts of S. *)
SumRules(g, f, S) ==
  \A T \in SUBSET S :
    /\ T = {} => g[T] = 0
    /\ T # {} => /\ Any(T) \in T /\ T \ {Any(T)} \in SUBSET S
                 /\ g[T] = f[Any(T)] + g[T \ {Any(T)}]

LEMMA SumOf ==
  ASSUME NEW S, NEW f, NEW g, Sums(g, f, SUBSET S)
  PROVE  SumRules(g, f, S)
BY AnyIn DEF Sums, SumStep, SumRules

LEMMA SumFacts ==
  ASSUME NEW S, IsFiniteSet(S), NEW f, DOMAIN f = S
  PROVE  \E g : SumRules(g, f, S) /\ SumFunction(f) = g[S]
<1> DEFINE g == CHOOSE g : Sums(g, f, SUBSET S)
<1>1. Sums(g, f, SUBSET S)
  BY SumsExist
<1>2. SumFunction(f) = g[S]
  BY SumIs
<1> HIDE DEF g
<1>3. SumRules(g, f, S)
  BY <1>1, SumOf
<1>4. QED
  BY <1>2, <1>3

LEMMA SumTyped ==
  ASSUME NEW S, IsFiniteSet(S), NEW f \in [S -> Nat], NEW g, SumRules(g, f, S)
  PROVE  \A T \in SUBSET S : g[T] \in Nat
<1> DEFINE Bad == {T \in SUBSET S : g[T] \notin Nat}
<1> SUFFICES ASSUME Bad # {} PROVE FALSE
  OBVIOUS
<1>1. PICK T \in Bad : \A x \in T : T \ {x} \notin Bad
  <2>1. Bad \subseteq SUBSET S
    OBVIOUS
  <2> HIDE DEF Bad
  <2>2. QED
    BY <2>1, SmallestSet
<1>2. T \in SUBSET S /\ g[T] \notin Nat
  OBVIOUS
<1>3. T # {}
  <2> HIDE DEF Bad
  <2>1. SUFFICES ASSUME T = {} PROVE FALSE
    OBVIOUS
  <2>2. g[T] = 0
    BY <1>2, <2>1 DEF SumRules
  <2>3. QED
    BY <1>2, <2>2
<1>4. /\ Any(T) \in T /\ T \ {Any(T)} \in SUBSET S
      /\ g[T] = f[Any(T)] + g[T \ {Any(T)}]
  BY <1>2, <1>3 DEF SumRules
<1>5. g[T \ {Any(T)}] \in Nat
  BY <1>1, <1>4
<1>6. f[Any(T)] \in Nat
  BY <1>2, <1>4
<1>7. QED
  BY <1>2, <1>4, <1>5, <1>6

(* The order in which the elements are taken does not matter. *)
LEMMA SumAnyOrder ==
  ASSUME NEW S, IsFiniteSet(S), NEW f \in [S -> Nat], NEW g, SumRules(g, f, S)
  PROVE  \A T \in SUBSET S : \A x \in T : g[T] = f[x] + g[T \ {x}]
<1> DEFINE Bad == {T \in SUBSET S : ~ \A x \in T : g[T] = f[x] + g[T \ {x}]}
<1> SUFFICES ASSUME Bad # {} PROVE FALSE
  OBVIOUS
<1>1. PICK T \in Bad : \A x \in T : T \ {x} \notin Bad
  <2>1. Bad \subseteq SUBSET S
    OBVIOUS
  <2> HIDE DEF Bad
  <2>2. QED
    BY <2>1, SmallestSet
<1>2. T \in SUBSET S
  OBVIOUS
<1>3. PICK x \in T : g[T] # f[x] + g[T \ {x}]
  OBVIOUS
<1> DEFINE c == Any(T)
<1>4. c \in T /\ T \ {c} \in SUBSET S /\ g[T] = f[c] + g[T \ {c}]
  BY <1>2, <1>3 DEF SumRules
<1>5. c # x
  BY <1>3, <1>4
<1>6. \A U \in SUBSET S : U \notin Bad => \A y \in U : g[U] = f[y] + g[U \ {y}]
  OBVIOUS
<1>7. T \ {c} \notin Bad /\ T \ {x} \notin Bad
  BY <1>1, <1>3, <1>4
<1> HIDE DEF Bad, c
<1>8. g[T \ {c}] = f[x] + g[(T \ {c}) \ {x}]
  BY <1>2, <1>3, <1>5, <1>6, <1>7
<1>9. g[T \ {x}] = f[c] + g[(T \ {x}) \ {c}]
  BY <1>2, <1>4, <1>5, <1>6, <1>7
<1>10. (T \ {c}) \ {x} = (T \ {x}) \ {c}
  OBVIOUS
<1> DEFINE r == g[(T \ {c}) \ {x}]
<1>11. r \in Nat /\ f[c] \in Nat /\ f[x] \in Nat
  BY <1>2, <1>3, <1>4, SumTyped
<1>12. g[T] = f[c] + (f[x] + r) /\ g[T \ {x}] = f[c] + r
  BY <1>4, <1>8, <1>9, <1>10
<1> HIDE DEF r
<1>13. QED
  BY <1>3, <1>11, <1>12

(* Sums over a set depend on the values there alone. *)
LEMMA SumsAgree ==
  ASSUME NEW S, IsFiniteSet(S), NEW f, NEW g, SumRules(g, f, S),
         NEW R, R \subseteq S, NEW e, NEW h, SumRules(h, e, R),
         \A x \in R : e[x] = f[x]
  PROVE  g[R] = h[R]
<1> DEFINE Bad == {T \in SUBSET R : g[T] # h[T]}
<1>1. Bad = {}
  <2> SUFFICES ASSUME Bad # {} PROVE FALSE
    OBVIOUS
  <2>1. PICK T \in Bad : \A x \in T : T \ {x} \notin Bad
    <3>1. Bad \subseteq SUBSET S
      OBVIOUS
    <3> HIDE DEF Bad
    <3>2. QED
      BY <3>1, SmallestSet
  <2>2. T \in SUBSET R /\ T \in SUBSET S /\ g[T] # h[T]
    OBVIOUS
  <2>3. T # {}
    BY <2>2 DEF SumRules
  <2>4. /\ Any(T) \in T
        /\ g[T] = f[Any(T)] + g[T \ {Any(T)}] /\ h[T] = e[Any(T)] + h[T \ {Any(T)}]
    BY <2>2, <2>3 DEF SumRules
  <2>5. g[T \ {Any(T)}] = h[T \ {Any(T)}]
    BY <2>1, <2>2, <2>4
  <2>6. QED
    BY <2>2, <2>4, <2>5
<1>2. QED
  BY <1>1

LEMMA SumNat ==
  ASSUME NEW S, IsFiniteSet(S), NEW f \in [S -> Nat]
  PROVE  SumFunction(f) \in Nat
<1>1. PICK g : SumRules(g, f, S) /\ SumFunction(f) = g[S]
  BY SumFacts
<1>2. QED
  BY <1>1, SumTyped

(* One term can be taken out of a sum. *)
LEMMA SumWithout ==
  ASSUME NEW S, IsFiniteSet(S), NEW f \in [S -> Nat], NEW x \in S,
         NEW e, e = [y \in S \ {x} |-> f[y]]
  PROVE  SumFunction(f) = f[x] + SumFunction(e)
<1> DEFINE R == S \ {x}
<1>1. PICK g : SumRules(g, f, S) /\ SumFunction(f) = g[S]
  BY SumFacts
<1>2. IsFiniteSet(R) /\ R \subseteq S
  BY FS_RemoveElement
<1>3. DOMAIN e = R /\ \A y \in R : e[y] = f[y]
  OBVIOUS
<1> HIDE DEF R
<1>4. PICK h : SumRules(h, e, R) /\ SumFunction(e) = h[R]
  BY <1>2, <1>3, SumFacts
<1>5. g[R] = h[R]
  BY <1>1, <1>2, <1>3, <1>4, SumsAgree
<1>6. g[S] = f[x] + g[S \ {x}]
  BY <1>1, SumAnyOrder
<1>7. QED
  BY <1>1, <1>4, <1>5, <1>6 DEF R

(* Without some of its terms a sum is no greater. *)
LEMMA SumSmaller ==
  ASSUME NEW S, IsFiniteSet(S), NEW f \in [S -> Nat], NEW R \in SUBSET S,
         NEW e, e = [y \in R |-> f[y]]
  PROVE  SumFunction(e) <= SumFunction(f)
<1> DEFINE Over(T) == SumFunction([y \in T |-> f[y]])
           Bad == {T \in SUBSET S : R \subseteq T /\ ~(Over(R) <= Over(T))}
<1>1. \A T \in SUBSET S : Over(T) \in Nat
  <2> SUFFICES ASSUME NEW T \in SUBSET S PROVE Over(T) \in Nat
    OBVIOUS
  <2>1. IsFiniteSet(T) /\ [y \in T |-> f[y]] \in [T -> Nat]
    BY FS_Subset
  <2>2. QED
    BY <2>1, SumNat
<1>2. Bad = {}
  <2> SUFFICES ASSUME Bad # {} PROVE FALSE
    OBVIOUS
  <2>1. PICK T \in Bad : IsFiniteSet(T) /\ \A x \in T : T \ {x} \notin Bad
    <3>1. Bad \subseteq SUBSET S
      OBVIOUS
    <3> HIDE DEF Bad
    <3>2. QED
      BY <3>1, SmallestSet
  <2>2. T \in SUBSET S /\ R \subseteq T /\ ~(Over(R) <= Over(T))
    OBVIOUS
  <2>3. R # T
    BY <1>1, <2>2
  <2>4. PICK x \in T : x \notin R
    BY <2>2, <2>3
  <2>5. T \ {x} \in SUBSET S /\ R \subseteq T \ {x}
    BY <2>2, <2>4
  <2>6. Over(R) <= Over(T \ {x})
    BY <2>1, <2>4, <2>5
  <2>7. Over(T) = f[x] + Over(T \ {x})
    <3> DEFINE t == [y \in T |-> f[y]]
               d == [y \in T \ {x} |-> f[y]]
    <3>1. t \in [T -> Nat] /\ t[x] = f[x]
      BY <2>2
    <3>2. d = [y \in T \ {x} |-> t[y]]
      OBVIOUS
    <3> HIDE DEF t, d
    <3>3. SumFunction(t) = t[x] + SumFunction(d)
      BY <2>1, <3>1, <3>2, SumWithout
    <3>4. QED
      BY <3>1, <3>3 DEF t, d
  <2>8. Over(T) \in Nat /\ Over(R) \in Nat /\ Over(T \ {x}) \in Nat /\ f[x] \in Nat
    BY <1>1, <2>2, <2>4, <2>5
  <2> HIDE DEF Over
  <2>9. QED
    BY <2>2, <2>6, <2>7, <2>8
<1>3. S \notin Bad
  BY <1>2
<1>4. [y \in S |-> f[y]] = f
  OBVIOUS
<1>5. QED
  BY <1>3, <1>4
-----------------------------------------------------------------------------

LEMMA Uint32Range == ASSUME NEW n \in Nat PROVE Uint32(n) \in 0 .. n
BY PacketAssumption DEF Uint32

(* A refill is at most the rate times the interval. *)
LEMMA RefillBound ==
  ASSUME NEW bps \in Nat, NEW dt \in Nat
  PROVE  Refill(bps, dt) \in Nat /\ SECOND * Refill(bps, dt) <= dt * bps
<1> DEFINE n == Uint32(dt * bps)
<1>1. dt * bps \in Nat
  OBVIOUS
<1>2. n \in 0 .. dt * bps
  BY <1>1, Uint32Range
<1> HIDE DEF n
<1>3. n \div SECOND \in Nat /\ SECOND * (n \div SECOND) <= n
  BY <1>2, PacketAssumption
<1>4. Refill(bps, dt) = n \div SECOND
  BY DEF Refill, n
<1>5. SECOND * Refill(bps, dt) \in Nat
  BY <1>3, <1>4, PacketAssumption
<1>6. QED
  BY <1>1, <1>2, <1>3, <1>4, <1>5

LEMMA TimesMonotone == ASSUME NEW a \in Nat, NEW b \in Nat, a <= b
                       PROVE  SECOND * a \in Nat /\ SECOND * b \in Nat /\ SECOND * a <= SECOND * b
BY PacketAssumption

LEMMA TimesDistributes == ASSUME NEW a \in Int, NEW b \in Int
                          PROVE  /\ SECOND * (a + b) = SECOND * a + SECOND * b
                                 /\ SECOND * (a - b) = SECOND * a - SECOND * b
BY PacketAssumption

(* A total whose quotient is below the limit is below the limit. *)
LEMMA QuotientBelow ==
  ASSUME NEW b \in Nat, NEW limit \in Nat, b \div KBYTE < limit
  PROVE  b < limit * KBYTE
<1> DEFINE q == b \div KBYTE
<1>1. q \in Nat /\ b < (q + 1) * KBYTE
  BY PacketAssumption
<1> HIDE DEF q
<1>2. q + 1 <= limit
  BY <1>1 DEF q
<1>3. (q + 1) * KBYTE <= limit * KBYTE
  BY <1>1, <1>2, PacketAssumption
<1>4. QED
  BY <1>1, <1>3, PacketAssumption

LEMMA BucketNat == \A bps \in Nat : Bucket(bps) \in Nat
BY PacketAssumption DEF Bucket
-----------------------------------------------------------------------------
(* What makes RateLimit inductive: tokens are allowance not used yet.       *)
RateInv ==
  \A d \in Directions :
    rate[d] # 0 /\ metered[d] =>
      SECOND * token_bucket[d] + excess[d] <= SECOND * Bucket(rate[d])

SInv == ShaperType /\ RateInv /\ DailyLimit

shaped == <<rate, token_bucket, daily_limit, Bytes_per_day, metered, excess, bytesAtSet>>

LEMMA UnshapedStep == ASSUME SInv, UNCHANGED shaped, passed' \in BOOLEAN PROVE SInv'
BY DEF SInv, ShaperType, RateInv, DailyLimit, shaped

(* A packet takes as many tokens as it adds to the excess, and is the last   *)
(* one of the day to pass when it reaches the limit.                        *)
LEMMA ShapeStep ==
  ASSUME SInv, NEW dir \in Directions, NEW p, p.len \in 1 .. MaxLen, Shape(dir, p)
  PROVE  SInv'
<1>1. /\ p.len \in Nat /\ MaxLen \in Nat /\ SECOND \in Nat /\ SECOND * p.len \in Nat
  BY MonitorAssumption, PacketAssumption
<1>2. rate' = rate /\ metered' = metered /\ daily_limit' = daily_limit /\ bytesAtSet' = bytesAtSet
  BY DEF Shape
<1>3. passed' = (Conforms(dir, p) /\ (daily_limit = 0 \/ ~Spent(Bytes_per_day)))
  BY DEF Shape
<1>4. passed' \in BOOLEAN
  BY <1>3, Zenon DEF Conforms, Spent
<1>5. token_bucket' = IF rate[dir] # 0 /\ Conforms(dir, p)
                      THEN [token_bucket EXCEPT ![dir] = @ - p.len] ELSE token_bucket
  BY DEF Shape
<1>6. Bytes_per_day' = Bytes_per_day
      \/ (passed' /\ Bytes_per_day' = Bytes_per_day + p.len)
  BY DEF Shape
<1>7. excess' = IF passed' /\ metered[dir] /\ rate[dir] # 0
                THEN [excess EXCEPT ![dir] = @ + SECOND * p.len] ELSE excess
  BY DEF Shape
<1>8. token_bucket' \in [Directions -> Nat]
  BY <1>1, <1>5 DEF SInv, ShaperType, Conforms
<1>9. excess' \in [Directions -> Nat]
  BY <1>1, <1>7 DEF SInv, ShaperType
<1>10. ShaperType'
  BY <1>1, <1>2, <1>4, <1>6, <1>8, <1>9 DEF SInv, ShaperType
<1>11. RateInv'
  <2> SUFFICES ASSUME NEW d \in Directions, rate[d] # 0, metered[d]
               PROVE  SECOND * token_bucket'[d] + excess'[d] <= SECOND * Bucket(rate[d])
    BY <1>2 DEF RateInv
  <2>1. /\ SECOND * token_bucket[d] + excess[d] <= SECOND * Bucket(rate[d])
        /\ token_bucket[d] \in Nat /\ excess[d] \in Nat /\ rate[d] \in Nat
    BY DEF SInv, RateInv, ShaperType
  <2>2. CASE d # dir \/ ~Conforms(dir, p)
    <3>1. token_bucket'[d] = token_bucket[d] /\ excess'[d] = excess[d]
      BY <1>3, <1>5, <1>7, <2>2 DEF SInv, ShaperType
    <3>2. QED
      BY <2>1, <3>1
  <2>3. CASE d = dir /\ Conforms(dir, p)
    <3>1. token_bucket'[d] = token_bucket[d] - p.len
      BY <1>5, <2>3 DEF SInv, ShaperType
    <3>2. excess'[d] = excess[d] \/ excess'[d] = excess[d] + SECOND * p.len
      BY <1>7, <2>3 DEF SInv, ShaperType
    <3>3. SECOND * (token_bucket[d] - p.len) = SECOND * token_bucket[d] - SECOND * p.len
      <4>1. token_bucket[d] \in Int /\ p.len \in Int
        BY <1>1, <2>1
      <4>2. QED
        BY <4>1, TimesDistributes, Zenon
    <3>4. SECOND * token_bucket[d] \in Nat /\ SECOND * Bucket(rate[d]) \in Nat
      BY <1>1, <2>1, BucketNat
    <3>5. QED
      BY <1>1, <2>1, <3>1, <3>2, <3>3, <3>4
  <2>4. QED
    BY <2>2, <2>3
<1>12. DailyLimit'
  <2> SUFFICES ASSUME daily_limit # 0, ~(Bytes_per_day' <= bytesAtSet)
               PROVE  Bytes_per_day' < daily_limit * KBYTE + MaxLen
    BY <1>2 DEF DailyLimit
  <2>1. daily_limit \in Nat /\ Bytes_per_day \in Nat /\ bytesAtSet \in Nat
        /\ daily_limit * KBYTE \in Nat
    BY PacketAssumption DEF SInv, ShaperType
  <2>2. CASE Bytes_per_day' = Bytes_per_day
    BY <2>2 DEF SInv, DailyLimit
  <2>3. CASE passed' /\ Bytes_per_day' = Bytes_per_day + p.len
    <3>1. Bytes_per_day \div KBYTE < daily_limit
      <4>1. ~(Bytes_per_day \div KBYTE >= daily_limit)
        BY <1>3, <2>3 DEF Spent
      <4>2. Bytes_per_day \div KBYTE \in Nat
        BY <2>1, PacketAssumption
      <4>3. QED
        BY <2>1, <4>1, <4>2
    <3>2. Bytes_per_day < daily_limit * KBYTE
      BY <2>1, <3>1, QuotientBelow
    <3>3. QED
      BY <1>1, <2>1, <2>3, <3>2
  <2>4. QED
    BY <1>6, <2>2, <2>3
<1>13. QED
  BY <1>10, <1>11, <1>12 DEF SInv

(* The timer gives no more than the time that went by allows, and never     *)
(* more than a bucket.                                                      *)
LEMMA TimerStep ==
  ASSUME SInv, NEW dt \in Intervals, NEW newDay \in BOOLEAN, Timer(dt, newDay)
  PROVE  SInv'
<1>1. dt \in Nat
  BY PacketAssumption
<1>2. rate' = rate /\ daily_limit' = daily_limit
  BY DEF Timer
<1>3. \A d \in Directions :
        /\ rate[d] \in Nat /\ token_bucket[d] \in Nat /\ excess[d] \in Nat
        /\ metered[d] \in BOOLEAN /\ dt * rate[d] \in Nat /\ Bucket(rate[d]) \in Nat
  BY <1>1, BucketNat DEF SInv, ShaperType
<1>4. \A d \in Directions : rate[d] # 0 =>
        /\ Refilled(d, dt) \in Nat /\ Refilled(d, dt) <= Bucket(rate[d])
        /\ Refilled(d, dt) <= token_bucket[d] + Refill(rate[d], dt)
  <2> SUFFICES ASSUME NEW d \in Directions, rate[d] # 0
               PROVE  /\ Refilled(d, dt) \in Nat /\ Refilled(d, dt) <= Bucket(rate[d])
                      /\ Refilled(d, dt) <= token_bucket[d] + Refill(rate[d], dt)
    OBVIOUS
  <2> DEFINE n == Uint32(token_bucket[d] + Refill(rate[d], dt))
  <2>1. Refill(rate[d], dt) \in Nat
    BY <1>1, <1>3, RefillBound
  <2>2. token_bucket[d] + Refill(rate[d], dt) \in Nat
    BY <1>3, <2>1
  <2>3. n \in 0 .. token_bucket[d] + Refill(rate[d], dt)
    BY <2>2, Uint32Range
  <2>4. Refilled(d, dt) = IF n > Bucket(rate[d]) THEN Bucket(rate[d]) ELSE n
    BY DEF Refilled
  <2> HIDE DEF n
  <2>5. QED
    BY <1>3, <2>2, <2>3, <2>4
<1>5. \A d \in Directions : Refilled(d, dt) \in Nat
  BY <1>3, <1>4 DEF Refilled
<1>6. \A d \in Directions : Drained(d, dt) \in Nat
  BY <1>3 DEF Drained
<1>7. ShaperType'
  BY <1>2, <1>5, <1>6 DEF Timer, SInv, ShaperType
<1>8. RateInv'
  <2> SUFFICES ASSUME NEW d \in Directions, rate[d] # 0
               PROVE  SECOND * Refilled(d, dt) + Drained(d, dt) <= SECOND * Bucket(rate[d])
    BY <1>2 DEF RateInv, Timer
  <2> DEFINE t == token_bucket[d]
             r == Refill(rate[d], dt)
             e == excess[d]
             due == dt * rate[d]
             b == SECOND * Bucket(rate[d])
  <2>1. Refilled(d, dt) \in Nat /\ Refilled(d, dt) <= Bucket(rate[d]) /\ Refilled(d, dt) <= t + r
    BY <1>4
  <2>2. r \in Nat /\ t \in Nat /\ e \in Nat /\ due \in Nat /\ SECOND * r <= due
    BY <1>1, <1>3, RefillBound
  <2>3. SECOND * Refilled(d, dt) \in Nat /\ b \in Nat /\ SECOND * Refilled(d, dt) <= b
    BY <1>3, <2>1, TimesMonotone
  <2>4. /\ SECOND * (t + r) = SECOND * t + SECOND * r
        /\ SECOND * Refilled(d, dt) <= SECOND * (t + r)
        /\ SECOND * t \in Nat /\ SECOND * r \in Nat
    <3>1. t \in Int /\ r \in Int /\ t + r \in Nat
      BY <2>2
    <3>2. SECOND * (t + r) = SECOND * t + SECOND * r
      BY <3>1, TimesDistributes, Zenon
    <3>3. SECOND * Refilled(d, dt) <= SECOND * (t + r)
      BY <2>1, <3>1, TimesMonotone
    <3>4. SECOND * t \in Nat /\ SECOND * r \in Nat
      BY <2>2, PacketAssumption
    <3>5. QED
      BY <3>2, <3>3, <3>4
  <2>5. metered[d] => SECOND * t + e <= b
    BY DEF SInv, RateInv
  <2>6. Drained(d, dt) = IF metered[d] /\ e > due THEN e - due ELSE 0
    BY DEF Drained
  <2> HIDE DEF t, r, e, due, b
  <2>7. SECOND * Refilled(d, dt) + Drained(d, dt) <= b
    <3>1. CASE metered[d] /\ e > due
      BY <2>2, <2>3, <2>4, <2>5, <2>6, <3>1
    <3>2. CASE ~(metered[d] /\ e > due)
      BY <2>3, <2>6, <3>2
    <3>3. QED
      BY <3>1, <3>2
  <2>8. QED
    BY <2>7 DEF b
<1>9. DailyLimit'
  BY <1>2, MonitorAssumption, PacketAssumption DEF Timer, SInv, ShaperType, DailyLimit
<1>10. QED
  BY <1>7, <1>8, <1>9 DEF SInv

LEMMA SetRateStep ==
  ASSUME SInv, NEW dir \in Directions, NEW bps \in Rates, SetRate(dir, bps)
  PROVE  SInv'
<1>1. ShaperType'
  BY PacketAssumption DEF SetRate, SInv, ShaperType
<1>2. RateInv'
  BY DEF SetRate, SInv, ShaperType, RateInv
<1>3. DailyLimit'
  BY DEF SetRate, SInv, DailyLimit
<1>4. QED
  BY <1>1, <1>2, <1>3 DEF SInv

LEMMA SetDailyLimitStep ==
  ASSUME SInv, NEW limit \in DailyLimits, SetDailyLimit(limit)
  PROVE  SInv'
<1>1. ShaperType'
  BY PacketAssumption DEF SetDailyLimit, SInv, ShaperType
<1>2. RateInv'
  BY DEF SetDailyLimit, SInv, RateInv
<1>3. DailyLimit'
  BY DEF SetDailyLimit, SInv, ShaperType, DailyLimit
<1>4. QED
  BY <1>1, <1>2, <1>3 DEF SInv
-----------------------------------------------------------------------------
RuleType ==
  [proto : Nat, src : Nat, s_block : Nat \ {0}, dest : Nat, d_block : Nat \ {0},
   s_port : Nat, d_port : Nat, allow : SUBSET Flags, hit_count : Nat]

LEMMA HitTyped ==
  ASSUME NEW r \in RuleType
  PROVE  [r EXCEPT !.hit_count = @ + 1] \in RuleType
<1>1. r.hit_count + 1 \in Nat
  BY DEF RuleType
<1> DEFINE k == r.hit_count + 1
<1>2. k \in Nat
  BY <1>1
<1> HIDE DEF k
<1>3. [r EXCEPT !.hit_count = k] \in RuleType
  BY <1>2 DEF RuleType
<1>4. QED
  BY <1>3 DEF k

LEMMA ReplaceTyped ==
  ASSUME NEW S, NEW s \in Seq(S), NEW i, NEW r, i \in 1 .. Len(s) => r \in S
  PROVE  [s EXCEPT ![i] = r] \in Seq(S)
<1>1. [s EXCEPT ![i] = r] = [j \in 1 .. Len(s) |-> IF j = i THEN r ELSE s[j]]
  OBVIOUS
<1>2. Len(s) \in Nat /\ \A j \in 1 .. Len(s) : (IF j = i THEN r ELSE s[j]) \in S
  OBVIOUS
<1>3. [j \in 1 .. Len(s) |-> IF j = i THEN r ELSE s[j]] \in Seq(S)
  BY <1>2
<1>4. QED
  BY <1>1, <1>3

(* A checked packet changes no rule but for its hits. *)
LEMMA CheckStep ==
  ASSUME AclType, NEW n \in AclNos, NEW p, acl_check_packet(n, p)
  PROVE  AclType'
<1>1. acl \in [AclNos -> Seq(RuleType)] /\ acl[n] \in Seq(RuleType)
  BY DEF AclType, RuleType
<1>2. acl' \in [AclNos -> Seq(RuleType)]
  <2> DEFINE i == Applied(n, p)
             rules == [acl[n] EXCEPT ![i].hit_count = @ + 1]
  <2>1. CASE acl' = acl
    BY <1>1, <2>1
  <2>2. CASE acl' = [acl EXCEPT ![n][i].hit_count = @ + 1]
    <3>1. acl' = [acl EXCEPT ![n] = rules]
      BY <2>2
    <3> DEFINE rule == [acl[n][i] EXCEPT !.hit_count = @ + 1]
    <3>2. rules = [acl[n] EXCEPT ![i] = rule]
      OBVIOUS
    <3>3. i \in 1 .. Len(acl[n]) => acl[n][i] \in RuleType
      BY <1>1
    <3>4. i \in 1 .. Len(acl[n]) => rule \in RuleType
      BY <3>3, HitTyped
    <3> HIDE DEF rules, rule, i
    <3>5. rules \in Seq(RuleType)
      BY <1>1, <3>2, <3>4, ReplaceTyped
    <3>6. QED
      BY <1>1, <3>1, <3>5
  <2>3. QED
    BY <2>1, <2>2 DEF acl_check_packet
<1>3. acl_allow_count' \in Nat /\ acl_deny_count' \in Nat
  <2>1. PICK k \in {0, 1}, m \in {0, 1} :
          acl_allow_count' = acl_allow_count + k /\ acl_deny_count' = acl_deny_count + m
    BY Zenon DEF acl_check_packet
  <2>2. QED
    BY <2>1 DEF AclType
<1>4. my_deny_cb' \in BOOLEAN /\ acl_debug' \in BOOLEAN
  BY Zenon DEF acl_check_packet, AclType
<1>5. QED
  BY <1>2, <1>3, <1>4 DEF AclType, RuleType

LEMMA MaskedNat == ASSUME NEW addr \in Nat, NEW block \in Nat \ {0}
                   PROVE  Masked(addr, block) \in Nat
BY DEF Masked

LEMMA AclCommandStep ==
  ASSUME AclType, NEW n \in AclNos,
         acl_clear(n) \/ \E r \in Rules : acl_add(n, r)
  PROVE  AclType'
<1>1. CASE acl_clear(n)
  <2>1. acl \in [AclNos -> Seq(RuleType)]
    BY DEF AclType, RuleType
  <2>2. acl' \in [AclNos -> Seq(RuleType)]
    <3>1. <<>> \in Seq(RuleType)
      OBVIOUS
    <3>2. QED
      BY <1>1, <2>1, <3>1 DEF acl_clear
  <2>3. QED
    BY <1>1, <2>2 DEF acl_clear, AclType, RuleType
<1>2. ASSUME NEW r \in Rules, acl_add(n, r) PROVE AclType'
  <2> DEFINE rule == [proto  |-> r.proto,
                      src    |-> Masked(r.src, r.s_block), s_block |-> r.s_block,
                      dest   |-> Masked(r.dest, r.d_block), d_block |-> r.d_block,
                      s_port |-> r.s_port, d_port |-> r.d_port,
                      allow  |-> r.allow, hit_count |-> 0]
  <2>1. /\ r.proto \in Nat /\ r.src \in Nat /\ r.s_block \in Nat \ {0} /\ r.dest \in Nat
        /\ r.d_block \in Nat \ {0} /\ r.s_port \in Nat /\ r.d_port \in Nat
        /\ r.allow \in SUBSET Flags
    BY AclAssumption
  <2>2. rule \in RuleType
    BY <2>1, MaskedNat DEF RuleType
  <2>3. acl \in [AclNos -> Seq(RuleType)] /\ acl[n] \in Seq(RuleType)
    BY DEF AclType, RuleType
  <2>4. acl' = acl \/ acl' = [acl EXCEPT ![n] = Append(@, rule)]
    BY <1>2 DEF acl_add
  <2> HIDE DEF rule
  <2>5. acl' \in [AclNos -> Seq(RuleType)]
    BY <2>2, <2>3, <2>4
  <2>6. QED
    BY <1>2, <2>5 DEF acl_add, AclType, RuleType
<1>3. QED
  BY <1>1, <1>2
-----------------------------------------------------------------------------
PInv == AclType /\ MInv /\ SInv

Streams == Stream!Next \/ UNCHANGED Contents(pcap_buffer)

LEMMA UnshapedUnchanged == ASSUME NEW b \in BOOLEAN, Unshaped(b)
                           PROVE  UNCHANGED shaped /\ passed' \in BOOLEAN
BY DEF Unshaped, shaped

LEMMA MonitorUnchanged == ASSUME MInv, UNCHANGED monitorVars PROVE MInv' /\ Streams
<1>1. MonitorType'
  BY DEF MInv, MonitorType, monitorVars
<1>2. BufferWhileOn' /\ IdleHasRoom' /\ ListeningHasPort'
  BY DEF MInv, BufferWhileOn, IdleHasRoom, ListeningHasPort, monitorVars
<1>3. UNCHANGED Contents(pcap_buffer)
  BY DEF monitorVars
<1>4. QED
  BY <1>1, <1>2, <1>3 DEF MInv, Streams

LEMMA AclUnchanged == ASSUME AclType, UNCHANGED aclVars PROVE AclType'
BY DEF AclType, aclVars

LEMMA ForwardStep == ASSUME PInv, Forward PROVE PInv' /\ Streams
<1> USE DEF PInv
<1>1. PICK p \in Packets : \/ my_input_ap(p) \/ my_output_ap(p)
                          \/ my_input_sta(p) \/ my_output_sta(p)
  BY DEF Forward
<1>2. p.len \in 1 .. MaxLen /\ p.id \in Ids
  BY PacketAssumption
<1>3. ASSUME NEW n \in AclNos, NEW dir \in Directions, ApHook(n, dir, p)
      PROVE  PInv' /\ Streams
  <2>1. AclType'
    BY <1>3, CheckStep DEF ApHook
  <2>2. MInv' /\ Streams
    BY <1>2, <1>3, MirrorStep DEF ApHook, Streams
  <2>3. Unshaped(FALSE) \/ Shape(dir, p)
    BY <1>3 DEF ApHook
  <2>4. SInv'
    BY <1>2, <2>3, ShapeStep, UnshapedUnchanged, UnshapedStep
  <2>5. QED
    BY <2>1, <2>2, <2>4
<1>4. ASSUME NEW n \in AclNos, StaHook(n, p)
      PROVE  PInv' /\ Streams
  <2>1. AclType'
    BY <1>4, CheckStep DEF StaHook
  <2>2. MInv' /\ Streams
    BY <1>4, MonitorUnchanged DEF StaHook
  <2>3. Passes(Verdict(n, p)) \in BOOLEAN
    BY DEF Passes
  <2>4. SInv'
    BY <1>4, <2>3, UnshapedUnchanged, UnshapedStep DEF StaHook
  <2>5. QED
    BY <2>1, <2>2, <2>4
<1>5. QED
  BY <1>1, <1>3, <1>4
     DEF my_input_ap, my_output_ap, my_input_sta, my_output_sta, AclNos, Directions

LEMMA PathStep == ASSUME PInv, [Next]_vars PROVE PInv' /\ [Stream!Next]_(Contents(pcap_buffer))
<1> USE DEF PInv
<1>1. CASE Forward
  BY <1>1, ForwardStep DEF Streams
<1>2. CASE Firewall
  <2>1. AclType' /\ Unshaped(FALSE) /\ UNCHANGED monitorVars
    BY <1>2, AclCommandStep DEF Firewall
  <2>2. QED
    BY <2>1, MonitorUnchanged, UnshapedUnchanged, UnshapedStep DEF Streams
<1>3. CASE Debug
  <2>1. AclType' /\ Unshaped(FALSE) /\ UNCHANGED monitorVars
    BY <1>3 DEF Debug, set_acl_debug, AclType
  <2>2. QED
    BY <2>1, MonitorUnchanged, UnshapedUnchanged, UnshapedStep DEF Streams
<1>4. CASE Observe
  <2>1. MonitorNext /\ Unshaped(FALSE) /\ UNCHANGED aclVars
    BY <1>4 DEF Observe
  <2>2. QED
    BY <2>1, MonitorStep, AclUnchanged, UnshapedUnchanged, UnshapedStep
<1>5. CASE Limit
  <2>1. /\ UNCHANGED <<aclVars, monitorVars>>
        /\ SInv'
    <3>1. ASSUME NEW d \in Shaped, NEW bps \in Rates, SetRate(d, bps)
          PROVE  UNCHANGED <<aclVars, monitorVars>> /\ SInv'
      <4>1. d \in Directions
        BY PacketAssumption DEF Directions
      <4>2. SInv'
        BY <3>1, <4>1, SetRateStep
      <4>3. QED
        BY <3>1, <4>2 DEF SetRate
    <3>2. ASSUME NEW limit \in DailyLimits, SetDailyLimit(limit)
          PROVE  UNCHANGED <<aclVars, monitorVars>> /\ SInv'
      BY <3>2, SetDailyLimitStep DEF SetDailyLimit
    <3>3. ASSUME NEW dt \in Intervals, NEW newDay \in BOOLEAN, Timer(dt, newDay)
          PROVE  UNCHANGED <<aclVars, monitorVars>> /\ SInv'
      BY <3>3, TimerStep DEF Timer
    <3>4. QED
      BY <1>5, <3>1, <3>2, <3>3, Zenon DEF Limit
  <2>2. QED
    BY <2>1, AclUnchanged, MonitorUnchanged DEF Streams
<1>6. CASE UNCHANGED vars
  <2>1. UNCHANGED aclVars /\ UNCHANGED monitorVars /\ UNCHANGED shaped /\ passed' = passed
    BY <1>6 DEF vars, shaperVars, shaped
  <2>2. passed' \in BOOLEAN
    BY <2>1 DEF SInv, ShaperType
  <2>3. QED
    BY <2>1, <2>2, AclUnchanged, MonitorUnchanged, UnshapedStep DEF Streams
<1>7. QED
  BY <1>1, <1>2, <1>3, <1>4, <1>5, <1>6 DEF Next

LEMMA PathInit == Init => PInv /\ Stream!Init
<1> SUFFICES ASSUME Init PROVE PInv /\ Stream!Init
  OBVIOUS
<1>1. AclType
  <2>1. <<>> \in Seq(RuleType)
    OBVIOUS
  <2>2. acl \in [AclNos -> Seq(RuleType)]
    BY <2>1 DEF Init, AclInit
  <2>3. QED
    BY <2>2 DEF Init, AclInit, AclType, RuleType
<1>2. MInv /\ Stream!Init
  BY MonitorInitInv DEF Init
<1>3. ShaperType
  <2>1. rate \in [Directions -> Rates \cup {0}] /\ Rates \subseteq Nat
    BY PacketAssumption DEF Init
  <2>2. rate \in [Directions -> Nat]
    <3>1. Rates \cup {0} \in SUBSET Nat
      BY <2>1
    <3> DEFINE S == Rates \cup {0}
    <3> HIDE DEF S
    <3>2. S \subseteq Nat /\ rate \in [Directions -> S]
      BY <2>1, <3>1 DEF S
    <3>3. QED
      BY <3>2
  <2>3. token_bucket \in [Directions -> Nat] /\ excess \in [Directions -> Nat]
        /\ metered \in [Directions -> BOOLEAN]
    BY DEF Init
  <2>4. QED
    BY <2>2, <2>3, PacketAssumption DEF Init, ShaperType
<1>4. RateInv
  <2> SUFFICES ASSUME NEW d \in Directions
               PROVE  SECOND * token_bucket[d] + excess[d] <= SECOND * Bucket(rate[d])
    BY DEF RateInv
  <2>1. token_bucket[d] = 0 /\ excess[d] = 0 /\ Bucket(rate[d]) \in Nat
    BY <1>3, BucketNat DEF Init, ShaperType
  <2>2. SECOND * Bucket(rate[d]) \in Nat /\ SECOND * 0 = 0
    BY <2>1, PacketAssumption
  <2>3. QED
    BY <2>1, <2>2
<1>5. DailyLimit
  BY DEF Init, DailyLimit
<1>6. QED
  BY <1>1, <1>2, <1>3, <1>4, <1>5 DEF PInv, SInv

THEOREM PathInvariant == Spec => []PInv
<1>1. PInv /\ [Next]_vars => PInv'
  BY PathStep
<1>2. QED
  BY <1>1, PathInit, PTL DEF Spec

(* Counters and tokens never go below zero (they are unsigned, and would     *)
(* wrap), rules and ring keep their shape.                                   *)
THEOREM PathTypeCorrect == Spec => []TypeOK
<1>1. PInv => TypeOK
  BY DEF PInv, MInv, SInv, TypeOK
<1>2. QED
  BY <1>1, PathInvariant, PTL

(* The bit rate limit holds for every rate, packet size and interval between *)
(* two runs of timer_func, and whenever 32 bits overflow.                    *)
THEOREM RateIsLimited == Spec => []RateLimit
<1>1. PInv => RateLimit
  <2> SUFFICES ASSUME PInv, NEW d \in Directions, rate[d] # 0, metered[d]
               PROVE  excess[d] <= SECOND * Bucket(rate[d])
    BY DEF RateLimit
  <2>1. /\ SECOND * token_bucket[d] + excess[d] <= SECOND * Bucket(rate[d])
        /\ token_bucket[d] \in Nat /\ excess[d] \in Nat /\ Bucket(rate[d]) \in Nat
    BY BucketNat DEF PInv, SInv, RateInv, ShaperType
  <2>2. SECOND * token_bucket[d] \in Nat /\ SECOND * Bucket(rate[d]) \in Nat
    BY <2>1, PacketAssumption
  <2>3. QED
    BY <2>1, <2>2
<1>2. QED
  BY <1>1, PathInvariant, PTL

(* The daily total exceeds its limit by less than a packet, for every limit  *)
(* and size of packets.                                                      *)
THEOREM DayIsLimited == Spec => []DailyLimit
<1>1. PInv => DailyLimit
  BY DEF PInv, SInv
<1>2. QED
  BY <1>1, PathInvariant, PTL

(* Nothing is recorded without a buffer. *)
THEOREM RecordsHaveABuffer == Spec => []BufferWhileOn
<1>1. PInv => BufferWhileOn
  BY DEF PInv, MInv
<1>2. QED
  BY <1>1, PathInvariant, PTL

(* An idle monitor has room for a packet, for every capacity. *)
THEOREM IdleMonitorHasRoom == Spec => []IdleHasRoom
<1>1. PInv => IdleHasRoom
  BY DEF PInv, MInv
<1>2. QED
  BY <1>1, PathInvariant, PTL

(* The ring, its two copies and its wrapping implement a stream of whole     *)
(* records.                                                                  *)
THEOREM RingImplementsStream == Spec => KeepsRecords
<1>1. PInv /\ [Next]_vars => [Stream!Next]_(Contents(pcap_buffer))
  BY PathStep
<1>2. QED
  BY <1>1, PathInit, PathInvariant, PTL DEF Spec, KeepsRecords, Stream!Spec
-----------------------------------------------------------------------------
(* What a hook asks: the rule that is applied is the first that matches. *)
LEMMA AppliedIsFirst ==
  ASSUME AclType, NEW n \in AclNos, NEW p, Matching(n, p) # {}
  PROVE  /\ Applied(n, p) \in 1 .. Len(acl[n]) /\ Matches(acl[n][Applied(n, p)], p)
         /\ \A j \in 1 .. Applied(n, p) - 1 : ~Matches(acl[n][j], p)
<1>1. acl[n] \in Seq(RuleType)
  BY DEF AclType, RuleType
<1> DEFINE M == Matching(n, p)
           a == Applied(n, p)
<1>2. /\ M \subseteq Nat /\ M \subseteq 1 .. Len(acl[n]) /\ Len(acl[n]) \in Nat
      /\ \A j \in 1 .. Len(acl[n]) : j \in M <=> Matches(acl[n][j], p)
  BY <1>1 DEF Matching
<1>3. a = CHOOSE x \in M : \A y \in M : x <= y
  BY DEF Applied, Min
<1> HIDE DEF M, a
<1>4. \E x \in M : \A y \in M : x <= y
  <2>1. PICK x \in M : \A y \in M : ~(y < x)
    BY <1>2, LeastNumber DEF M
  <2>2. QED
    BY <1>2, <2>1
<1>5. a \in M /\ \A y \in M : a <= y
  BY <1>3, <1>4
<1>6. a \in 1 .. Len(acl[n]) /\ Matches(acl[n][a], p)
  BY <1>2, <1>5
<1>7. \A j \in 1 .. a - 1 : ~Matches(acl[n][j], p)
  BY <1>2, <1>5, <1>6
<1>8. QED
  BY <1>6, <1>7 DEF a

LEMMA PassIsAllowed ==
  ASSUME AclType, NEW n \in AclNos, NEW p, Passes(Verdict(n, p))
  PROVE  FirstAllows(n, p)
<1>1. SUFFICES ASSUME acl[n] # <<>>, p.eth # "ARP" PROVE FirstAllows(n, p)
  BY DEF FirstAllows
<1>2. /\ Judged(p) /\ Matching(n, p) # {}
      /\ Verdict(n, p) = acl[n][Applied(n, p)].allow
  BY <1>1 DEF Verdict, Passes
<1>3. "ALLOW" \in acl[n][Applied(n, p)].allow
  BY <1>2 DEF Passes
<1>4. acl[n] \in Seq(RuleType)
  BY DEF AclType, RuleType
<1>5. Applied(n, p) \in DOMAIN acl[n]
  BY <1>2, <1>4, AppliedIsFirst
<1>6. QED
  BY <1>2, <1>3, <1>5, AppliedIsFirst DEF FirstAllows

LEMMA HookDenies ==
  ASSUME AclType, NEW p
  PROVE  /\ passed' /\ my_input_ap(p) => FirstAllows(0, p)
         /\ passed' /\ my_output_ap(p) => FirstAllows(1, p)
         /\ passed' /\ my_input_sta(p) => FirstAllows(2, p)
         /\ passed' /\ my_output_sta(p) => FirstAllows(3, p)
<1>1. ASSUME NEW n \in AclNos, NEW dir, ApHook(n, dir, p), passed'
      PROVE  FirstAllows(n, p)
  <2>1. Passes(Verdict(n, p))
    BY <1>1 DEF ApHook, Unshaped
  <2>2. QED
    BY <2>1, PassIsAllowed
<1>2. ASSUME NEW n \in AclNos, StaHook(n, p), passed'
      PROVE  FirstAllows(n, p)
  <2>1. Passes(Verdict(n, p))
    BY <1>2 DEF StaHook, Unshaped
  <2>2. QED
    BY <2>1, PassIsAllowed
<1>3. QED
  BY <1>1, <1>2 DEF my_input_ap, my_output_ap, my_input_sta, my_output_sta, AclNos

(* No hook lets a packet pass that its list denies: the first rule that      *)
(* matches decides, for every list of rules and every packet.               *)
THEOREM DeniedIsDropped == Spec => DeniedNeverPasses
<1> DEFINE A == \A p \in Packets :
       /\ passed' /\ my_input_ap(p) => FirstAllows(0, p)
       /\ passed' /\ my_output_ap(p) => FirstAllows(1, p)
       /\ passed' /\ my_input_sta(p) => FirstAllows(2, p)
       /\ passed' /\ my_output_sta(p) => FirstAllows(3, p)
<1>1. PInv => A
  BY HookDenies DEF PInv
<1>2. QED
  BY <1>1, PathInvariant, PTL DEF DeniedNeverPasses
-----------------------------------------------------------------------------
Lists == [AclNos -> Seq(RuleType)]

LEMMA RulingIs ==
  ASSUME NEW lists \in Lists, NEW c
  PROVE  \A q : q \in Ruling(lists, c) <=>
           \E n \in AclNos : \E i \in 1 .. Len(lists[n]) :
             q = <<n, i>> /\ Passes(lists[n][i].allow) = c
<1>1. \A n \in AclNos : DOMAIN lists[n] = 1 .. Len(lists[n])
  BY DEF Lists
<1>2. QED
  BY <1>1 DEF Ruling

LEMMA RulingFinite ==
  ASSUME NEW lists \in Lists, NEW c
  PROVE  IsFiniteSet(Ruling(lists, c))
<1> DEFINE m == Len(lists[0]) + Len(lists[1]) + Len(lists[2]) + Len(lists[3])
<1>1. \A n \in AclNos : lists[n] \in Seq(RuleType) /\ Len(lists[n]) \in Nat
  BY DEF Lists
<1>2. m \in Nat /\ \A n \in AclNos : Len(lists[n]) <= m
  <2>1. {0, 1, 2, 3} = AclNos
    BY DEF AclNos
  <2>2. Len(lists[0]) \in Nat /\ Len(lists[1]) \in Nat /\ Len(lists[2]) \in Nat
        /\ Len(lists[3]) \in Nat
    BY <1>1, <2>1
  <2> DEFINE a == Len(lists[0])
             b == Len(lists[1])
             d == Len(lists[2])
             e == Len(lists[3])
  <2>3. a \in Nat /\ b \in Nat /\ d \in Nat /\ e \in Nat /\ m = a + b + d + e
    BY <2>2
  <2> HIDE DEF m, a, b, d, e
  <2>4. m \in Nat /\ a <= m /\ b <= m /\ d <= m /\ e <= m
    BY <2>3
  <2>5. \A n \in {0, 1, 2, 3} : Len(lists[n]) <= m
    BY <2>4 DEF a, b, d, e
  <2>6. QED
    BY <2>1, <2>4, <2>5
<1> HIDE DEF m
<1>3. Ruling(lists, c) \subseteq (0 .. 3) \X (1 .. m)
  BY <1>1, <1>2, RulingIs DEF AclNos
<1>4. IsFiniteSet((0 .. 3) \X (1 .. m))
  <2>1. 0 \in Int /\ 3 \in Int /\ 1 \in Int /\ m \in Int
    BY <1>2
  <2>2. IsFiniteSet(0 .. 3) /\ IsFiniteSet(1 .. m)
    BY <2>1, FS_Interval
  <2>3. QED
    BY <2>2, FS_Product
<1>5. QED
  BY <1>3, <1>4, FS_Subset

LEMMA HitsTyped ==
  ASSUME NEW lists \in Lists, NEW c
  PROVE  HitsAt(lists, c) \in [Ruling(lists, c) -> Nat]
<1>1. \A n \in AclNos : \A i \in 1 .. Len(lists[n]) : lists[n][i].hit_count \in Nat
  <2> SUFFICES ASSUME NEW n \in AclNos, NEW i \in 1 .. Len(lists[n])
               PROVE  lists[n][i].hit_count \in Nat
    OBVIOUS
  <2>1. lists[n] \in Seq(RuleType)
    BY DEF Lists
  <2>2. lists[n][i] \in RuleType
    BY <2>1
  <2>3. QED
    BY <2>2 DEF RuleType
<1>2. \A q \in Ruling(lists, c) : lists[q[1]][q[2]].hit_count \in Nat
  <2> SUFFICES ASSUME NEW q \in Ruling(lists, c)
               PROVE  lists[q[1]][q[2]].hit_count \in Nat
    OBVIOUS
  <2>1. PICK n \in AclNos : \E i \in 1 .. Len(lists[n]) : q = <<n, i>>
    BY RulingIs
  <2>2. PICK i \in 1 .. Len(lists[n]) : q = <<n, i>>
    BY <2>1
  <2>3. q[1] = n /\ q[2] = i
    BY <2>2
  <2>4. QED
    BY <1>1, <2>3
<1>3. QED
  BY <1>2 DEF HitsAt

(* A term that grows by one makes the sum grow by one. *)
LEMMA SumBump ==
  ASSUME NEW S, IsFiniteSet(S), NEW f \in [S -> Nat], NEW x \in S,
         NEW g \in [S -> Nat], g[x] = f[x] + 1, \A y \in S : y # x => g[y] = f[y]
  PROVE  SumFunction(g) = SumFunction(f) + 1
<1> DEFINE e == [y \in S \ {x} |-> f[y]]
<1>1. e = [y \in S \ {x} |-> g[y]]
  OBVIOUS
<1>2. e \in [S \ {x} -> Nat] /\ IsFiniteSet(S \ {x})
  BY FS_RemoveElement
<1> HIDE DEF e
<1>3. SumFunction(e) \in Nat
  BY <1>2, SumNat
<1>4. SumFunction(f) = f[x] + SumFunction(e)
  BY SumWithout DEF e
<1>5. SumFunction(g) = g[x] + SumFunction(e)
  BY <1>1, SumWithout
<1>6. f[x] \in Nat
  OBVIOUS
<1>7. QED
  BY <1>3, <1>4, <1>5, <1>6

(* One more hit of rule i of list n, and nothing else. *)
OneMoreHit(lists, new, n, i) ==
  /\ \A k \in AclNos : Len(new[k]) = Len(lists[k])
  /\ \A k \in AclNos : \A j \in 1 .. Len(lists[k]) :
       /\ new[k][j].allow = lists[k][j].allow
       /\ new[k][j].hit_count =
            IF k = n /\ j = i THEN lists[k][j].hit_count + 1 ELSE lists[k][j].hit_count

LEMMA OneHitCounts ==
  ASSUME NEW lists \in Lists, NEW new \in Lists, NEW n \in AclNos,
         NEW i \in 1 .. Len(lists[n]), OneMoreHit(lists, new, n, i), NEW c
  PROVE  SumFunction(HitsAt(new, c)) =
           SumFunction(HitsAt(lists, c)) + IF Passes(lists[n][i].allow) = c THEN 1 ELSE 0
<1> DEFINE R == Ruling(lists, c)
           f == HitsAt(lists, c)
           g == HitsAt(new, c)
<1>1. Ruling(new, c) = R
  <2>1. \A q : q \in Ruling(new, c) <=> q \in R
    BY RulingIs DEF OneMoreHit
  <2>2. QED
    BY <2>1
<1>2. f \in [R -> Nat] /\ g \in [R -> Nat] /\ IsFiniteSet(R)
  BY <1>1, HitsTyped, RulingFinite
<1>3. \A q \in R : \E k \in AclNos : \E j \in 1 .. Len(lists[k]) :
        /\ q = <<k, j>> /\ f[q] = lists[k][j].hit_count /\ g[q] = new[k][j].hit_count
  <2>1. \A q \in R : f[q] = lists[q[1]][q[2]].hit_count /\ g[q] = new[q[1]][q[2]].hit_count
    BY <1>1 DEF HitsAt
  <2>2. \A q \in R : \E k \in AclNos : \E j \in 1 .. Len(lists[k]) : q = <<k, j>>
    BY RulingIs
  <2> HIDE DEF R, f, g
  <2>3. QED
    BY <2>1, <2>2
<1>4. \A q \in R : q # <<n, i>> => g[q] = f[q]
  BY <1>3 DEF OneMoreHit
<1>5. <<n, i>> \in R <=> Passes(lists[n][i].allow) = c
  BY RulingIs
<1>6. <<n, i>> \in R => g[<<n, i>>] = f[<<n, i>>] + 1
  BY <1>3 DEF OneMoreHit
<1> HIDE DEF R, f, g
<1>7. CASE Passes(lists[n][i].allow) = c
  <2> DEFINE x == <<n, i>>
  <2>1. /\ x \in R /\ g[x] = f[x] + 1
        /\ \A y \in R : y # x => g[y] = f[y]
    BY <1>4, <1>5, <1>6, <1>7
  <2> HIDE DEF x
  <2>2. SumFunction(g) = SumFunction(f) + 1
    BY <1>2, <2>1, SumBump
  <2>3. QED
    BY <1>7, <2>2 DEF f, g
<1>8. CASE Passes(lists[n][i].allow) # c
  <2>1. \A q \in R : g[q] = f[q]
    BY <1>4, <1>5, <1>8
  <2>2. g = f
    BY <1>2, <2>1
  <2>3. SumFunction(f) \in Nat
    BY <1>2, SumNat
  <2>4. QED
    BY <1>8, <2>2, <2>3 DEF f, g
<1>9. QED
  BY <1>7, <1>8

(* A list that is emptied takes its hits with it. *)
LEMMA ClearTakesHits ==
  ASSUME NEW lists \in Lists, NEW n \in AclNos, NEW c
  PROVE  LET new == [lists EXCEPT ![n] = <<>>]
         IN  SumFunction(HitsAt(new, c)) <= SumFunction(HitsAt(lists, c))
<1> DEFINE new == [lists EXCEPT ![n] = <<>>]
           R == Ruling(lists, c)
           S == Ruling(new, c)
           f == HitsAt(lists, c)
           e == HitsAt(new, c)
<1>1. <<>> \in Seq(RuleType)
  OBVIOUS
<1>2. /\ new \in Lists /\ new[n] = <<>>
      /\ \A k \in AclNos : k # n => new[k] = lists[k]
  BY <1>1 DEF Lists
<1> HIDE DEF new
<1>3. \A q \in S : \E k \in AclNos : \E j \in 1 .. Len(lists[k]) :
        q = <<k, j>> /\ new[k] = lists[k] /\ Passes(lists[k][j].allow) = c
  <2> SUFFICES ASSUME NEW q \in S
               PROVE  \E k \in AclNos : \E j \in 1 .. Len(lists[k]) :
                        q = <<k, j>> /\ new[k] = lists[k] /\ Passes(lists[k][j].allow) = c
    OBVIOUS
  <2>1. PICK k \in AclNos : \E j \in 1 .. Len(new[k]) : q = <<k, j>> /\ Passes(new[k][j].allow) = c
    BY <1>2, RulingIs
  <2>2. PICK j \in 1 .. Len(new[k]) : q = <<k, j>> /\ Passes(new[k][j].allow) = c
    BY <2>1
  <2>3. k # n
    BY <1>2, <2>2
  <2>4. new[k] = lists[k]
    BY <1>2, <2>3
  <2>5. QED
    BY <2>2, <2>4
<1>4. S \subseteq R
  BY <1>3, RulingIs
<1>5. \A q \in S : e[q] = f[q]
  <2>1. \A q \in S : /\ e[q] = new[q[1]][q[2]].hit_count
                     /\ f[q] = lists[q[1]][q[2]].hit_count
    BY <1>4 DEF HitsAt
  <2> HIDE DEF S, R, e, f
  <2>2. \A q \in S : new[q[1]] = lists[q[1]]
    BY <1>3
  <2>3. QED
    BY <2>1, <2>2
<1>6. f \in [R -> Nat] /\ e \in [S -> Nat] /\ IsFiniteSet(R)
  BY <1>2, HitsTyped, RulingFinite
<1> HIDE DEF S, R, e, f
<1>7. e = [q \in S |-> f[q]]
  BY <1>5, <1>6
<1>8. SumFunction(e) <= SumFunction(f)
  BY <1>4, <1>6, <1>7, SumSmaller
<1>9. QED
  BY <1>8 DEF e, f, new

(* A new rule has no hits yet. *)
LEMMA AddKeepsHits ==
  ASSUME NEW lists \in Lists, NEW n \in AclNos, NEW rule \in RuleType,
         rule.hit_count = 0, NEW c
  PROVE  LET new == [lists EXCEPT ![n] = Append(@, rule)]
         IN  SumFunction(HitsAt(new, c)) = SumFunction(HitsAt(lists, c))
<1> DEFINE new == [lists EXCEPT ![n] = Append(@, rule)]
           R == Ruling(lists, c)
           S == Ruling(new, c)
           f == HitsAt(lists, c)
           e == HitsAt(new, c)
           x == <<n, Len(lists[n]) + 1>>
<1>1. \A k \in AclNos : lists[k] \in Seq(RuleType) /\ Len(lists[k]) \in Nat
  BY DEF Lists
<1>2. Append(lists[n], rule) \in Seq(RuleType)
  BY <1>1
<1>3. /\ new \in Lists /\ new[n] = Append(lists[n], rule)
      /\ \A k \in AclNos : k # n => new[k] = lists[k]
  BY <1>2 DEF Lists
<1>4. /\ Len(new[n]) = Len(lists[n]) + 1 /\ new[n][Len(lists[n]) + 1] = rule
      /\ \A j \in 1 .. Len(lists[n]) : new[n][j] = lists[n][j]
  BY <1>1, <1>3
<1> HIDE DEF new
<1>5. /\ \A k \in AclNos : Len(lists[k]) <= Len(new[k])
      /\ \A k \in AclNos : \A j \in 1 .. Len(lists[k]) : new[k][j] = lists[k][j]
      /\ \A k \in AclNos : \A j \in 1 .. Len(new[k]) :
           j \in 1 .. Len(lists[k]) \/ <<k, j>> = x
  <2> SUFFICES ASSUME NEW k \in AclNos
               PROVE  /\ Len(lists[k]) <= Len(new[k])
                      /\ \A j \in 1 .. Len(lists[k]) : new[k][j] = lists[k][j]
                      /\ \A j \in 1 .. Len(new[k]) :
                           j \in 1 .. Len(lists[k]) \/ <<k, j>> = x
    OBVIOUS
  <2>1. CASE k # n
    BY <1>1, <1>3, <2>1
  <2>2. CASE k = n
    <3>1. \A j \in 1 .. Len(new[n]) : j \in 1 .. Len(lists[n]) \/ j = Len(lists[n]) + 1
      BY <1>1, <1>4
    <3>2. Len(lists[n]) <= Len(new[n])
      BY <1>1, <1>4
    <3>3. QED
      BY <1>4, <2>2, <3>1, <3>2
  <2>3. QED
    BY <2>1, <2>2
<1>6. R \subseteq S /\ S \subseteq R \cup {x}
  <2>1. ASSUME NEW q \in R PROVE q \in S
    <3>1. PICK k \in AclNos : \E j \in 1 .. Len(lists[k]) :
             q = <<k, j>> /\ Passes(lists[k][j].allow) = c
      BY RulingIs
    <3>2. PICK j \in 1 .. Len(lists[k]) : q = <<k, j>> /\ Passes(lists[k][j].allow) = c
      BY <3>1
    <3>3. j \in 1 .. Len(new[k]) /\ new[k][j] = lists[k][j]
      <4>1. Len(new[k]) \in Nat /\ Len(lists[k]) <= Len(new[k])
        BY <1>3, <1>5 DEF Lists
      <4>2. QED
        BY <1>1, <1>5, <4>1
    <3>4. QED
      BY <1>3, <3>2, <3>3, RulingIs
  <2>2. ASSUME NEW q \in S PROVE q \in R \cup {x}
    <3>1. PICK k \in AclNos : \E j \in 1 .. Len(new[k]) :
             q = <<k, j>> /\ Passes(new[k][j].allow) = c
      BY <1>3, RulingIs
    <3>2. PICK j \in 1 .. Len(new[k]) : q = <<k, j>> /\ Passes(new[k][j].allow) = c
      BY <3>1
    <3>3. CASE j \in 1 .. Len(lists[k])
      <4>1. new[k][j] = lists[k][j]
        BY <1>5, <3>3
      <4>2. q \in R
        BY <3>2, <3>3, <4>1, RulingIs
      <4>3. QED
        BY <4>2
    <3>4. CASE <<k, j>> = x
      BY <3>2, <3>4
    <3>5. QED
      BY <1>5, <3>3, <3>4
  <2>3. QED
    BY <2>1, <2>2
<1>7. x \notin R
  BY <1>1, RulingIs
<1>8. /\ \A q \in R : e[q] = f[q]
      /\ x \in S => e[x] = 0
  <2>1. \A q \in S : e[q] = new[q[1]][q[2]].hit_count
    BY DEF HitsAt
  <2>2. \A q \in R : f[q] = lists[q[1]][q[2]].hit_count
    BY DEF HitsAt
  <2>3. \A q \in R : new[q[1]][q[2]] = lists[q[1]][q[2]]
    BY <1>5, RulingIs
  <2>4. x[1] = n /\ x[2] = Len(lists[n]) + 1
    OBVIOUS
  <2> HIDE DEF S, R, e, f, x
  <2>5. QED
    BY <1>4, <1>6, <2>1, <2>2, <2>3, <2>4
<1>9. /\ f \in [R -> Nat] /\ e \in [S -> Nat] /\ IsFiniteSet(R) /\ IsFiniteSet(S)
  BY <1>3, HitsTyped, RulingFinite
<1> HIDE DEF S, R, e, f, x
<1>10. CASE x \in S
  <2>1. S \ {x} = R
    BY <1>6, <1>7
  <2>2. f = [q \in S \ {x} |-> e[q]]
    BY <1>8, <1>9, <2>1
  <2>3. SumFunction(e) = e[x] + SumFunction(f)
    BY <1>9, <1>10, <2>2, SumWithout
  <2>4. SumFunction(f) \in Nat
    BY <1>9, SumNat
  <2>5. SumFunction(e) = SumFunction(f)
    BY <1>8, <1>10, <2>3, <2>4
  <2>6. QED
    BY <2>5 DEF e, f, new
<1>11. CASE x \notin S
  <2>1. S = R
    BY <1>6, <1>11
  <2>2. e = f
    BY <1>8, <1>9, <2>1
  <2>3. QED
    BY <2>2 DEF e, f, new
<1>12. QED
  BY <1>10, <1>11
-----------------------------------------------------------------------------
(* The sums behind HitsCounted, of the lists before and after a step. *)
Total(lists, c) == SumFunction(HitsAt(lists, c))
Allowing(lists) == Total(lists, TRUE)
Denying(lists) == Total(lists, FALSE)

Within(lists, allowed, denied) ==
  Allowing(lists) <= allowed /\ Denying(lists) <= denied

LEMMA HitsAreTotals ==
  /\ HitsCounted <=> Within(acl, acl_allow_count, acl_deny_count)
  /\ HitsCounted' <=> Within(acl', acl_allow_count', acl_deny_count')
BY DEF HitsCounted, Hits, Within, Allowing, Denying, Total

LEMMA TotalNat ==
  ASSUME NEW lists \in Lists, NEW c
  PROVE  Total(lists, c) \in Nat
<1>1. IsFiniteSet(Ruling(lists, c)) /\ HitsAt(lists, c) \in [Ruling(lists, c) -> Nat]
  BY RulingFinite, HitsTyped
<1>2. QED
  BY <1>1, SumNat DEF Total

LEMMA TotalsNat ==
  ASSUME NEW lists \in Lists
  PROVE  Allowing(lists) \in Nat /\ Denying(lists) \in Nat
BY TotalNat DEF Allowing, Denying

(* Counts that grow as the totals do stay above them. *)
LEMMA WithinGrows ==
  ASSUME NEW lists \in Lists, NEW new \in Lists, NEW a \in Nat, NEW d \in Nat,
         NEW i \in {0, 1}, NEW j \in {0, 1}, Within(lists, a, d),
         Allowing(new) <= Allowing(lists) + i, Denying(new) <= Denying(lists) + j
  PROVE  Within(new, a + i, d + j)
<1>1. /\ Allowing(lists) \in Nat /\ Denying(lists) \in Nat
      /\ Allowing(new) \in Nat /\ Denying(new) \in Nat
  BY TotalsNat
<1>2. QED
  BY <1>1 DEF Within

LEMMA AclTyped ==
  ASSUME AclType
  PROVE  acl \in Lists /\ acl_allow_count \in Nat /\ acl_deny_count \in Nat
BY DEF AclType, RuleType, Lists

LEMMA AclTypedNext == ASSUME AclType' PROVE acl' \in Lists
BY DEF AclType, RuleType, Lists

(* A packet hits a rule only if it is counted, on the side the rule takes. *)
LEMMA HitIsCounted ==
  ASSUME AclType, NEW n \in AclNos, NEW p, Judged(p), Matching(n, p) # {}
  PROVE  /\ Applied(n, p) \in 1 .. Len(acl[n]) /\ acl[n] # <<>> /\ ~Uncounted(p)
         /\ Verdict(n, p) = acl[n][Applied(n, p)].allow
<1>1. Applied(n, p) \in 1 .. Len(acl[n])
  BY AppliedIsFirst
<1>2. acl[n] # <<>>
  BY <1>1, AclTyped DEF Lists
<1>3. p.eth = "IP" /\ ~Uncounted(p)
  BY DEF Judged, Uncounted, KnownProtos
<1>4. Verdict(n, p) = acl[n][Applied(n, p)].allow
  BY <1>2, <1>3 DEF Verdict
<1>5. QED
  BY <1>1, <1>2, <1>3, <1>4

(* What acl_check_packet does to the hits. *)
Hit(lists, new, n, i) == new = [lists EXCEPT ![n][i].hit_count = @ + 1]

LEMMA HitTotals ==
  ASSUME NEW lists \in Lists, NEW n \in AclNos, NEW i \in 1 .. Len(lists[n]), NEW new \in Lists,
         Hit(lists, new, n, i)
  PROVE  IF Passes(lists[n][i].allow)
         THEN Allowing(new) = Allowing(lists) + 1 /\ Denying(new) = Denying(lists)
         ELSE Denying(new) = Denying(lists) + 1 /\ Allowing(new) = Allowing(lists)
<1> DEFINE rule == [lists[n][i] EXCEPT !.hit_count = @ + 1]
           rules == [lists[n] EXCEPT ![i] = rule]
<1>1. new = [lists EXCEPT ![n] = rules]
  BY DEF Hit
<1>2. lists[n] \in Seq(RuleType) /\ lists[n][i] \in RuleType
  BY DEF Lists
<1>3. rule.allow = lists[n][i].allow /\ rule.hit_count = lists[n][i].hit_count + 1
  BY <1>2 DEF RuleType
<1> HIDE DEF rule
<1>4. /\ Len(rules) = Len(lists[n]) /\ rules[i] = rule
      /\ \A j \in 1 .. Len(lists[n]) : j # i => rules[j] = lists[n][j]
  BY <1>2
<1> HIDE DEF rules
<1>5. new[n] = rules /\ \A k \in AclNos : k # n => new[k] = lists[k]
  BY <1>1 DEF Lists
<1>6. OneMoreHit(lists, new, n, i)
  BY <1>3, <1>4, <1>5 DEF OneMoreHit
<1>7. \A c : Total(new, c) = Total(lists, c) + IF Passes(lists[n][i].allow) = c THEN 1 ELSE 0
  BY <1>6, OneHitCounts DEF Total
<1>8. CASE Passes(lists[n][i].allow)
  <2>1. Total(new, TRUE) = Total(lists, TRUE) + 1 /\ Total(new, FALSE) = Total(lists, FALSE) + 0
    BY <1>7, <1>8, Zenon DEF Passes
  <2>2. Allowing(new) = Allowing(lists) + 1 /\ Denying(new) = Denying(lists) + 0
    BY <2>1 DEF Allowing, Denying
  <2>3. QED
    BY <1>8, <2>2, TotalsNat
<1>9. CASE ~Passes(lists[n][i].allow)
  <2> DEFINE passes == Passes(lists[n][i].allow)
  <2>1. /\ Total(new, TRUE) = Total(lists, TRUE) + 0
        /\ Total(new, FALSE) = Total(lists, FALSE) + 1
    <3>1. passes = FALSE
      BY <1>9 DEF Passes
    <3>2. /\ Total(new, TRUE) = Total(lists, TRUE) + IF passes = TRUE THEN 1 ELSE 0
          /\ Total(new, FALSE) = Total(lists, FALSE) + IF passes = FALSE THEN 1 ELSE 0
      BY <1>7, Zenon
    <3> HIDE DEF passes
    <3>3. QED
      BY <3>1, <3>2, Zenon
  <2>2. Allowing(new) = Allowing(lists) + 0 /\ Denying(new) = Denying(lists) + 1
    BY <2>1 DEF Allowing, Denying
  <2>3. QED
    BY <1>9, <2>2, TotalsNat
<1>10. QED
  BY <1>8, <1>9

LEMMA CheckCounts ==
  ASSUME AclType, HitsCounted, NEW n \in AclNos, NEW p, acl_check_packet(n, p)
  PROVE  HitsCounted'
<1> DEFINE passes == Passes(Verdict(n, p))
           counting == acl_allow_count + acl_deny_count < MaxCount
           counts == counting /\ acl[n] # <<>> /\ ~Uncounted(p)
           hits == counting /\ Judged(p) /\ Matching(n, p) # {}
           i == Applied(n, p)
           a == IF counts /\ passes THEN 1 ELSE 0
           d == IF counts /\ ~passes THEN 1 ELSE 0
<1>1. /\ acl' = IF hits THEN [acl EXCEPT ![n][i].hit_count = @ + 1] ELSE acl
      /\ acl_allow_count' = acl_allow_count + a
      /\ acl_deny_count' = acl_deny_count + d
  BY DEF acl_check_packet
<1>2. acl \in Lists /\ acl' \in Lists /\ acl_allow_count \in Nat /\ acl_deny_count \in Nat
  <2>1. AclType'
    BY CheckStep
  <2>2. QED
    BY <2>1, AclTyped, AclTypedNext, Zenon
<1>3. /\ Allowing(acl) \in Nat /\ Denying(acl) \in Nat
      /\ Allowing(acl') \in Nat /\ Denying(acl') \in Nat
  BY <1>2, TotalsNat
<1>4. a \in {0, 1} /\ d \in {0, 1} /\ passes \in BOOLEAN
  BY DEF Passes
<1>5. hits => /\ i \in 1 .. Len(acl[n]) /\ counts
              /\ passes = Passes(acl[n][i].allow)
  BY HitIsCounted
<1>6. Allowing(acl') <= Allowing(acl) + a /\ Denying(acl') <= Denying(acl) + d
  <2>1. CASE ~hits
    <3>1. acl' = acl
      BY <1>1, <2>1
    <3> HIDE DEF a, d
    <3>2. QED
      BY <1>3, <1>4, <3>1
  <2>2. CASE hits
    <3>1. Hit(acl, acl', n, i) /\ i \in 1 .. Len(acl[n])
      BY <1>1, <1>5, <2>2 DEF Hit
    <3> HIDE DEF i
    <3>2. IF Passes(acl[n][i].allow)
          THEN Allowing(acl') = Allowing(acl) + 1 /\ Denying(acl') = Denying(acl)
          ELSE Denying(acl') = Denying(acl) + 1 /\ Allowing(acl') = Allowing(acl)
      BY <1>2, <3>1, HitTotals
    <3>3. passes = Passes(acl[n][i].allow) /\ counts
      BY <1>5, <2>2
    <3>4. IF passes THEN a = 1 /\ d = 0 ELSE a = 0 /\ d = 1
      BY <3>3
    <3> HIDE DEF a, d, passes, counts, hits
    <3>5. QED
      BY <1>3, <3>2, <3>3, <3>4
  <2>3. QED
    BY <2>1, <2>2
<1>7. Within(acl', acl_allow_count + a, acl_deny_count + d)
  <2>1. Within(acl, acl_allow_count, acl_deny_count)
    BY HitsAreTotals
  <2> HIDE DEF a, d
  <2>2. QED
    BY <1>2, <1>4, <1>6, <2>1, WithinGrows
<1>8. QED
  BY <1>1, <1>7, HitsAreTotals

LEMMA CommandCounts ==
  ASSUME AclType, HitsCounted, NEW n \in AclNos,
         acl_clear(n) \/ \E r \in Rules : acl_add(n, r)
  PROVE  HitsCounted'
<1>1. acl \in Lists /\ acl' \in Lists /\ acl_allow_count \in Nat /\ acl_deny_count \in Nat
  <2>1. AclType'
    BY AclCommandStep
  <2>2. QED
    BY <2>1, AclTyped, AclTypedNext, Zenon
<1>2. /\ Allowing(acl) \in Nat /\ Denying(acl) \in Nat
      /\ Allowing(acl') \in Nat /\ Denying(acl') \in Nat
  BY <1>1, TotalsNat
<1>3. acl_allow_count' = acl_allow_count /\ acl_deny_count' = acl_deny_count
  BY DEF acl_clear, acl_add
<1>4. Allowing(acl') <= Allowing(acl) /\ Denying(acl') <= Denying(acl)
  <2>1. CASE acl_clear(n)
    <3>1. acl' = [acl EXCEPT ![n] = <<>>]
      BY <2>1 DEF acl_clear
    <3>2. \A c : Total(acl', c) <= Total(acl, c)
      BY <1>1, <3>1, ClearTakesHits DEF Total
    <3>3. QED
      BY <3>2 DEF Allowing, Denying
  <2>2. ASSUME NEW r \in Rules, acl_add(n, r)
        PROVE  Allowing(acl') = Allowing(acl) /\ Denying(acl') = Denying(acl)
    <3> DEFINE rule == [proto  |-> r.proto,
                        src    |-> Masked(r.src, r.s_block), s_block |-> r.s_block,
                        dest   |-> Masked(r.dest, r.d_block), d_block |-> r.d_block,
                        s_port |-> r.s_port, d_port |-> r.d_port,
                        allow  |-> r.allow, hit_count |-> 0]
    <3>1. /\ r.proto \in Nat /\ r.src \in Nat /\ r.s_block \in Nat \ {0} /\ r.dest \in Nat
          /\ r.d_block \in Nat \ {0} /\ r.s_port \in Nat /\ r.d_port \in Nat
          /\ r.allow \in SUBSET Flags
      BY AclAssumption
    <3>2. rule \in RuleType /\ rule.hit_count = 0
      BY <3>1, MaskedNat DEF RuleType
    <3>3. acl' = acl \/ acl' = [acl EXCEPT ![n] = Append(@, rule)]
      BY <2>2 DEF acl_add
    <3> HIDE DEF rule
    <3>4. \A c : SumFunction(HitsAt([acl EXCEPT ![n] = Append(@, rule)], c))
                   = SumFunction(HitsAt(acl, c))
      BY <1>1, <3>2, AddKeepsHits
    <3>5. \A c : Total(acl', c) = Total(acl, c)
      BY <3>3, <3>4, Zenon DEF Total
    <3>6. QED
      BY <3>5 DEF Allowing, Denying
  <2>3. QED
    BY <1>2, <2>1, <2>2
<1>5. Within(acl', acl_allow_count, acl_deny_count)
  <2>1. Within(acl, acl_allow_count, acl_deny_count)
    BY HitsAreTotals
  <2>2. QED
    BY <1>1, <1>2, <1>4, <2>1 DEF Within
<1>6. QED
  BY <1>3, <1>5, HitsAreTotals

LEMMA CountsUnchanged ==
  ASSUME HitsCounted, acl' = acl, acl_allow_count' = acl_allow_count,
         acl_deny_count' = acl_deny_count
  PROVE  HitsCounted'
BY DEF HitsCounted, Hits

LEMMA CountsStep == PInv /\ HitsCounted /\ [Next]_vars => HitsCounted'
<1> SUFFICES ASSUME PInv, HitsCounted, [Next]_vars PROVE HitsCounted'
  OBVIOUS
<1>1. AclType
  BY DEF PInv
<1>2. CASE Forward
  <2>1. PICK p \in Packets : \/ my_input_ap(p) \/ my_output_ap(p)
                             \/ my_input_sta(p) \/ my_output_sta(p)
    BY <1>2 DEF Forward
  <2>2. PICK n \in 0 .. 3 : acl_check_packet(n, p)
    <3>1. acl_check_packet(0, p) \/ acl_check_packet(1, p)
          \/ acl_check_packet(2, p) \/ acl_check_packet(3, p)
      BY <2>1, Zenon DEF my_input_ap, my_output_ap, my_input_sta, my_output_sta,
                         ApHook, StaHook
    <3>2. QED
      BY <3>1
  <2>3. QED
    BY <1>1, <2>2, CheckCounts DEF AclNos
<1>3. CASE Firewall
  BY <1>1, <1>3, CommandCounts DEF Firewall
<1>4. CASE Debug
  BY <1>4, CountsUnchanged DEF Debug, set_acl_debug
<1>5. CASE Observe
  BY <1>5, CountsUnchanged DEF Observe, aclVars
<1>6. CASE Limit
  BY <1>6, CountsUnchanged DEF Limit, SetRate, SetDailyLimit, Timer, aclVars
<1>7. CASE UNCHANGED vars
  BY <1>7, CountsUnchanged DEF vars, aclVars
<1>8. QED
  BY <1>2, <1>3, <1>4, <1>5, <1>6, <1>7 DEF Next

LEMMA CountsInit == Init => HitsCounted
<1> SUFFICES ASSUME Init PROVE HitsCounted
  OBVIOUS
<1>1. acl \in Lists /\ \A n \in AclNos : Len(acl[n]) = 0
  <2>1. <<>> \in Seq(RuleType)
    OBVIOUS
  <2>2. QED
    BY <2>1 DEF Init, AclInit, Lists
<1>2. \A c : Ruling(acl, c) = {}
  BY <1>1, RulingIs
<1>3. ASSUME NEW c PROVE Total(acl, c) = 0
  <2> DEFINE f == HitsAt(acl, c)
  <2>1. IsFiniteSet({}) /\ DOMAIN f = {}
    BY <1>2, FS_EmptySet DEF HitsAt
  <2> HIDE DEF f
  <2>2. PICK g : SumRules(g, f, {}) /\ SumFunction(f) = g[{}]
    BY <2>1, SumFacts
  <2>3. g[{}] = 0
    BY <2>2 DEF SumRules
  <2>4. QED
    BY <2>2, <2>3 DEF Total, f
<1>4. Allowing(acl) = 0 /\ Denying(acl) = 0
  BY <1>3 DEF Allowing, Denying
<1>5. Within(acl, acl_allow_count, acl_deny_count)
  BY <1>4 DEF Within, Init, AclInit
<1>6. QED
  BY <1>5, HitsAreTotals

(* Rules never have more hits than packets were counted, on either side,     *)
(* whatever lists are extended or cleared meanwhile.                        *)
THEOREM HitsAreCounted == Spec => []HitsCounted
BY CountsInit, CountsStep, PathInvariant, PTL DEF Spec
=============================================================================
