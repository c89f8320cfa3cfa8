------------------------------ MODULE MqttQueue ------------------------------
(***************************************************************************)
(* The outbound queue of the MQTT client, byte by byte: a ring of bytes    *)
(* (mqtt/ringbuf_mqtt.c) that holds packets between a begin and an end     *)
(* mark (mqtt/proto.c, mqtt/queue.c).  A packet that does not fit is not   *)
(* rolled back: its first bytes stay in the ring.                          *)
(***************************************************************************)
EXTENDS Naturals, Sequences

CONSTANTS
  QUEUE_BUFFER_SIZE,   \* bytes of the ring
  MQTT_BUF_SIZE,       \* bytes of the buffer a packet is taken out to
  Packets              \* bound: the packets that are queued, as bytes

ASSUME QueueAssumption ==
  /\ QUEUE_BUFFER_SIZE \in Nat \ {0, 1} /\ MQTT_BUF_SIZE \in Nat
  /\ Packets \subseteq Seq(0..255)
  /\ \A p \in Packets : Len(p) <= MQTT_BUF_SIZE  \* they are built in such a buffer

ESC == 125      \* 0x7D
BEGIN == 126    \* 0x7E
END == 127      \* 0x7F
Marks == {ESC, BEGIN, END}

VARIABLES
  rb,         \* the bytes from p_r to p_w, fill_cnt of them
  got         \* what the last operation took out: a sequence of at most one

queueVars == <<rb, got>>
-----------------------------------------------------------------------------
Flip(c) == IF (c \div 32) % 2 = 1 THEN c - 32 ELSE c + 32      \* c ^ 0x20

Escaped(c) == IF c \in Marks THEN <<ESC, Flip(c)>> ELSE <<c>>

(* The first n bytes of a packet with their escapes, for each n. *)
Stuffing(packet) ==
  LET upTo[n \in 0 .. Len(packet)] ==
        IF n = 0 THEN <<>> ELSE upTo[n - 1] \o Escaped(packet[n])
  IN  upTo

Stuffed(packet) == Stuffing(packet)[Len(packet)]

(* PROTO_AddRb puts this one byte after the other until the ring is full. *)
Frame(packet) == <<BEGIN>> \o Stuffed(packet) \o <<END>>

RINGBUF_Put_mutant(ring, bytes) ==     \* refuses one byte late
  LET all == ring \o bytes
  IN  IF Len(all) <= QUEUE_BUFFER_SIZE THEN all
      ELSE SubSeq(all, 1, QUEUE_BUFFER_SIZE + 1)
RINGBUF_Put(ring, bytes) ==
  LET all == ring \o bytes
  IN  IF Len(all) <= QUEUE_BUFFER_SIZE THEN all
      ELSE SubSeq(all, 1, QUEUE_BUFFER_SIZE)

Fits(ring, packet) == Len(ring) + Len(Frame(packet)) <= QUEUE_BUFFER_SIZE

(* The parser of one packet.  PROTO_Init leaves isBegin as the stack has it. *)
PROTO_Init(garbage) == [data |-> <<>>, isEsc |-> FALSE, isBegin |-> garbage]

PROTO_ParseByte_mutant(p, c) ==        \* a begin mark does not start over
  CASE c = ESC   -> [p EXCEPT !.isEsc = TRUE]
    [] c = BEGIN -> [p EXCEPT !.isBegin = TRUE]
    [] c = END   -> [p EXCEPT !.isBegin = FALSE]
    [] OTHER     -> IF ~p.isBegin THEN p
                    ELSE [p EXCEPT !.isEsc = FALSE,
                                   !.data = IF Len(@) < MQTT_BUF_SIZE
                                            THEN Append(@, IF p.isEsc THEN Flip(c) ELSE c)
                                            ELSE @]
PROTO_ParseByte(p, c) ==
  CASE c = ESC   -> [p EXCEPT !.isEsc = TRUE]
    [] c = BEGIN -> [data |-> <<>>, isEsc |-> FALSE, isBegin |-> TRUE]
    [] c = END   -> [p EXCEPT !.isBegin = FALSE]
    [] OTHER     -> IF ~p.isBegin THEN p
                    ELSE [p EXCEPT !.isEsc = FALSE,
                                   !.data = IF Len(@) < MQTT_BUF_SIZE
                                            THEN Append(@, IF p.isEsc THEN Flip(c) ELSE c)
                                            ELSE @]

(* The parser after n bytes, for each n. *)
Parsing(bytes, garbage) ==
  LET after[n \in 0 .. Len(bytes)] ==
        IF n = 0 THEN PROTO_Init(garbage) ELSE PROTO_ParseByte(after[n - 1], bytes[n])
  IN  after

Ends(ring) == {i \in DOMAIN ring : ring[i] = END}
FirstEnd(ring) == CHOOSE i \in Ends(ring) : \A j \in Ends(ring) : i <= j

(* QUEUE_Gets reads up to the first end mark; without one it empties the    *)
(* ring and fails.                                                          *)
QUEUE_Gets_mutant(ring, garbage) ==    \* reads one byte too many
  IF Ends(ring) = {}
  THEN [ok |-> FALSE, packet |-> <<>>, rest |-> <<>>]
  ELSE LET n == FirstEnd(ring)
       IN  [ok |-> TRUE, packet |-> Parsing(ring, garbage)[n].data,
            rest |-> SubSeq(ring, n + 2, Len(ring))]
QUEUE_Gets(ring, garbage) ==
  IF Ends(ring) = {}
  THEN [ok |-> FALSE, packet |-> <<>>, rest |-> <<>>]
  ELSE LET n == FirstEnd(ring)
       IN  [ok |-> TRUE, packet |-> Parsing(ring, garbage)[n].data,
            rest |-> SubSeq(ring, n + 1, Len(ring))]

(* The loop of MQTT_Publish, MQTT_Subscribe, MQTT_UnSubscribe and MQTT_Ping: *)
(* put; while that fails, take the oldest packet out and put again; give up *)
(* when there is none.  Nothing is done in a round once the packet fits, and *)
(* each round takes an end mark out, so that Len(ring) + 1 rounds are enough. *)
Round(last, packet) ==
  IF ~last.ok \/ Fits(last.rest, packet) THEN last
  ELSE QUEUE_Gets(RINGBUF_Put(last.rest, Frame(packet)), FALSE)

Rounds(ring, packet) ==
  LET after[n \in 0 .. Len(ring) + 1] ==
        IF n = 0 THEN [ok |-> TRUE, packet |-> <<>>, rest |-> ring]
        ELSE Round(after[n - 1], packet)
  IN  after

PutForced(ring, packet) ==
  LET last == Rounds(ring, packet)[Len(ring) + 1]
  IN  IF last.ok THEN RINGBUF_Put(last.rest, Frame(packet)) ELSE last.rest
-----------------------------------------------------------------------------
QueueInit == rb = <<>> /\ got = <<>>

(* MQTT_Publish and its like. *)
Enqueue(packet) == rb' = PutForced(rb, packet) /\ got' = <<>>

(* mqtt_tcpclient_recv answers the broker with a bare QUEUE_Puts. *)
Reply(packet) == rb' = RINGBUF_Put(rb, Frame(packet)) /\ got' = <<>>

(* MQTT_Task, when it may send and QUEUE_IsEmpty is false. *)
Take ==
  /\ rb # <<>>
  /\ \E garbage \in BOOLEAN :
       LET out == QUEUE_Gets(rb, garbage)
       IN  rb' = out.rest /\ got' = IF out.ok THEN <<out.packet>> ELSE <<>>

QueueNext == (\E p \in Packets : Enqueue(p) \/ Reply(p)) \/ Take

QueueSpec == QueueInit /\ [][QueueNext]_queueVars
-----------------------------------------------------------------------------
QueueTypeOK ==
  /\ rb \in Seq(0..255) /\ Len(rb) <= QUEUE_BUFFER_SIZE
  /\ got \in Seq(Packets) /\ Len(got) <= 1

(* The bytes of a ring begin with a begin mark: reading starts where a frame *)
(* starts, so that the parser never looks at the isBegin it was not given.  *)
StartsAtFrame == rb # <<>> => rb[1] = BEGIN

(* The packets in the ring: what lies between one end mark and the next,    *)
(* behind the last begin mark.                                              *)
PacketsUpTo(ring) ==
  LET parser == Parsing(ring, TRUE)
      upTo[n \in 0 .. Len(ring)] ==
        IF n = 0 THEN <<>>
        ELSE IF ring[n] = END THEN Append(upTo[n - 1], parser[n].data) ELSE upTo[n - 1]
  IN  upTo
PacketsOf(ring) == PacketsUpTo(ring)[Len(ring)]

(* The ring with its marks and its remains of packets is the queue the      *)
(* client relies on: packets come out whole, unchanged and in order.        *)
Fifo == INSTANCE MqttFifo WITH Messages <- Packets, queue <- PacketsOf(rb)
ImplementsFifo == Fifo!Spec
=============================================================================
