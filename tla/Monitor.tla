--------------------------------- MODULE Monitor ---------------------------------
(***************************************************************************)
(* Remote monitoring (user_main.c 341-502): packets of the soft-AP side    *)
(* are copied into a ring of pcap records, which one TCP client reads.     *)
(*                                                                         *)
(* A packet's fields len and id are what a record holds of it: a header of *)
(* HEADER bytes, then len bytes that are all id.                           *)
(***************************************************************************)
EXTENDS RingBuf, FiniteSetsExt

CONSTANTS
  Clients,       \* TCP connections to the monitor's port
  NONE,          \* no connection
  HEADER,        \* sizeof(struct pcap_pkthdr): 16
  TIGHT,         \* MONITOR_BUFFER_TIGHT: 0x1000
  CUT,           \* what is kept of a packet when it is tight: 60
  SEND_MAX,      \* what is sent at once: 1400
  MaxLen,        \* the longest packet
  MonitorModes   \* bound: the modes it is started in, of "on" and "acl"

ASSUME MonitorAssumption ==
  /\ {HEADER, TIGHT, CUT, SEND_MAX, MaxLen} \subseteq Nat
  /\ CUT # 0 /\ HEADER + CUT <= SEND_MAX
  /\ HEADER + MaxLen <= TIGHT /\ TIGHT <= Capacity
  /\ SEND_MAX <= Capacity
  /\ NONE \notin Clients

VARIABLES
  monitor_port,              \* is it set?
  listening,                 \* cur_mon_listen # NULL
  monitoring_on,
  acl_monitoring,            \* only what the ACLs say is monitored
  monitoring_send_ongoing,
  cur_mon_conn,              \* the last connection that came up
  pcap_buffer,               \* the ring
  up,                        \* the library's connections that are up,
  closing,                   \* those that espconn_disconnect was called for,
  unsent                     \* and those with a send that has not called back

monitorVars == <<monitor_port, listening, monitoring_on, acl_monitoring,
                 monitoring_send_ongoing, cur_mon_conn, pcap_buffer, up, closing, unsent>>
-----------------------------------------------------------------------------
(* espconn_send may fail for want of memory or because a send is pending,   *)
(* and does when the connection is gone.                                    *)
CanSend(c) == IF c \in up THEN BOOLEAN ELSE {FALSE}

(* tcp_monitor_sent_cb: what waits in the ring is taken out and sent.       *)
tcp_monitor_sent_cb_mutant(c, ring, pending) ==   \* a failed send goes on
  LET used == ringbuf_bytes_used(ring)
      len == IF used > SEND_MAX THEN SEND_MAX ELSE used
  IN  IF ~monitoring_on \/ len = 0
      THEN /\ pcap_buffer' = ring /\ unsent' = pending
           /\ monitoring_send_ongoing' = FALSE
      ELSE \E ok \in CanSend(c) :
             /\ pcap_buffer' = IF ok THEN ringbuf_memcpy_from(ring, len) ELSE ring
             /\ monitoring_send_ongoing' = ok
             /\ unsent' = IF ok THEN pending \cup {c} ELSE pending
tcp_monitor_sent_cb(c, ring, pending) ==
  LET used == ringbuf_bytes_used(ring)
      len == IF used > SEND_MAX THEN SEND_MAX ELSE used
  IN  IF ~monitoring_on \/ len = 0
      THEN /\ pcap_buffer' = ring /\ unsent' = pending
           /\ monitoring_send_ongoing' = FALSE
      ELSE \E ok \in CanSend(c) :
             /\ pcap_buffer' = ringbuf_memcpy_from(ring, len)
             /\ monitoring_send_ongoing' = ok
             /\ unsent' = IF ok THEN pending \cup {c} ELSE pending

(* put_packet_to_ringbuf: the record of a packet, cut when room is scarce.  *)
CapLen(p) ==
  IF ringbuf_bytes_free(pcap_buffer) < TIGHT /\ p.len > CUT THEN CUT ELSE p.len

Fits(p) == ringbuf_bytes_free(pcap_buffer) >= HEADER + CapLen(p)

PcapHeader == [i \in 1 .. HEADER |-> "pcap_pkthdr"]
Payload(p, len) == [i \in 1 .. len |-> p.id]

put_packet_to_ringbuf(p) ==
  IF Fits(p)
  THEN ringbuf_memcpy_into(ringbuf_memcpy_into(pcap_buffer, PcapHeader),
                           Payload(p, CapLen(p)))
  ELSE pcap_buffer

(* DROP_PACKET_IF_NOT_RECORDED: the packet goes no further, and no send     *)
(* is started.                                                              *)
Lost(p) == monitoring_on /\ ~acl_monitoring /\ ~Fits(p)

(* The part of my_input_ap and my_output_ap that monitors. *)
Mirror(p, verdict) ==
  LET watched == monitoring_on /\ (acl_monitoring => "MONITOR" \in verdict)
      ring == put_packet_to_ringbuf(p)
  IN  /\ IF ~watched \/ Lost(p)
         THEN UNCHANGED <<pcap_buffer, unsent, monitoring_send_ongoing>>
         ELSE IF monitoring_send_ongoing
              THEN pcap_buffer' = ring /\ UNCHANGED <<unsent, monitoring_send_ongoing>>
              ELSE tcp_monitor_sent_cb(cur_mon_conn, ring, unsent)
      /\ UNCHANGED <<monitor_port, listening, monitoring_on, acl_monitoring,
                     cur_mon_conn, up, closing>>
-----------------------------------------------------------------------------
MonitorInit ==
  /\ monitor_port = FALSE /\ listening = FALSE
  /\ monitoring_on = FALSE /\ acl_monitoring = FALSE
  /\ monitoring_send_ongoing = FALSE
  /\ cur_mon_conn = NONE
  /\ pcap_buffer = ringbuf_new
  /\ up = {} /\ closing = {} /\ unsent = {}

(* "monitor on" and "monitor acl", start_monitor.  The allocation of the    *)
(* listening connection may fail.                                           *)
MonitorOn(mode) ==
  /\ ~monitor_port
  /\ monitor_port' = TRUE
  /\ acl_monitoring' = (mode = "acl")
  /\ IF monitoring_on THEN UNCHANGED <<listening, pcap_buffer, monitoring_send_ongoing>>
     ELSE /\ listening' \in BOOLEAN
          /\ pcap_buffer' = ringbuf_new /\ monitoring_send_ongoing' = FALSE
  /\ UNCHANGED <<monitoring_on, cur_mon_conn, up, closing, unsent>>

(* "monitor off", stop_monitor.  The ring is freed: none is left to see.    *)
MonitorOff_mutant ==      \* leaves monitoring_on to tcp_monitor_discon_cb
  /\ monitor_port
  /\ monitor_port' = FALSE /\ listening' = FALSE
  /\ monitoring_on' = monitoring_on
  /\ closing' = IF monitoring_on THEN closing \cup (up \cap {cur_mon_conn}) ELSE closing
  /\ pcap_buffer' = ringbuf_new
  /\ UNCHANGED <<acl_monitoring, monitoring_send_ongoing, cur_mon_conn, up, unsent>>
MonitorOff ==
  /\ monitor_port
  /\ monitor_port' = FALSE /\ listening' = FALSE
  /\ monitoring_on' = FALSE
  /\ closing' = IF monitoring_on THEN closing \cup (up \cap {cur_mon_conn}) ELSE closing
  /\ pcap_buffer' = ringbuf_new
  /\ UNCHANGED <<acl_monitoring, monitoring_send_ongoing, cur_mon_conn, up, unsent>>

(* tcp_monitor_connected_cb.  The result of the header's send is not used.  *)
MonitorConnected(c) ==
  /\ listening /\ c \notin up
  /\ pcap_buffer' = ringbuf_reset(pcap_buffer)
  /\ cur_mon_conn' = c
  /\ up' = up \cup {c}
  /\ unsent' \in {unsent, unsent \cup {c}}
  /\ monitoring_send_ongoing' = TRUE /\ monitoring_on' = TRUE
  /\ UNCHANGED <<monitor_port, listening, acl_monitoring, closing>>

(* The library reports that a send has been acknowledged. *)
MonitorSent(c) ==
  /\ c \in unsent
  /\ tcp_monitor_sent_cb(c, pcap_buffer, unsent \ {c})
  /\ UNCHANGED <<monitor_port, listening, monitoring_on, acl_monitoring,
                 cur_mon_conn, up, closing>>

Gone(c) == up' = up \ {c} /\ closing' = closing \ {c} /\ unsent' = unsent \ {c}

(* tcp_monitor_discon_cb, whichever connection it is. *)
MonitorDisconnected(c) ==
  /\ c \in up
  /\ Gone(c)
  /\ monitoring_on' = FALSE
  /\ UNCHANGED <<monitor_port, listening, acl_monitoring, monitoring_send_ongoing,
                 cur_mon_conn, pcap_buffer>>

(* A connection breaks: the library calls the reconnect callback, and none  *)
(* is registered.                                                           *)
MonitorBroken(c) ==
  /\ c \in up
  /\ Gone(c)
  /\ UNCHANGED <<monitor_port, listening, monitoring_on, acl_monitoring,
                 monitoring_send_ongoing, cur_mon_conn, pcap_buffer>>

MonitorNext ==
  \/ \E mode \in MonitorModes : MonitorOn(mode)
  \/ MonitorOff
  \/ \E c \in Clients : \/ MonitorConnected(c) \/ MonitorSent(c)
                        \/ MonitorDisconnected(c) \/ MonitorBroken(c)
-----------------------------------------------------------------------------
Ids == {"a", "b"}      \* what packets are made of

MonitorType ==
  /\ pcap_buffer \in [buf : [Positions -> Ids \cup {"pcap_pkthdr", Garbage}],
                     head : Positions, tail : Positions]
  /\ monitor_port \in BOOLEAN /\ listening \in BOOLEAN /\ monitoring_on \in BOOLEAN
  /\ acl_monitoring \in BOOLEAN /\ monitoring_send_ongoing \in BOOLEAN
  /\ cur_mon_conn \in Clients \cup {NONE}
  /\ up \subseteq Clients /\ closing \subseteq up /\ unsent \subseteq up

(* Recording goes on only while the monitor has a buffer: monitoring_on      *)
(* outlives no stop_monitor, which frees the ring.                          *)
BufferWhileOn == monitoring_on => monitor_port

(* As long as nothing is on its way to the client, the next packet finds    *)
(* room: a packet that is not recorded starts no send, so a full ring with  *)
(* no send under way would never empty and no packet pass any more.         *)
IdleHasRoom ==
  monitoring_on /\ ~monitoring_send_ongoing =>
    ringbuf_bytes_free(pcap_buffer) >= HEADER + CUT

(* What waits for the client is whole records, less what was sent.          *)
Records == {PcapHeader \o Payload([id |-> i], n) : i \in Ids, n \in 1 .. MaxLen}
Stream == INSTANCE ByteStream WITH waiting <- Contents(pcap_buffer)
KeepsRecords == Stream!Spec
=============================================================================
