------------------------------- MODULE Bridge -------------------------------
(***************************************************************************)
(* The layer-2 bridge of the repeater firmware (user/bridge.c, compiled    *)
(* with REPEATER_MODE): the forwarding database that maps the IP address   *)
(* of a client of the soft-AP to its MAC address, the map that remembers   *)
(* which client sent a DHCP transaction, the four hooks that carry frames  *)
(* between the two radios and the local stack, and the installation of     *)
(* those hooks when the station interface obtains an address.              *)
(*                                                                         *)
(* The firmware is single threaded: a hook runs to completion, so every    *)
(* handler is one action.  Time is the coarse clock now_secs().            *)
(***************************************************************************)
EXTENDS Naturals, FiniteSets

CONSTANTS
  FDB_SIZE, FDB_TTL_S,        \* slots of the forwarding database, their lifetime
  XID_MAP_SIZE, XID_TTL_S,    \* slots of the transaction map, their lifetime
  StaMac, ApMac, BcastMac,    \* own MACs; BcastMac stands for every group address
  ClientMacs, PeerMacs,       \* MACs on the soft-AP side and on the upstream side
  NoIp, ApIp, StaIps,         \* 0.0.0.0, the soft-AP's address, leases we may get
  HostIps, McastIp,           \* every other unicast address; 224.0.0.0/4
  Xids,                       \* DHCP transaction identifiers
  Kinds,                      \* bound: the kinds of frames that are sent
  MaxNow                      \* bound: the clock stops here

Ips  == HostIps \cup StaIps \cup {NoIp, ApIp}
Macs == ClientMacs \cup PeerMacs \cup {StaMac, ApMac, BcastMac}
NoXid == 0
NoMac == "no mac"

ASSUME SizeAssumption ==
  /\ FDB_SIZE \in Nat \ {0} /\ XID_MAP_SIZE \in 1..FDB_SIZE
  /\ FDB_TTL_S \in Nat \ {0} /\ XID_TTL_S \in Nat \ {0} /\ MaxNow \in Nat

ASSUME AddressAssumption ==
  /\ {StaMac, ApMac, BcastMac} \cap (ClientMacs \cup PeerMacs) = {}
  /\ StaMac # ApMac /\ StaMac # BcastMac /\ ApMac # BcastMac
  /\ ClientMacs \cap PeerMacs = {} /\ NoMac \notin Macs
  /\ NoIp # ApIp /\ {NoIp, ApIp} \cap (StaIps \cup HostIps) = {}
  /\ StaIps \cap HostIps = {} /\ McastIp \notin Ips
  /\ IsFiniteSet(StaIps) /\ IsFiniteSet(HostIps)
  /\ NoXid \notin Xids

Netifs   == {"sta", "ap"}
FdbSlots == 1..FDB_SIZE
XidSlots == 1..XID_MAP_SIZE

VARIABLES
  hooked,      \* hooked[n]: nif->input and nif->output are the bridge's hooks
  saved,       \* saved[n]: what s_orig_input_n and s_orig_output_n point to
  staIp,       \* s_sta_nif->ip_addr
  fdb,         \* s_fdb
  xidMap,      \* s_xid_map
  now,         \* now_secs()
  sent,        \* frames the last handler put on either link
  passed,      \* interfaces whose saved SDK function the last handler called
  seen,        \* history: where and when an address was last observed
  asked        \* history: who used a transaction identifier last, and when

tables == <<fdb, xidMap, seen, asked>>
wiring == <<hooked, saved, staIp>>
vars   == <<wiring, tables, now, sent, passed>>
-----------------------------------------------------------------------------
(* Frames.  A body keeps what the handlers read or rewrite and a property   *)
(* looks at.  "runt" is an ARP or IP frame shorter than its header, "other" *)
(* any other ether type; a dhcp_request or dhcp_reply has op, hlen and      *)
(* magic in order (a malformed one is plain "ip").  The questions of an     *)
(* mdns body say what parsing each of them yields.                          *)

Arp(op, sha, spa) == [kind |-> "arp", op |-> op, sha |-> sha, spa |-> spa]
Frame(link, src, dst, body) ==
  [link |-> link, src |-> src, dst |-> dst, body |-> body]

IsBcast(f) == f.dst = BcastMac

(* What clients can put on the air.  A client signs its frames with its own *)
(* MAC but may use any address, ours included.  ApIp as a target stands for *)
(* every address but the station's.  Option 61, which only the DHCP server  *)
(* reads, is left out of the requests.                                      *)
SourceIps == HostIps \cup StaIps \cup {NoIp}
ApBodies(m) ==
  [kind: {"arp"}, op: {"request", "reply"}, sha: {m}, spa: SourceIps,
   tpa: StaIps \cup {ApIp}]
  \cup [kind: {"ip"}, src: SourceIps]
  \cup [kind: {"mdns"}, src: {NoIp},
        questions: {<<"miss", "hit">>, <<"bad", "hit">>}]
  \cup [kind: {"dhcp_request"}, src: {NoIp}, msg: {"select", "release"},
        xid: Xids, chaddr: {m}]
  \cup [kind: {"other", "runt"}]
ApFrames ==
  UNION {[link: {"ap"}, src: {m}, dst: {BcastMac, ApMac} \cup PeerMacs,
          body: ApBodies(m)] : m \in ClientMacs}

(* What the upstream network sends us: a DHCP server only ever learnt the   *)
(* MAC of the station, so that is what it echoes in chaddr; NoXid is the    *)
(* transaction of our own DHCP client.                                      *)
StaBodies ==
  [kind: {"arp"}, op: {"request", "reply"}, sha: PeerMacs, spa: {NoIp}, tpa: Ips]
  \cup [kind: {"ip"}, dst: Ips]
  \cup [kind: {"dhcp_reply"}, msg: {"offer", "ack"}, xid: Xids \cup {NoXid},
        chaddr: {StaMac}, yiaddr: HostIps \cup StaIps]
  \cup [kind: {"other", "runt"}]
StaFrames ==
  [link: {"sta"}, src: PeerMacs, dst: {BcastMac, StaMac},
   body: StaBodies]
-----------------------------------------------------------------------------
(* The two tables.  Both scans stop at the first slot that holds the key,   *)
(* else use the first slot that is free or expired, else evict.             *)

EmptyFdb == [s \in FdbSlots |-> [ip |-> NoIp, mac |-> NoMac, expires_s |-> 0]]
EmptyXid == [s \in XidSlots |-> [xid |-> NoXid, chaddr |-> NoMac, expires_s |-> 0]]

FirstOf(S, s) == s \in S /\ \A o \in S : s <= o

FdbFree == {s \in FdbSlots : fdb[s].ip = NoIp \/ fdb[s].expires_s <= now}
XidFree == {s \in XidSlots : xidMap[s].xid = NoXid \/ xidMap[s].expires_s <= now}

(* The scan of the forwarding database ends on the entry that expires first.*)
FdbOldest_mutant(s) ==      \* the comparison the wrong way round
  \A o \in FdbSlots : fdb[s].expires_s >= fdb[o].expires_s
FdbOldest(s) ==
  \A o \in FdbSlots : /\ fdb[s].expires_s <= fdb[o].expires_s
                      /\ o < s => fdb[s].expires_s < fdb[o].expires_s

(* The scan of the transaction map takes its running minimum from the       *)
(* forwarding database.  chosen holds the slots at which it moves on.       *)
XidOldest(s) ==
  \E chosen \in SUBSET XidSlots :
    /\ 1 \in chosen
    /\ \A i \in XidSlots \ {1} : \E p \in chosen :
         /\ p < i /\ \A o \in chosen : o < i => o <= p
         /\ i \in chosen <=> xidMap[i].expires_s < fdb[p].expires_s
    /\ s \in chosen /\ \A o \in chosen : o <= s

FdbTarget_mutant(s, ip) ==  \* takes a free slot before it looks for the key
  \/ FirstOf(FdbFree, s)
  \/ /\ FdbFree = {}
     /\ LET match == {o \in FdbSlots : fdb[o].ip = ip}
        IN  FirstOf(match, s) \/ (match = {} /\ FdbOldest(s))
FdbTarget(s, ip) ==
  LET match == {o \in FdbSlots : fdb[o].ip = ip}
  IN  \/ FirstOf(match, s)
      \/ match = {} /\ FirstOf(FdbFree, s)
      \/ match = {} /\ FdbFree = {} /\ FdbOldest(s)

XidTarget(s, xid) ==
  LET match == {o \in XidSlots : xidMap[o].xid = xid}
  IN  \/ FirstOf(match, s)
      \/ match = {} /\ FirstOf(XidFree, s)
      \/ match = {} /\ XidFree = {} /\ XidOldest(s)

(* An address the forwarding database refuses to learn. *)
Unlearnable_mutant(ip) == ip \in {NoIp, ApIp}     \* no guard for the station
Unlearnable(ip) == ip \in {NoIp, staIp, ApIp}

fdb_insert(ip, mac) ==
  IF Unlearnable(ip)
  THEN UNCHANGED <<fdb, seen>>
  ELSE /\ \E s \in FdbSlots :
            /\ FdbTarget(s, ip)
            /\ fdb' = [fdb EXCEPT ![s] = [ip |-> ip, mac |-> mac,
                                          expires_s |-> now + FDB_TTL_S]]
       /\ seen' = [seen EXCEPT ![ip] = [mac |-> mac, at |-> now]]

FdbHits(ip) == {s \in FdbSlots : fdb[s].ip = ip /\ fdb[s].expires_s > now}
FdbKnows(ip)   == FdbHits(ip) # {}
fdb_lookup(ip) == fdb[CHOOSE s \in FdbSlots : FirstOf(FdbHits(ip), s)].mac

xid_map_insert(xid, chaddr) ==
  /\ \E s \in XidSlots :
       /\ XidTarget(s, xid)
       /\ xidMap' = [xidMap EXCEPT ![s] = [xid |-> xid, chaddr |-> chaddr,
                                           expires_s |-> now + XID_TTL_S]]
  /\ asked' = [asked EXCEPT ![xid] = [mac |-> chaddr, at |-> now]]

XidHits_mutant(xid) == {s \in XidSlots : xidMap[s].xid = xid}  \* no expiry
XidHits(xid) == {s \in XidSlots : xidMap[s].xid = xid /\ xidMap[s].expires_s > now}
XidKnows(xid)       == XidHits(xid) # {}
xid_map_lookup(xid) == xidMap[CHOOSE s \in XidSlots : FirstOf(XidHits(xid), s)].chaddr
-----------------------------------------------------------------------------
(* Handing a frame to the saved input or output function.  Where bridge_init *)
(* saved the hook itself the call never returns: see Overflow.              *)
Deliver(n, cond) ==
  /\ cond => saved[n] # "hook"
  /\ passed' = IF cond THEN {n} ELSE {}

(* The early returns of the input hooks: pbuf_alloc failed, config.ssid     *)
(* (which the console may change) is the factory's, or the station's radio  *)
(* heard a frame of our own soft-AP.                                        *)
PassThrough(n) ==
  /\ hooked[n] /\ Deliver(n, TRUE)
  /\ sent' = {} /\ UNCHANGED <<wiring, tables, now>>

(* An answer of our own is a new pbuf: alloc is FALSE where there is none.   *)
ProxyReply(link, hw, req, ip) ==
  Frame(link, hw, req.sha, Arp("reply", hw, ip))
Answer(frame, alloc) == IF alloc THEN {frame} ELSE {}

(* mDNS: the first question for our own A record is answered; a name the     *)
(* parser rejects leaves the position where it was and blocks the rest.     *)
MdnsAnswered(b) ==
  /\ b.kind = "mdns" /\ staIp # NoIp
  /\ \E i \in DOMAIN b.questions :
       b.questions[i] = "hit" /\ \A j \in 1..(i - 1) : b.questions[j] # "bad"

send_mdns_a_reply(f) == Frame("ap", ApMac, f.src, [kind |-> "ip", src |-> staIp])

(* snoop_dhcp_request: every well-formed request leaves with the station's  *)
(* MAC; DISCOVER and REQUEST ("select") are remembered.                     *)
snoop_dhcp_request(b) ==
  IF b.kind = "dhcp_request" /\ b.msg = "select"
  THEN xid_map_insert(b.xid, b.chaddr)
  ELSE UNCHANGED <<xidMap, asked>>

ToUpstream_mutant(b) ==     \* the ARP sender is not rewritten
  IF b.kind = "arp" THEN Arp(b.op, b.sha, b.spa) ELSE b
ToUpstream(b) ==
  CASE b.kind = "arp"          -> Arp(b.op, StaMac, b.spa)
    [] b.kind = "dhcp_request" -> [b EXCEPT !.chaddr = StaMac]
    [] OTHER                   -> b

(* The address a client frame is learnt from, NoIp where there is none. *)
SourceIp(b) ==
  CASE b.kind = "arp"                           -> b.spa
    [] b.kind \in {"ip", "mdns", "dhcp_request"} -> b.src
    [] OTHER                                    -> NoIp

AsksForUs(b) ==
  b.kind = "arp" /\ b.op = "request" /\ staIp # NoIp /\ b.tpa = staIp

ApSent(f, alloc) ==
  LET forwarded == Frame("sta", StaMac, f.dst, ToUpstream(f.body))
      proxy     == ProxyReply("ap", ApMac, f.body, staIp)
  IN  CASE f.body.kind = "runt"  -> {}
        [] AsksForUs(f.body)     -> Answer(proxy, alloc)
        [] MdnsAnswered(f.body)  -> Answer(send_mdns_a_reply(f), alloc) \cup {forwarded}
        [] OTHER                 -> {forwarded}

(* A frame from the soft-AP side.  The handler learns the source before any *)
(* early return; its second fdb_insert repeats the first.                   *)
bridge_input_ap(f) ==
  /\ hooked["ap"]
  /\ fdb_insert(SourceIp(f.body), f.src)
  /\ \/ /\ f.dst = ApMac
        /\ sent' = {} /\ UNCHANGED <<xidMap, asked>>
        /\ Deliver("ap", TRUE)
     \/ /\ f.dst # ApMac
        /\ snoop_dhcp_request(f.body)
        /\ \E alloc \in BOOLEAN : sent' = ApSent(f, alloc)
        /\ Deliver("ap", IsBcast(f) \/ f.body.kind = "runt")
  /\ UNCHANGED <<wiring, now>>
-----------------------------------------------------------------------------
(* snoop_dhcp_reply: the client behind the transaction, or whatever the     *)
(* server wrote when the transaction is not known (any more).  The lease    *)
(* time is read and then ignored.                                           *)
ReplyChaddr(b) == IF XidKnows(b.xid) THEN xid_map_lookup(b.xid) ELSE b.chaddr

snoop_dhcp_reply(b) ==
  IF b.kind = "dhcp_reply" /\ b.msg = "ack"
  THEN fdb_insert(b.yiaddr, ReplyChaddr(b))
  ELSE UNCHANGED <<fdb, seen>>

(* The client MAC a frame from upstream is for, NoMac when it is for no one. *)
ClientOf(f) ==
  LET b == f.body
      behind(ip) == IF staIp \notin {NoIp, ip} /\ FdbKnows(ip)
                    THEN fdb_lookup(ip) ELSE NoMac
  IN  CASE b.kind = "dhcp_reply"            -> ReplyChaddr(b)
        [] b.kind = "ip" /\ ~IsBcast(f)     -> behind(b.dst)
        [] b.kind = "arp" /\ ~IsBcast(f)    -> behind(b.tpa)
        [] OTHER                            -> NoMac

Downstream(f) ==
  LET b == f.body
  IN  Frame("ap", ApMac, IF ClientOf(f) = NoMac THEN f.dst ELSE ClientOf(f),
            CASE b.kind = "arp"        -> Arp(b.op, ApMac, b.spa)
              [] b.kind = "dhcp_reply" -> [b EXCEPT !.chaddr = ReplyChaddr(b)]
              [] OTHER                 -> b)

AsksForClient(b) == b.kind = "arp" /\ b.op = "request" /\ FdbKnows(b.tpa)

bridge_input_sta(f) ==
  LET forwards == /\ f.body.kind \in {"arp", "ip", "dhcp_reply"}
                  /\ IsBcast(f) \/ ClientOf(f) # NoMac
  IN  /\ hooked["sta"]
      /\ snoop_dhcp_reply(f.body)
      /\ \/ /\ AsksForClient(f.body)
            /\ \E alloc \in BOOLEAN :
                 sent' = Answer(ProxyReply("sta", StaMac, f.body, f.body.tpa), alloc)
            /\ Deliver("sta", FALSE)
         \/ /\ ~AsksForClient(f.body)
            /\ sent' = IF forwards THEN {Downstream(f)} ELSE {}
            /\ Deliver("sta", IsBcast(f) \/ ~forwards)
      /\ UNCHANGED <<wiring, xidMap, asked, now>>
-----------------------------------------------------------------------------
(* A packet of the local stack.  headroom is FALSE where pbuf_header fails.  *)
IpTo(ip) == [kind |-> "ip", dst |-> ip]

bridge_output_sta(ip, headroom) ==
  /\ hooked["sta"]
  /\ \/ /\ FdbKnows(ip) /\ headroom
        /\ sent' = {Frame("ap", ApMac, fdb_lookup(ip), IpTo(ip))}
        /\ Deliver("sta", FALSE)
     \/ /\ ~(FdbKnows(ip) /\ headroom)
        /\ Deliver("sta", TRUE)
        /\ sent' = IF ip = McastIp /\ headroom
                   THEN {Frame("ap", ApMac, BcastMac, IpTo(ip))} ELSE {}
  /\ UNCHANGED <<wiring, tables, now>>

(* The soft-AP's output never uses the output function it replaced: what is  *)
(* not for a client goes out through the station's.                         *)
bridge_output_ap(ip, headroom) ==
  /\ hooked["ap"]
  /\ \/ /\ FdbKnows(ip) /\ headroom
        /\ sent' = {Frame("ap", ApMac, fdb_lookup(ip), IpTo(ip))}
        /\ Deliver("sta", FALSE)
     \/ /\ ~(FdbKnows(ip) /\ headroom)
        /\ sent' = {} /\ Deliver("sta", TRUE)
  /\ UNCHANGED <<wiring, tables, now>>
-----------------------------------------------------------------------------
Silent == sent' = {} /\ passed' = {}

NeverSeen == [ip \in Ips |-> [mac |-> NoMac, at |-> 0]]
NeverAsked == [x \in Xids |-> [mac |-> NoMac, at |-> 0]]

(* EVENT_STAMODE_GOT_IP and bridge_init.  fresh holds the interfaces the SDK *)
(* has created anew since the last time, whose functions are its own; the    *)
(* others still carry what bridge_init wrote.                                *)
bridge_init(ip, fresh) ==
  /\ staIp'  = ip
  /\ saved'  = [n \in Netifs |-> IF hooked[n] /\ n \notin fresh
                                 THEN "hook" ELSE "sdk"]
  /\ hooked' = [n \in Netifs |-> TRUE]
  /\ fdb' = EmptyFdb /\ xidMap' = EmptyXid
  /\ seen' = NeverSeen /\ asked' = NeverAsked
  /\ Silent /\ UNCHANGED now

(* EVENT_STAMODE_DISCONNECTED: the SDK clears the address, the hooks stay.   *)
StaDisconnected ==
  /\ staIp # NoIp
  /\ staIp' = NoIp
  /\ Silent /\ UNCHANGED <<hooked, saved, tables, now>>

Tick ==
  /\ now < MaxNow /\ now' = now + 1
  /\ Silent /\ UNCHANGED <<wiring, tables>>

(* Memory after power-up or after the watchdog's reset.                      *)
Boot ==
  [hooked |-> [n \in Netifs |-> FALSE], saved |-> [n \in Netifs |-> "none"],
   staIp |-> NoIp, fdb |-> EmptyFdb, xidMap |-> EmptyXid,
   seen |-> NeverSeen, asked |-> NeverAsked, now |-> 0]

Init ==
  /\ sent = {} /\ passed = {}
  /\ hooked = Boot.hooked /\ saved = Boot.saved /\ staIp = Boot.staIp
  /\ fdb = Boot.fdb /\ xidMap = Boot.xidMap /\ now = Boot.now
  /\ seen = Boot.seen /\ asked = Boot.asked

Restart ==
  /\ Silent
  /\ hooked' = Boot.hooked /\ saved' = Boot.saved /\ staIp' = Boot.staIp
  /\ fdb' = Boot.fdb /\ xidMap' = Boot.xidMap /\ now' = Boot.now
  /\ seen' = Boot.seen /\ asked' = Boot.asked

(* Power is cycled, or a hook called itself until the stack was exhausted.  *)
Reboot == Restart
Overflow(n) == saved[n] = "hook" /\ Restart

Next ==
  \/ \E f \in {f \in ApFrames : f.body.kind \in Kinds} : bridge_input_ap(f)
  \/ \E f \in {f \in StaFrames : f.body.kind \in Kinds} : bridge_input_sta(f)
  \/ \E n \in Netifs : PassThrough(n) \/ Overflow(n)
  \/ \E ip \in HostIps \cup {McastIp}, headroom \in BOOLEAN :
       bridge_output_sta(ip, headroom) \/ bridge_output_ap(ip, headroom)
  \/ \E ip \in StaIps, fresh \in {{}, Netifs} : bridge_init(ip, fresh)
  \/ StaDisconnected \/ Tick \/ Reboot

Spec == Init /\ [][Next]_vars
-----------------------------------------------------------------------------
Sighting == [mac: Macs \cup {NoMac}, at: 0..MaxNow]

TypeOK ==
  /\ hooked \in [Netifs -> BOOLEAN]
  /\ saved \in [Netifs -> {"none", "sdk", "hook"}]
  /\ staIp \in StaIps \cup {NoIp}
  /\ fdb \in [FdbSlots -> [ip: Ips, mac: Macs \cup {NoMac}, expires_s: Nat]]
  /\ xidMap \in [XidSlots -> [xid: Xids \cup {NoXid}, chaddr: Macs \cup {NoMac},
                             expires_s: Nat]]
  /\ now \in 0..MaxNow
  /\ seen \in [Ips -> Sighting] /\ asked \in [Xids -> Sighting]
  /\ \A t \in sent : t.link \in Netifs /\ t.src \in Macs /\ t.dst \in Macs
  /\ passed \in SUBSET Netifs

(* The self-IP guard (Bridging.md, "Self-IP guard"): whatever clients and    *)
(* DHCP servers claim, and whenever our own address changes, the forwarding  *)
(* database never says that an address of ours is behind a client.          *)
OwnAddressNeverLearned ==
  \A s \in FdbSlots : /\ fdb[s].ip # ApIp
                      /\ staIp # NoIp => fdb[s].ip # staIp

(* A lookup that hits returns the MAC the address was last seen with, and   *)
(* only while that observation is younger than FDB_TTL_S: an older mapping  *)
(* never survives in another slot, whatever was evicted or refreshed.       *)
LookupSound ==
  \A ip \in Ips : FdbKnows(ip) =>
    fdb_lookup(ip) = seen[ip].mac /\ seen[ip].at + FDB_TTL_S > now

(* "Sixteen entries, ten-minute TTL, replace the oldest on overflow": a      *)
(* client seen within the lifetime is found unless FDB_SIZE other addresses *)
(* were seen at least as late.  (Complete replacement, over any history.)   *)
SeenSince(ip) ==
  {o \in Ips \ {ip} : seen[o].mac # NoMac /\ seen[o].at >= seen[ip].at}
LookupComplete ==
  \A ip \in Ips :
    seen[ip].mac # NoMac /\ seen[ip].at + FDB_TTL_S > now
      => FdbKnows(ip) \/ Cardinality(SeenSince(ip)) >= FDB_SIZE

(* The 802.11 rule the bridge exists for: upstream never sees a client's     *)
(* MAC as transmitter, in an ARP sender field or as a DHCP hardware address. *)
ClientsHidden ==
  \A t \in sent : t.link = "sta" =>
    /\ t.src = StaMac
    /\ t.body.kind = "arp" => t.body.sha = StaMac
    /\ t.body.kind = "dhcp_request" => t.body.chaddr = StaMac

(* A DHCP reply is delivered to the client that used its transaction last,  *)
(* within XID_TTL_S, and carries that client's MAC again; a reply nobody    *)
(* asked for (any more) is never put into another client's hands.           *)
ReplyToAsker ==
  \A t \in sent : t.body.kind = "dhcp_reply" /\ t.dst # StaMac =>
    /\ t.body.xid \in Xids /\ t.dst = t.body.chaddr
    /\ t.dst = asked[t.body.xid].mac
    /\ asked[t.body.xid].at + XID_TTL_S > now

(* bridge.h: "Called once from user_main.c EVENT_STAMODE_GOT_IP"; what        *)
(* bridge_init saves are the SDK's functions.                               *)
OriginalsSaved == \A n \in Netifs : saved[n] # "hook"
=============================================================================
