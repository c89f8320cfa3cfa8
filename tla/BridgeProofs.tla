---------------------------- MODULE BridgeProofs ----------------------------
(***************************************************************************)
(* Theorems about Bridge, for every size of the tables, every lifetime and *)
(* every set of addresses.  The inductive invariant adds to the properties *)
(* that each address has at most one slot, and that a slot that holds an   *)
(* address holds its latest observation, expired or not.                   *)
(***************************************************************************)
EXTENDS Bridge, FiniteSetTheorems, TLAPS

USE DEF Netifs, FdbSlots, XidSlots, NoXid, NoMac

(* No address occupies two slots of the forwarding database. *)
OneSlotEach ==
  \A s, o \in FdbSlots : fdb[s].ip # NoIp /\ fdb[s].ip = fdb[o].ip => s = o

(* What a slot says of its address is what was last observed of it. *)
SlotsCurrent ==
  \A s \in FdbSlots : fdb[s].ip # NoIp =>
    /\ fdb[s].mac = seen[fdb[s].ip].mac
    /\ fdb[s].expires_s = seen[fdb[s].ip].at + FDB_TTL_S

(* A slot that can be hit holds a MAC address, and free slots are never hit. *)
LiveSlots ==
  /\ \A s \in FdbSlots :
       /\ fdb[s].ip = NoIp => fdb[s].expires_s = 0
       /\ fdb[s].ip # NoIp => fdb[s].mac \in Macs
  /\ \A s \in XidSlots :
       /\ xidMap[s].xid = NoXid => xidMap[s].expires_s = 0
       /\ xidMap[s].xid # NoXid => xidMap[s].chaddr \in Macs

(* The transaction map likewise. *)
XidsCurrent ==
  /\ \A s, o \in XidSlots :
       xidMap[s].xid # NoXid /\ xidMap[s].xid = xidMap[o].xid => s = o
  /\ \A s \in XidSlots : xidMap[s].xid # NoXid =>
       /\ xidMap[s].chaddr = asked[xidMap[s].xid].mac
       /\ xidMap[s].expires_s = asked[xidMap[s].xid].at + XID_TTL_S

IInv ==
  /\ TypeOK /\ OwnAddressNeverLearned
  /\ OneSlotEach /\ SlotsCurrent /\ XidsCurrent /\ LiveSlots
  /\ ClientsHidden /\ ReplyToAsker
-----------------------------------------------------------------------------
(* Scans look for the first slot with some property: there is one whenever  *)
(* any slot has it.                                                         *)
LEMMA FirstExists ==
  ASSUME NEW S, S \subseteq Nat, S # {}
  PROVE  \E s \in S : FirstOf(S, s)
<1> DEFINE R == {ss \in Nat \X Nat : ss[1] < ss[2]}
<1>1. IsWellFoundedOn(R, Nat)
  BY NatLessThanWellFounded DEF OpToRel
<1> HIDE DEF R
<1>2. PICK s \in S : \A o \in S : ~ (<<o, s>> \in R)
  BY <1>1, WFMin
<1>3. \A o \in S : ~ (o < s)
  BY <1>2 DEF R
<1> QED
  BY <1>3 DEF FirstOf

(* A hit returns the MAC of one of the live slots of the address. *)
LEMMA LookupHits ==
  ASSUME NEW ip, FdbKnows(ip)
  PROVE  \E s \in FdbHits(ip) : fdb_lookup(ip) = fdb[s].mac
<1>1. FdbHits(ip) \subseteq FdbSlots /\ FdbHits(ip) # {} /\ FdbHits(ip) \subseteq Nat
  BY DEF FdbKnows, FdbHits
<1>2. \E s \in FdbSlots : FirstOf(FdbHits(ip), s)
  BY <1>1, FirstExists
<1> DEFINE s == CHOOSE s \in FdbSlots : FirstOf(FdbHits(ip), s)
<1>3. FirstOf(FdbHits(ip), s)
  BY <1>2
<1>4. fdb_lookup(ip) = fdb[s].mac
  BY DEF fdb_lookup
<1> QED
  BY <1>3, <1>4 DEF FirstOf

LEMMA XidLookupHits ==
  ASSUME NEW xid, XidKnows(xid)
  PROVE  \E s \in XidHits(xid) : xid_map_lookup(xid) = xidMap[s].chaddr
<1>1. XidHits(xid) \subseteq XidSlots /\ XidHits(xid) # {} /\ XidHits(xid) \subseteq Nat
  BY DEF XidKnows, XidHits
<1>2. \E s \in XidSlots : FirstOf(XidHits(xid), s)
  BY <1>1, FirstExists
<1> DEFINE s == CHOOSE s \in XidSlots : FirstOf(XidHits(xid), s)
<1>3. FirstOf(XidHits(xid), s)
  BY <1>2
<1>4. xid_map_lookup(xid) = xidMap[s].chaddr
  BY DEF xid_map_lookup
<1> QED
  BY <1>3, <1>4 DEF FirstOf
-----------------------------------------------------------------------------
(* What the proofs need to know of the frames. *)
LEMMA ApFrameType ==
  ASSUME NEW f \in ApFrames
  PROVE  /\ f.src \in ClientMacs /\ f.dst \in Macs
         /\ SourceIp(f.body) \in Ips
         /\ f.body.kind = "arp" => f.body.sha \in ClientMacs
         /\ f.body.kind = "dhcp_request" => /\ f.body.xid \in Xids
                                           /\ f.body.chaddr \in ClientMacs
BY DEF ApFrames, ApBodies, SourceIps, SourceIp, Ips, Macs

LEMMA StaFrameType ==
  ASSUME NEW f \in StaFrames
  PROVE  /\ f.dst \in Macs
         /\ f.body.kind = "arp" => f.body.sha \in Macs
         /\ f.body.kind = "dhcp_reply" => /\ f.body.yiaddr \in Ips
                                         /\ f.body.chaddr \in Macs
BY DEF StaFrames, StaBodies, Ips, Macs

(* The parts of the invariant, as the handlers can disturb them.            *)
FdbPart ==
  /\ fdb \in [FdbSlots -> [ip: Ips, mac: Macs \cup {NoMac}, expires_s: Nat]]
  /\ seen \in [Ips -> Sighting]
  /\ OwnAddressNeverLearned /\ OneSlotEach /\ SlotsCurrent
  /\ \A s \in FdbSlots :
       /\ fdb[s].ip = NoIp => fdb[s].expires_s = 0
       /\ fdb[s].ip # NoIp => fdb[s].mac \in Macs
XidPart ==
  /\ xidMap \in [XidSlots -> [xid: Xids \cup {NoXid}, chaddr: Macs \cup {NoMac},
                             expires_s: Nat]]
  /\ asked \in [Xids -> Sighting]
  /\ \A s \in XidSlots :
       /\ xidMap[s].xid = NoXid => xidMap[s].expires_s = 0
       /\ xidMap[s].xid # NoXid => xidMap[s].chaddr \in Macs
  /\ XidsCurrent
WirePart ==
  /\ ClientsHidden /\ ReplyToAsker
  /\ \A t \in sent : t.link \in Netifs /\ t.src \in Macs /\ t.dst \in Macs
  /\ passed \in SUBSET Netifs
RestPart ==
  /\ hooked \in [Netifs -> BOOLEAN]
  /\ saved \in [Netifs -> {"none", "sdk", "hook"}]
  /\ staIp \in StaIps \cup {NoIp}
  /\ now \in 0..MaxNow

LEMMA Parts == IInv <=> FdbPart /\ XidPart /\ WirePart /\ RestPart
BY DEF IInv, TypeOK, LiveSlots, FdbPart, XidPart, WirePart, RestPart

LEMMA PartsNext == FdbPart' /\ XidPart' /\ WirePart' /\ RestPart' => IInv'
BY Parts, PTL

(* Under the invariant a lookup that hits returns a MAC address, *)
LEMMA LookupType ==
  ASSUME IInv, NEW ip, FdbKnows(ip)
  PROVE  fdb_lookup(ip) \in Macs
<1>1. PICK s \in FdbHits(ip) : fdb_lookup(ip) = fdb[s].mac
  BY LookupHits
<1>2. s \in FdbSlots /\ fdb[s].expires_s > now
  BY DEF FdbHits
<1>3. now \in Nat /\ FdbPart
  BY Parts, SizeAssumption DEF RestPart
<1>4. fdb[s].expires_s \in Nat
  BY <1>2, <1>3 DEF FdbPart
<1>5. ~ (fdb[s].expires_s = 0)
  BY <1>2, <1>3, <1>4
<1>6. fdb[s].ip # NoIp
  BY <1>2, <1>3, <1>5 DEF FdbPart
<1> QED
  BY <1>1, <1>2, <1>3, <1>6 DEF FdbPart

LEMMA XidLookupType ==
  ASSUME IInv, NEW xid, XidKnows(xid)
  PROVE  xid_map_lookup(xid) \in Macs
<1>1. PICK s \in XidHits(xid) : xid_map_lookup(xid) = xidMap[s].chaddr
  BY XidLookupHits
<1>2. s \in XidSlots /\ xidMap[s].expires_s > now
  BY DEF XidHits
<1>3. now \in Nat /\ XidPart
  BY Parts, SizeAssumption DEF RestPart
<1>4. xidMap[s].expires_s \in Nat
  BY <1>2, <1>3 DEF XidPart
<1>5. ~ (xidMap[s].expires_s = 0)
  BY <1>2, <1>3, <1>4
<1>6. xidMap[s].xid # NoXid
  BY <1>2, <1>3, <1>5 DEF XidPart
<1> QED
  BY <1>1, <1>2, <1>3, <1>6 DEF XidPart

(* and it is the MAC the address was last observed with, not too long ago.  *)
LEMMA InvariantMakesLookupSound == IInv => LookupSound
<1> SUFFICES ASSUME IInv, NEW ip \in Ips, FdbKnows(ip)
             PROVE  fdb_lookup(ip) = seen[ip].mac /\ seen[ip].at + FDB_TTL_S > now
  BY DEF LookupSound
<1>1. PICK s \in FdbHits(ip) : fdb_lookup(ip) = fdb[s].mac
  BY LookupHits
<1>2. s \in FdbSlots /\ fdb[s].ip = ip /\ fdb[s].expires_s > now
  BY DEF FdbHits
<1>3. now \in Nat /\ FdbPart
  BY Parts, SizeAssumption DEF RestPart
<1>4. fdb[s].expires_s \in Nat
  BY <1>2, <1>3 DEF FdbPart
<1>5. ~ (fdb[s].expires_s = 0)
  BY <1>2, <1>3, <1>4
<1>6. ip # NoIp
  BY <1>2, <1>3, <1>5 DEF FdbPart
<1> QED
  BY <1>1, <1>2, <1>3, <1>6 DEF FdbPart, SlotsCurrent
-----------------------------------------------------------------------------
(* Learning an address keeps the database in order: the slot it goes to is  *)
(* the one that holds it already, if there is one.                          *)
LEMMA InsertKeepsFdb ==
  ASSUME FdbPart, RestPart, NEW ip \in Ips, NEW mac \in Macs, fdb_insert(ip, mac),
         staIp' = staIp
  PROVE  FdbPart'
<1>1. CASE Unlearnable(ip)
  BY <1>1 DEF fdb_insert, FdbPart, OwnAddressNeverLearned, OneSlotEach, SlotsCurrent
<1>2. CASE ~Unlearnable(ip)
  <2>1. PICK s \in FdbSlots :
          /\ FdbTarget(s, ip)
          /\ fdb' = [fdb EXCEPT ![s] = [ip |-> ip, mac |-> mac,
                                        expires_s |-> now + FDB_TTL_S]]
    BY <1>2 DEF fdb_insert
  <2>2. seen' = [seen EXCEPT ![ip] = [mac |-> mac, at |-> now]]
    BY <1>2 DEF fdb_insert
  <2>3. now + FDB_TTL_S \in Nat /\ now + FDB_TTL_S > 0 /\ now \in 0..MaxNow
    BY SizeAssumption DEF RestPart
  <2>4. \A o \in FdbSlots \ {s} : fdb[o].ip # ip
    <3>1. CASE \E o \in FdbSlots : fdb[o].ip = ip
      <4>1. fdb[s].ip = ip
        BY <2>1, <3>1 DEF FdbTarget, FirstOf
      <4> QED
        BY <4>1, <1>2 DEF FdbPart, OneSlotEach, Unlearnable
    <3>2. CASE ~\E o \in FdbSlots : fdb[o].ip = ip
      BY <3>2
    <3> QED
      BY <3>1, <3>2
  <2>5. /\ fdb' \in [FdbSlots -> [ip: Ips, mac: Macs \cup {NoMac}, expires_s: Nat]]
        /\ seen' \in [Ips -> Sighting]
    BY <2>1, <2>2, <2>3 DEF FdbPart, Sighting
  <2>6. /\ fdb'[s].ip = ip /\ fdb'[s].mac = mac /\ fdb'[s].expires_s = now + FDB_TTL_S
        /\ \A o \in FdbSlots \ {s} : fdb'[o] = fdb[o]
    BY <2>1 DEF FdbPart
  <2>7. OwnAddressNeverLearned'
    BY <2>6, <1>2 DEF OwnAddressNeverLearned, Unlearnable, FdbPart
  <2>8. OneSlotEach'
    BY <2>4, <2>6 DEF OneSlotEach, FdbPart
  <2>9. SlotsCurrent'
    <3> SUFFICES ASSUME NEW o \in FdbSlots, fdb'[o].ip # NoIp
                 PROVE  /\ fdb'[o].mac = seen'[fdb'[o].ip].mac
                        /\ fdb'[o].expires_s = seen'[fdb'[o].ip].at + FDB_TTL_S
      BY DEF SlotsCurrent
    <3>1. CASE o = s
      BY <3>1, <2>6, <2>2 DEF FdbPart
    <3>2. CASE o # s
      <4>1. fdb'[o] = fdb[o] /\ fdb[o].ip # ip /\ fdb[o].ip \in Ips
        BY <3>2, <2>4, <2>6 DEF FdbPart
      <4>2. seen'[fdb[o].ip] = seen[fdb[o].ip]
        BY <4>1, <2>2 DEF FdbPart
      <4> QED
        BY <4>1, <4>2 DEF FdbPart, SlotsCurrent
    <3> QED
      BY <3>1, <3>2
  <2>10. \A o \in FdbSlots : /\ fdb'[o].ip = NoIp => fdb'[o].expires_s = 0
                             /\ fdb'[o].ip # NoIp => fdb'[o].mac \in Macs
    BY <2>6, <1>2 DEF FdbPart, Unlearnable
  <2> QED
    BY <2>5, <2>7, <2>8, <2>9, <2>10 DEF FdbPart
<1> QED
  BY <1>1, <1>2

(* Remembering a transaction keeps the transaction map in order. *)
LEMMA InsertKeepsXid ==
  ASSUME XidPart, RestPart, NEW xid \in Xids, NEW mac \in Macs,
         xid_map_insert(xid, mac)
  PROVE  XidPart'
<1>1. PICK s \in XidSlots :
        /\ XidTarget(s, xid)
        /\ xidMap' = [xidMap EXCEPT ![s] = [xid |-> xid, chaddr |-> mac,
                                            expires_s |-> now + XID_TTL_S]]
  BY DEF xid_map_insert
<1>2. asked' = [asked EXCEPT ![xid] = [mac |-> mac, at |-> now]]
  BY DEF xid_map_insert
<1>3. now + XID_TTL_S \in Nat /\ now \in 0..MaxNow
  BY SizeAssumption DEF RestPart
<1>4. xid # NoXid
  BY AddressAssumption
<1>5. \A o \in XidSlots \ {s} : xidMap[o].xid # xid
  <2>1. CASE \E o \in XidSlots : xidMap[o].xid = xid
    <3>1. xidMap[s].xid = xid
      BY <1>1, <2>1 DEF XidTarget, FirstOf
    <3> QED
      BY <3>1, <1>4 DEF XidPart, XidsCurrent
  <2>2. CASE ~\E o \in XidSlots : xidMap[o].xid = xid
    BY <2>2
  <2> QED
    BY <2>1, <2>2
<1>6. /\ xidMap'[s].xid = xid /\ xidMap'[s].chaddr = mac
      /\ xidMap'[s].expires_s = now + XID_TTL_S
      /\ \A o \in XidSlots \ {s} : xidMap'[o] = xidMap[o]
  BY <1>1 DEF XidPart
<1>7. /\ xidMap' \in [XidSlots -> [xid: Xids \cup {NoXid},
                                  chaddr: Macs \cup {NoMac}, expires_s: Nat]]
      /\ asked' \in [Xids -> Sighting]
  BY <1>1, <1>2, <1>3 DEF XidPart, Sighting
<1>8. \A o \in XidSlots :
       /\ xidMap'[o].xid = NoXid => xidMap'[o].expires_s = 0
       /\ xidMap'[o].xid # NoXid => xidMap'[o].chaddr \in Macs
  BY <1>6, <1>4 DEF XidPart
<1>9. \A t, o \in XidSlots :
        xidMap'[t].xid # NoXid /\ xidMap'[t].xid = xidMap'[o].xid => t = o
  BY <1>5, <1>6 DEF XidPart, XidsCurrent
<1>10. ASSUME NEW o \in XidSlots, xidMap'[o].xid # NoXid
       PROVE  /\ xidMap'[o].chaddr = asked'[xidMap'[o].xid].mac
              /\ xidMap'[o].expires_s = asked'[xidMap'[o].xid].at + XID_TTL_S
  <2>1. CASE o = s
    BY <2>1, <1>6, <1>2 DEF XidPart
  <2>2. CASE o # s
    <3>1. xidMap'[o] = xidMap[o] /\ xidMap[o].xid # xid
      BY <2>2, <1>5, <1>6
    <3>2. xidMap[o].xid \in Xids
      BY <3>1, <1>10 DEF XidPart
    <3>3. asked'[xidMap[o].xid] = asked[xidMap[o].xid]
      BY <3>1, <3>2, <1>2 DEF XidPart
    <3> QED
      BY <3>1, <3>3, <1>10 DEF XidPart, XidsCurrent
  <2> QED
    BY <2>1, <2>2
<1> QED
  BY <1>7, <1>8, <1>9, <1>10 DEF XidPart, XidsCurrent
-----------------------------------------------------------------------------
(* What a client's frame turns into hides the client from the upstream       *)
(* network, and is never a DHCP reply.                                      *)
LEMMA UpstreamBody ==
  ASSUME NEW f \in ApFrames
  PROVE  /\ ToUpstream(f.body).kind = f.body.kind
         /\ f.body.kind # "dhcp_reply"
         /\ f.body.kind = "arp" => ToUpstream(f.body).sha = StaMac
         /\ f.body.kind = "dhcp_request" => ToUpstream(f.body).chaddr = StaMac
<1>1. PICK m \in ClientMacs : f.body \in ApBodies(m)
  BY DEF ApFrames
<1>2. f.body.kind \in {"arp", "ip", "mdns", "dhcp_request", "other", "runt"}
  BY <1>1 DEF ApBodies
<1>3. CASE f.body.kind = "arp"
  BY <1>3 DEF ToUpstream, Arp
<1>4. CASE f.body.kind = "dhcp_request"
  <2>1. f.body \in [kind: {"dhcp_request"}, src: {NoIp}, msg: {"select", "release"},
                    xid: Xids, chaddr: {m}]
    BY <1>1, <1>4 DEF ApBodies
  <2> QED
    BY <2>1, <1>4 DEF ToUpstream
<1>5. CASE f.body.kind \in {"ip", "mdns", "other", "runt"}
  BY <1>5 DEF ToUpstream
<1> QED
  BY <1>2, <1>3, <1>4, <1>5

LEMMA ApSentFacts ==
  ASSUME NEW f \in ApFrames, NEW alloc \in BOOLEAN, NEW t \in ApSent(f, alloc)
  PROVE  /\ t.link \in Netifs /\ t.src \in Macs /\ t.dst \in Macs
         /\ t.body.kind # "dhcp_reply"
         /\ t.link = "sta" =>
              /\ t.src = StaMac
              /\ t.body.kind = "arp" => t.body.sha = StaMac
              /\ t.body.kind = "dhcp_request" => t.body.chaddr = StaMac
<1> DEFINE forwarded == Frame("sta", StaMac, f.dst, ToUpstream(f.body))
<1>1. {StaMac, ApMac} \subseteq Macs /\ ClientMacs \subseteq Macs
  BY DEF Macs
<1>2. CASE t = forwarded
  BY <1>2, <1>1, ApFrameType, UpstreamBody DEF Frame
<1>3. CASE AsksForUs(f.body) /\ t = ProxyReply("ap", ApMac, f.body, staIp)
  BY <1>3, <1>1, ApFrameType DEF ProxyReply, Frame, Arp, AsksForUs
<1>4. CASE t = send_mdns_a_reply(f)
  BY <1>4, <1>1, ApFrameType DEF send_mdns_a_reply, Frame
<1> QED
  BY <1>2, <1>3, <1>4 DEF ApSent, Answer

(* A frame from a client. *)
LEMMA InputApStep ==
  ASSUME IInv, NEW f \in ApFrames, bridge_input_ap(f)
  PROVE  IInv'
<1>1. FdbPart /\ XidPart /\ WirePart /\ RestPart
  BY Parts
<1>2. /\ fdb_insert(SourceIp(f.body), f.src)
      /\ staIp' = staIp /\ hooked' = hooked /\ saved' = saved /\ now' = now
  BY DEF bridge_input_ap, wiring
<1>3. FdbPart'
  BY <1>1, <1>2, ApFrameType, InsertKeepsFdb DEF Macs
<1>4. RestPart'
  BY <1>1, <1>2 DEF RestPart
<1>5. XidPart'
  <2>1. CASE UNCHANGED <<xidMap, asked>>
    BY <1>1, <2>1 DEF XidPart, XidsCurrent
  <2>2. CASE f.body.kind = "dhcp_request" /\ xid_map_insert(f.body.xid, f.body.chaddr)
    BY <1>1, <2>2, ApFrameType, InsertKeepsXid DEF Macs
  <2> QED
    BY <2>1, <2>2 DEF bridge_input_ap, snoop_dhcp_request
<1>6. WirePart'
  <2>1. passed' \in SUBSET Netifs
    BY DEF bridge_input_ap, Deliver
  <2>2. CASE sent' = {}
    BY <2>1, <2>2 DEF WirePart, ClientsHidden, ReplyToAsker
  <2>3. CASE \E alloc \in BOOLEAN : sent' = ApSent(f, alloc)
    BY <2>1, <2>3, ApSentFacts DEF WirePart, ClientsHidden, ReplyToAsker
  <2> QED
    BY <2>2, <2>3 DEF bridge_input_ap
<1> QED
  BY <1>3, <1>4, <1>5, <1>6, PartsNext
-----------------------------------------------------------------------------
(* A reply goes to the client that used its transaction last: the slot that  *)
(* is hit says who that was, and when.                                      *)
LEMMA ReplyChaddrIsAsker ==
  ASSUME IInv, NEW f \in StaFrames, f.body.kind = "dhcp_reply"
  PROVE  /\ ReplyChaddr(f.body) \in Macs
         /\ ReplyChaddr(f.body) # StaMac =>
              /\ f.body.xid \in Xids
              /\ ReplyChaddr(f.body) = asked[f.body.xid].mac
              /\ asked[f.body.xid].at + XID_TTL_S > now
<1>1. f.body.chaddr = StaMac /\ f.body.xid \in Xids \cup {NoXid}
  BY DEF StaFrames, StaBodies
<1>2. CASE ~XidKnows(f.body.xid)
  BY <1>1, <1>2 DEF ReplyChaddr, Macs
<1>3. CASE XidKnows(f.body.xid)
  <2>1. PICK s \in XidHits(f.body.xid) :
          xid_map_lookup(f.body.xid) = xidMap[s].chaddr
    BY <1>3, XidLookupHits
  <2>2. s \in XidSlots /\ xidMap[s].xid = f.body.xid /\ xidMap[s].expires_s > now
    BY DEF XidHits
  <2>3. now \in Nat /\ XidPart
    BY Parts, SizeAssumption DEF RestPart
  <2>4. xidMap[s].expires_s \in Nat
    BY <2>2, <2>3 DEF XidPart
  <2>5. ~ (xidMap[s].expires_s = 0)
    BY <2>2, <2>3, <2>4
  <2>6. xidMap[s].xid # NoXid
    BY <2>2, <2>3, <2>5 DEF XidPart
  <2>7. /\ xidMap[s].chaddr = asked[f.body.xid].mac
        /\ xidMap[s].expires_s = asked[f.body.xid].at + XID_TTL_S
    BY <2>2, <2>3, <2>6 DEF XidPart, XidsCurrent
  <2>8. ReplyChaddr(f.body) = asked[f.body.xid].mac /\ ReplyChaddr(f.body) \in Macs
    BY <1>3, <2>1, <2>7, XidLookupType DEF ReplyChaddr
  <2>9. asked[f.body.xid].at + XID_TTL_S > now
    BY <2>2, <2>7
  <2> QED
    BY <1>1, <2>2, <2>6, <2>8, <2>9
<1> QED
  BY <1>2, <1>3

(* What is sent downstream is well typed, and addressed to the asker where   *)
(* it is a DHCP reply.                                                      *)
LEMMA ClientOfType ==
  ASSUME IInv, NEW f \in StaFrames
  PROVE  ClientOf(f) \in Macs \cup {NoMac}
<1>1. CASE f.body.kind = "dhcp_reply"
  BY <1>1, ReplyChaddrIsAsker DEF ClientOf
<1>2. CASE f.body.kind # "dhcp_reply"
  BY <1>2, LookupType DEF ClientOf
<1> QED
  BY <1>1, <1>2

LEMMA DownstreamFacts ==
  ASSUME IInv, NEW f \in StaFrames, f.body.kind \in {"arp", "ip", "dhcp_reply"}
  PROVE  /\ Downstream(f).link = "ap" /\ Downstream(f).src \in Macs
         /\ Downstream(f).dst \in Macs
         /\ Downstream(f).body.kind = "dhcp_reply" /\ Downstream(f).dst # StaMac =>
              /\ Downstream(f).body.xid \in Xids
              /\ Downstream(f).dst = Downstream(f).body.chaddr
              /\ Downstream(f).dst = asked[Downstream(f).body.xid].mac
              /\ asked[Downstream(f).body.xid].at + XID_TTL_S > now
<1>1. Downstream(f).link = "ap" /\ Downstream(f).src = ApMac /\ ApMac \in Macs
  BY DEF Downstream, Frame, Macs
<1>2. Downstream(f).dst = IF ClientOf(f) = NoMac THEN f.dst ELSE ClientOf(f)
  BY DEF Downstream, Frame
<1>3. Downstream(f).dst \in Macs
  BY <1>2, ClientOfType, StaFrameType
<1>4. CASE f.body.kind = "dhcp_reply"
  <2>1. f.body \in [kind: {"dhcp_reply"}, msg: {"offer", "ack"},
                    xid: Xids \cup {NoXid}, chaddr: {StaMac},
                    yiaddr: HostIps \cup StaIps]
    BY <1>4 DEF StaFrames, StaBodies
  <2>2. Downstream(f).body = [f.body EXCEPT !.chaddr = ReplyChaddr(f.body)]
    BY <1>4 DEF Downstream, Frame
  <2>3. /\ Downstream(f).body.xid = f.body.xid
        /\ Downstream(f).body.chaddr = ReplyChaddr(f.body)
    BY <2>1, <2>2
  <2>4. ClientOf(f) = ReplyChaddr(f.body) /\ ReplyChaddr(f.body) # NoMac
    BY <1>4, ReplyChaddrIsAsker, AddressAssumption DEF ClientOf
  <2> QED
    BY <1>1, <1>2, <1>3, <1>4, <2>3, <2>4, ReplyChaddrIsAsker
<1>5. CASE f.body.kind = "arp"
  BY <1>1, <1>3, <1>5 DEF Downstream, Frame, Arp
<1>6. CASE f.body.kind = "ip"
  BY <1>1, <1>3, <1>6 DEF Downstream, Frame
<1> QED
  BY <1>4, <1>5, <1>6

(* A frame from the upstream network. *)
LEMMA InputStaStep ==
  ASSUME IInv, NEW f \in StaFrames, bridge_input_sta(f)
  PROVE  IInv'
<1>1. FdbPart /\ XidPart /\ WirePart /\ RestPart
  BY Parts
<1>2. /\ snoop_dhcp_reply(f.body)
      /\ UNCHANGED <<hooked, saved, staIp, xidMap, asked, now>>
  BY DEF bridge_input_sta, wiring
<1>3. FdbPart'
  <2>1. CASE UNCHANGED <<fdb, seen>>
    BY <1>1, <1>2, <2>1
       DEF FdbPart, OwnAddressNeverLearned, OneSlotEach, SlotsCurrent
  <2>2. CASE f.body.kind = "dhcp_reply" /\ fdb_insert(f.body.yiaddr, ReplyChaddr(f.body))
    BY <1>1, <1>2, <2>2, StaFrameType, ReplyChaddrIsAsker, InsertKeepsFdb
  <2> QED
    BY <1>2, <2>1, <2>2 DEF snoop_dhcp_reply
<1>4. XidPart' /\ RestPart'
  BY <1>1, <1>2 DEF XidPart, XidsCurrent, RestPart
<1>5. WirePart'
  <2>1. passed' \in SUBSET Netifs
    BY DEF bridge_input_sta, Deliver
  <2>2. CASE sent' = {}
    BY <2>1, <2>2 DEF WirePart, ClientsHidden, ReplyToAsker
  <2>3. CASE /\ f.body.kind = "arp"
             /\ sent' = {ProxyReply("sta", StaMac, f.body, f.body.tpa)}
    <3>1. f.body.sha \in Macs /\ StaMac \in Macs
      BY <2>3, StaFrameType DEF Macs
    <3> QED
      BY <2>1, <2>3, <3>1
         DEF WirePart, ClientsHidden, ReplyToAsker, ProxyReply, Frame, Arp
  <2>4. CASE f.body.kind \in {"arp", "ip", "dhcp_reply"} /\ sent' = {Downstream(f)}
    BY <1>2, <2>1, <2>4, DownstreamFacts DEF WirePart, ClientsHidden, ReplyToAsker
  <2> QED
    BY <2>2, <2>3, <2>4 DEF bridge_input_sta, AsksForClient, Answer
<1> QED
  BY <1>3, <1>4, <1>5, PartsNext
-----------------------------------------------------------------------------
(* The actions that leave the tables and the addresses alone. *)
LEMMA TablesAloneStep ==
  ASSUME IInv, UNCHANGED <<wiring, tables>>, now' \in 0..MaxNow,
         passed' \in SUBSET Netifs,
         \A t \in sent' : /\ t.link = "ap" /\ t.src \in Macs /\ t.dst \in Macs
                          /\ t.body.kind = "ip"
  PROVE  IInv'
<1>1. FdbPart /\ XidPart /\ RestPart
  BY Parts
<1>2. FdbPart'
  BY <1>1 DEF FdbPart, OwnAddressNeverLearned, OneSlotEach, SlotsCurrent,
              wiring, tables
<1>3. XidPart' /\ RestPart'
  BY <1>1 DEF XidPart, XidsCurrent, RestPart, wiring, tables
<1>4. WirePart'
  BY DEF WirePart, ClientsHidden, ReplyToAsker
<1> QED
  BY <1>2, <1>3, <1>4, PartsNext

LEMMA OutputStep ==
  ASSUME IInv, NEW ip, NEW headroom \in BOOLEAN,
         bridge_output_sta(ip, headroom) \/ bridge_output_ap(ip, headroom)
  PROVE  IInv'
<1>1. UNCHANGED <<wiring, tables>> /\ now' = now
  BY DEF bridge_output_sta, bridge_output_ap
<1>2. now' \in 0..MaxNow
  BY <1>1 DEF IInv, TypeOK
<1>3. passed' \in SUBSET Netifs
  BY DEF bridge_output_sta, bridge_output_ap, Deliver
<1>4. FdbKnows(ip) => fdb_lookup(ip) \in Macs
  BY LookupType
<1>5. \A t \in sent' : /\ t.link = "ap" /\ t.src \in Macs /\ t.dst \in Macs
                       /\ t.body.kind = "ip"
  <2>1. sent' = {} \/ \E dst \in Macs : sent' = {Frame("ap", ApMac, dst, IpTo(ip))}
    BY <1>4 DEF bridge_output_sta, bridge_output_ap, Macs
  <2> QED
    BY <2>1 DEF Frame, IpTo, Macs
<1> QED
  BY <1>1, <1>2, <1>3, <1>5, TablesAloneStep

(* Fresh tables are in order, whatever our address is. *)
Fresh ==
  /\ fdb = EmptyFdb /\ xidMap = EmptyXid /\ seen = NeverSeen /\ asked = NeverAsked
  /\ staIp \in StaIps \cup {NoIp}

LEMMA FreshTables == Fresh => FdbPart /\ XidPart
<1> SUFFICES ASSUME Fresh PROVE FdbPart /\ XidPart
  OBVIOUS
<1>1. 0 \in 0..MaxNow
  BY SizeAssumption
<1>2. NoIp \in Ips /\ NoIp # ApIp /\ NoIp \notin StaIps
  BY AddressAssumption DEF Ips
<1>3. seen \in [Ips -> Sighting] /\ asked \in [Xids -> Sighting]
  BY <1>1 DEF Fresh, NeverSeen, NeverAsked, Sighting
<1>4. fdb \in [FdbSlots -> [ip: Ips, mac: Macs \cup {NoMac}, expires_s: Nat]]
  BY <1>2 DEF Fresh, EmptyFdb
<1>5. \A s \in FdbSlots : fdb[s].ip = NoIp /\ fdb[s].expires_s = 0
  BY DEF Fresh, EmptyFdb
<1>6. xidMap \in [XidSlots -> [xid: Xids \cup {NoXid}, chaddr: Macs \cup {NoMac},
                              expires_s: Nat]]
  BY DEF Fresh, EmptyXid
<1>7. \A s \in XidSlots : xidMap[s].xid = NoXid /\ xidMap[s].expires_s = 0
  BY DEF Fresh, EmptyXid
<1>8. FdbPart
  <2>1. OwnAddressNeverLearned
    BY <1>2, <1>5 DEF OwnAddressNeverLearned
  <2>2. OneSlotEach /\ SlotsCurrent
    BY <1>5 DEF OneSlotEach, SlotsCurrent
  <2> QED
    BY <1>3, <1>4, <1>5, <2>1, <2>2 DEF FdbPart
<1>9. XidPart
  BY <1>3, <1>6, <1>7 DEF XidPart, XidsCurrent
<1> QED
  BY <1>8, <1>9

LEMMA FreshTablesNext == Fresh' => FdbPart' /\ XidPart'
BY FreshTables, PTL

LEMMA QuietWire ==
  ASSUME sent' = {}, passed' = {}
  PROVE  WirePart'
BY DEF WirePart, ClientsHidden, ReplyToAsker

LEMMA RestartStep ==
  ASSUME Restart
  PROVE  IInv'
<1>1. RestPart'
  BY SizeAssumption DEF Restart, Boot, RestPart
<1>2. FdbPart' /\ XidPart'
  BY FreshTablesNext DEF Fresh, Restart, Boot
<1>3. WirePart'
  BY QuietWire DEF Restart, Silent
<1> QED
  BY <1>1, <1>2, <1>3, PartsNext

LEMMA InvInit == Init => IInv
<1> SUFFICES ASSUME Init PROVE IInv
  OBVIOUS
<1>1. RestPart
  BY SizeAssumption DEF Init, Boot, RestPart
<1>2. FdbPart /\ XidPart
  BY FreshTables DEF Fresh, Init, Boot
<1>3. WirePart
  BY DEF Init, WirePart, ClientsHidden, ReplyToAsker
<1> QED
  BY <1>1, <1>2, <1>3, Parts

LEMMA InvStep ==
  ASSUME IInv, [Next]_vars
  PROVE  IInv'
<1>1. ASSUME NEW f \in ApFrames, bridge_input_ap(f)
      PROVE  IInv'
  BY <1>1, InputApStep
<1>2. ASSUME NEW f \in StaFrames, bridge_input_sta(f)
      PROVE  IInv'
  BY <1>2, InputStaStep
<1>3. ASSUME NEW n \in Netifs, PassThrough(n)
      PROVE  IInv'
  <2>1. UNCHANGED <<wiring, tables>> /\ now' = now /\ sent' = {} /\ passed' = {n}
    BY <1>3 DEF PassThrough, Deliver
  <2>2. now' \in 0..MaxNow
    BY <2>1 DEF IInv, TypeOK
  <2> QED
    BY <2>1, <2>2, TablesAloneStep
<1>4. ASSUME NEW n \in Netifs, Overflow(n)
      PROVE  IInv'
  BY <1>4, RestartStep DEF Overflow
<1>5. ASSUME NEW ip, NEW headroom \in BOOLEAN,
             bridge_output_sta(ip, headroom) \/ bridge_output_ap(ip, headroom)
      PROVE  IInv'
  BY <1>5, OutputStep
<1>6. ASSUME NEW ip \in StaIps, NEW fresh, bridge_init(ip, fresh)
      PROVE  IInv'
  <2>1. FdbPart' /\ XidPart'
    BY <1>6, FreshTablesNext DEF Fresh, bridge_init
  <2>2. WirePart'
    BY <1>6, QuietWire DEF bridge_init, Silent
  <2>3. RestPart'
    BY <1>6 DEF bridge_init, RestPart, IInv, TypeOK
  <2> QED
    BY <2>1, <2>2, <2>3, PartsNext
<1>7. CASE StaDisconnected
  <2>1. FdbPart /\ XidPart /\ RestPart
    BY Parts
  <2>2. /\ staIp' = NoIp
        /\ UNCHANGED <<hooked, saved, fdb, xidMap, seen, asked, now>>
    BY <1>7 DEF StaDisconnected, tables
  <2>3. FdbPart'
    BY <2>1, <2>2 DEF FdbPart, OwnAddressNeverLearned, OneSlotEach, SlotsCurrent
  <2>4. XidPart' /\ RestPart'
    BY <2>1, <2>2 DEF XidPart, XidsCurrent, RestPart
  <2>5. WirePart'
    BY <1>7, QuietWire DEF StaDisconnected, Silent
  <2> QED
    BY <2>3, <2>4, <2>5, PartsNext
<1>8. CASE Tick
  <2>1. UNCHANGED <<wiring, tables>> /\ sent' = {} /\ passed' = {}
    BY <1>8 DEF Tick, Silent
  <2>2. now' \in 0..MaxNow
    <3>1. now \in 0..MaxNow /\ now < MaxNow /\ now' = now + 1 /\ MaxNow \in Nat
      BY <1>8, SizeAssumption DEF Tick, IInv, TypeOK
    <3> QED
      BY <3>1
  <2> QED
    BY <2>1, <2>2, TablesAloneStep
<1>9. CASE Reboot
  BY <1>9, RestartStep DEF Reboot
<1>10. CASE UNCHANGED vars
  <2>1. FdbPart /\ XidPart /\ WirePart /\ RestPart
    BY Parts
  <2>2. UNCHANGED <<wiring, tables, now, sent, passed>>
    BY <1>10 DEF vars
  <2>3. FdbPart'
    BY <2>1, <2>2 DEF FdbPart, OwnAddressNeverLearned, OneSlotEach, SlotsCurrent,
                      wiring, tables
  <2>4. XidPart' /\ RestPart' /\ WirePart'
    BY <2>1, <2>2 DEF XidPart, XidsCurrent, RestPart, WirePart, ClientsHidden,
                      ReplyToAsker, wiring, tables
  <2> QED
    BY <2>3, <2>4, PartsNext
<1> QED
  BY <1>1, <1>2, <1>3, <1>4, <1>5, <1>6, <1>7, <1>8, <1>9, <1>10 DEF Next
-----------------------------------------------------------------------------
(* The invariant holds of every behaviour of the bridge, *)
THEOREM InvariantHolds == Spec => []IInv
BY InvInit, InvStep, PTL DEF Spec

(* and with it: the variables stay within their types; *)
THEOREM TypeCorrect == Spec => []TypeOK
BY InvariantHolds, PTL DEF IInv

(* whatever clients and DHCP servers claim (user/bridge.c, fdb_insert), the  *)
(* database never places an address of ours behind a client;                *)
THEOREM SelfIpGuard == Spec => []OwnAddressNeverLearned
BY InvariantHolds, PTL DEF IInv

(* a lookup in the database returns the latest observation of an address,   *)
(* never an older one nor an expired one (fdb_lookup);                      *)
THEOREM DatabaseSound == Spec => []LookupSound
BY InvariantHolds, InvariantMakesLookupSound, PTL

(* nothing that leaves the station radio shows the MAC of a client to the   *)
(* upstream network (bridge_input_ap, snoop_dhcp_request, proxy ARP);       *)
THEOREM OneMacUpstream == Spec => []ClientsHidden
BY InvariantHolds, PTL DEF IInv

(* a DHCP reply is handed to the client that used its transaction last,     *)
(* and no later than XID_TTL_S after it did (snoop_dhcp_reply).             *)
THEOREM RepliesReachTheAsker == Spec => []ReplyToAsker
BY InvariantHolds, PTL DEF IInv
-----------------------------------------------------------------------------
(* Why a live address is found: what a slot was taken from by eviction had   *)
(* been seen before everything else that is in the database, and what was   *)
(* inserted then, so that FDB_SIZE other addresses were seen since.         *)

(* The addresses other than ip of which the history sn has something as late.*)
Since(sn, ip) == {o \in Ips \ {ip} : sn[o].mac # NoMac /\ sn[o].at >= sn[ip].at}

(* What was seen was seen by now; nothing is ever learnt of 0.0.0.0. *)
SeenPast ==
  /\ \A ip \in Ips : seen[ip].at <= now
  /\ seen[NoIp].mac = NoMac

Live(ip) == seen[ip].mac # NoMac /\ seen[ip].at + FDB_TTL_S > now
Remembered ==
  \A ip \in Ips : Live(ip) =>
    \/ \E s \in FdbSlots : fdb[s].ip = ip
    \/ Cardinality(Since(seen, ip)) >= FDB_SIZE

CInv == SeenPast /\ Remembered

LEMMA PastIsNumber == \A t \in 0 .. MaxNow : t \in Nat
<1>1. MaxNow \in Nat
  BY SizeAssumption
<1>2. QED
  BY <1>1

LEMMA SeenTyped ==
  ASSUME FdbPart
  PROVE  \A ip \in Ips : seen[ip].at \in Nat
<1>1. \A ip \in Ips : seen[ip].at \in 0 .. MaxNow
  BY DEF FdbPart, Sighting
<1>2. QED
  BY <1>1, PastIsNumber

LEMMA IpsFinite == IsFiniteSet(Ips)
<1>1. IsFiniteSet({NoIp, ApIp})
  <2>1. IsFiniteSet({NoIp}) /\ IsFiniteSet({ApIp})
    BY FS_Singleton
  <2>2. {NoIp, ApIp} = {NoIp} \cup {ApIp}
    OBVIOUS
  <2>3. QED
    BY <2>1, <2>2, FS_Union
<1>2. IsFiniteSet(HostIps \cup StaIps)
  BY AddressAssumption, FS_Union
<1>3. QED
  BY <1>1, <1>2, FS_Union DEF Ips

LEMMA SinceFinite ==
  ASSUME NEW sn, NEW ip
  PROVE  IsFiniteSet(Since(sn, ip)) /\ Cardinality(Since(sn, ip)) \in Nat
<1>1. Since(sn, ip) \in SUBSET Ips
  BY DEF Since
<1>2. IsFiniteSet(Since(sn, ip))
  BY <1>1, IpsFinite, FS_Subset
<1>3. QED
  BY <1>2, FS_CardinalityType

(* What was counted stays counted when another address is seen anew. *)
LEMMA SinceGrows ==
  ASSUME FdbPart, SeenPast, now \in Nat, NEW ip \in Ips, NEW mac \in Macs,
         NEW j \in Ips, j # ip,
         seen' = [seen EXCEPT ![ip] = [mac |-> mac, at |-> now]]
  PROVE  Cardinality(Since(seen, j)) <= Cardinality(Since(seen', j))
<1>1. seen \in [Ips -> Sighting] /\ mac # NoMac
  BY AddressAssumption DEF FdbPart
<1>2. /\ seen'[ip].mac = mac /\ seen'[ip].at = now
      /\ \A o \in Ips : o # ip => seen'[o] = seen[o]
  BY <1>1
<1>3. seen[j].at <= now
  BY DEF SeenPast
<1>4. seen[j].at \in Nat
  BY SeenTyped
<1>5. Since(seen, j) \subseteq Since(seen', j)
  <2> SUFFICES ASSUME NEW o \in Since(seen, j) PROVE o \in Since(seen', j)
    OBVIOUS
  <2>1. o \in Ips \ {j} /\ seen[o].mac # NoMac /\ seen[o].at >= seen[j].at
    BY DEF Since
  <2>2. seen'[o].mac # NoMac /\ seen'[o].at >= seen'[j].at
    <3>1. CASE o = ip
      BY <1>1, <1>2, <1>3, <1>4, <3>1
    <3>2. CASE o # ip
      BY <1>2, <2>1, <3>2
    <3>3. QED
      BY <3>1, <3>2
  <2>3. QED
    BY <2>1, <2>2 DEF Since
<1>6. QED
  BY <1>5, SinceFinite, FS_Subset

(* An eviction: every slot holds a live address, none of them ip, and what   *)
(* is in s expires first.                                                   *)
LEMMA EvictedIsOldest ==
  ASSUME IInv, SeenPast, NEW ip \in Ips, NEW mac \in Macs, NEW s \in FdbSlots,
         NEW j \in Ips, fdb[s].ip = j, j # ip,
         \A o \in FdbSlots : fdb[o].ip # ip, FdbFree = {}, FdbOldest(s),
         seen' = [seen EXCEPT ![ip] = [mac |-> mac, at |-> now]]
  PROVE  Cardinality(Since(seen', j)) >= FDB_SIZE
<1> DEFINE f == [o \in FdbSlots |-> IF o = s THEN ip ELSE fdb[o].ip]
           T == Since(seen', j)
<1>1. FdbPart /\ now \in Nat /\ FDB_SIZE \in Nat
  BY Parts, SizeAssumption DEF RestPart
<1>2. /\ fdb \in [FdbSlots -> [ip: Ips, mac: Macs \cup {NoMac}, expires_s: Nat]]
      /\ seen \in [Ips -> Sighting] /\ NoMac \notin Macs
  BY <1>1, AddressAssumption DEF FdbPart
<1>3. \A o \in FdbSlots : /\ fdb[o].ip \in Ips /\ fdb[o].ip # NoIp
                          /\ fdb[s].expires_s <= fdb[o].expires_s
  <2>1. \A o \in FdbSlots : fdb[o].ip # NoIp
    BY DEF FdbFree
  <2>2. \A o \in FdbSlots : fdb[s].expires_s <= fdb[o].expires_s
    BY DEF FdbOldest
  <2>3. QED
    BY <1>2, <2>1, <2>2
<1>4. \A o \in FdbSlots : /\ fdb[o].mac = seen[fdb[o].ip].mac /\ fdb[o].mac # NoMac
                          /\ fdb[o].expires_s = seen[fdb[o].ip].at + FDB_TTL_S
  BY <1>1, <1>2, <1>3 DEF FdbPart, SlotsCurrent
<1>5. \A o \in Ips : seen[o].at \in Nat
  BY <1>1, SeenTyped
<1>6. \A o \in FdbSlots : seen[fdb[o].ip].at >= seen[j].at
  <2> SUFFICES ASSUME NEW o \in FdbSlots PROVE seen[fdb[o].ip].at >= seen[j].at
    OBVIOUS
  <2>1. seen[j].at + FDB_TTL_S <= seen[fdb[o].ip].at + FDB_TTL_S
    BY <1>3, <1>4
  <2>2. seen[j].at \in Nat /\ seen[fdb[o].ip].at \in Nat /\ FDB_TTL_S \in Nat
    BY <1>3, <1>5, SizeAssumption
  <2>3. QED
    BY <2>1, <2>2
<1>7. /\ seen'[ip].mac = mac /\ seen'[ip].at = now
      /\ \A o \in Ips : o # ip => seen'[o] = seen[o]
  BY <1>2
<1>8. \A o, q \in FdbSlots : fdb[o].ip = fdb[q].ip => o = q
  BY <1>1, <1>3 DEF FdbPart, OneSlotEach
<1>9. \A o \in FdbSlots : f[o] \in T
  <2> SUFFICES ASSUME NEW o \in FdbSlots PROVE f[o] \in T
    OBVIOUS
  <2>1. CASE o = s
    <3>1. f[o] = ip
      BY <2>1
    <3>2. seen'[ip].mac # NoMac
      BY <1>2, <1>7
    <3>3. seen'[ip].at >= seen'[j].at
      BY <1>5, <1>7 DEF SeenPast
    <3>4. ip \in Since(seen', j)
      BY <3>2, <3>3 DEF Since
    <3>5. QED
      BY <3>1, <3>4
  <2>2. CASE o # s
    <3>1. f[o] = fdb[o].ip /\ fdb[o].ip \in Ips /\ fdb[o].ip # j /\ fdb[o].ip # ip
      BY <1>3, <1>8, <2>2
    <3>2. seen'[fdb[o].ip] = seen[fdb[o].ip] /\ seen'[j] = seen[j]
      BY <1>7, <3>1
    <3>3. seen[fdb[o].ip].mac # NoMac /\ seen[fdb[o].ip].at >= seen[j].at
      BY <1>4, <1>6
    <3>4. fdb[o].ip \in Since(seen', j)
      BY <3>1, <3>2, <3>3 DEF Since
    <3>5. QED
      BY <3>1, <3>4
  <2>3. QED
    BY <2>1, <2>2
<1>10. \A o, q \in FdbSlots : f[o] = f[q] => o = q
  BY <1>8
<1>11. f \in Injection(FdbSlots, T)
  <2>1. f \in [FdbSlots -> T]
    <3>1. f = [o \in FdbSlots |-> f[o]]
      OBVIOUS
    <3> HIDE DEF f, T
    <3>2. QED
      BY <1>9, <3>1
  <2>2. IsInjective(f)
    <3>1. DOMAIN f = FdbSlots
      OBVIOUS
    <3> HIDE DEF f
    <3>2. QED
      BY <1>10, <3>1 DEF IsInjective
  <2> HIDE DEF f, T
  <2>3. QED
    BY <2>1, <2>2 DEF Injection
<1>12. IsFiniteSet(T) /\ Cardinality(T) \in Nat
  BY SinceFinite
<1>13. Cardinality(FdbSlots) = FDB_SIZE
  <2>1. 1 \in Int /\ FDB_SIZE \in Int /\ ~(1 > FDB_SIZE) /\ (FDB_SIZE - 1) + 1 = FDB_SIZE
    BY SizeAssumption
  <2>2. Cardinality(1 .. FDB_SIZE) = FDB_SIZE - 1 + 1
    BY <2>1, FS_Interval, Zenon
  <2>3. QED
    BY <1>1, <2>2
<1> HIDE DEF f, T
<1>14. Cardinality(FdbSlots) <= Cardinality(T)
  BY <1>11, <1>12, FS_Injection
<1>15. QED
  BY <1>1, <1>12, <1>13, <1>14 DEF T

LEMMA InsertKeepsRemembered ==
  ASSUME IInv, CInv, NEW ip \in Ips, NEW mac \in Macs, fdb_insert(ip, mac), now' = now
  PROVE  CInv'
<1>1. FdbPart /\ now \in Nat
  BY Parts, SizeAssumption DEF RestPart
<1>2. seen \in [Ips -> Sighting]
  BY <1>1 DEF FdbPart
<1>3. CASE Unlearnable(ip)
  <2>1. fdb' = fdb /\ seen' = seen
    BY <1>3 DEF fdb_insert
  <2>2. QED
    BY <2>1 DEF CInv, SeenPast, Remembered, Live
<1>4. CASE ~Unlearnable(ip)
  <2>1. PICK s \in FdbSlots :
          /\ FdbTarget(s, ip)
          /\ fdb' = [fdb EXCEPT ![s] = [ip |-> ip, mac |-> mac,
                                        expires_s |-> now + FDB_TTL_S]]
    BY <1>4 DEF fdb_insert
  <2>2. seen' = [seen EXCEPT ![ip] = [mac |-> mac, at |-> now]]
    BY <1>4 DEF fdb_insert
  <2>3. ip # NoIp
    BY <1>4 DEF Unlearnable
  <2>4. /\ seen'[ip].mac = mac /\ seen'[ip].at = now
        /\ \A o \in Ips : o # ip => seen'[o] = seen[o]
    BY <1>2, <2>2
  <2>5. /\ fdb'[s].ip = ip
        /\ \A o \in FdbSlots \ {s} : fdb'[o] = fdb[o]
    BY <1>1, <2>1 DEF FdbPart
  <2>6. SeenPast'
    <3>1. \A o \in Ips : seen'[o].at <= now
      <4>1. now <= now
        BY <1>1
      <4>2. QED
        BY <2>4, <4>1 DEF CInv, SeenPast
    <3>2. seen'[NoIp].mac = NoMac
      BY <2>3, <2>4 DEF CInv, SeenPast, Ips
    <3>3. QED
      BY <3>1, <3>2 DEF SeenPast
  <2>7. ASSUME NEW j \in Ips, Live(j)', j # ip, ~\E o \in FdbSlots : fdb'[o].ip = j
        PROVE  Cardinality(Since(seen', j)) >= FDB_SIZE
    <3>1. seen'[j] = seen[j] /\ Live(j)
      BY <2>4, <2>7 DEF Live
    <3>2. CASE \E o \in FdbSlots : fdb[o].ip = j
      <4>1. fdb[s].ip = j
        BY <2>5, <2>7, <3>2
      <4>2. j # NoIp
        BY <3>1 DEF Live, CInv, SeenPast
      <4>3. s \notin FdbFree
        <5>1. fdb[s].expires_s = seen[j].at + FDB_TTL_S
          BY <1>1, <4>1, <4>2 DEF FdbPart, SlotsCurrent
        <5>2. seen[j].at \in Nat
          BY <1>1, SeenTyped
        <5>3. ~(fdb[s].expires_s <= now)
          <6>1. fdb[s].expires_s > now
            BY <3>1, <5>1 DEF Live
          <6>2. fdb[s].expires_s \in Nat
            BY <1>1 DEF FdbPart
          <6>3. QED
            BY <1>1, <6>1, <6>2
        <5>4. QED
          BY <4>1, <4>2, <5>3 DEF FdbFree
      <4>4. /\ \A o \in FdbSlots : fdb[o].ip # ip
            /\ FdbFree = {} /\ FdbOldest(s)
        BY <2>1, <2>7, <4>1, <4>3 DEF FdbTarget, FirstOf
      <4>5. QED
        BY <2>2, <2>7, <4>1, <4>4, EvictedIsOldest DEF CInv
    <3>3. CASE Cardinality(Since(seen, j)) >= FDB_SIZE
      <4>1. Cardinality(Since(seen, j)) <= Cardinality(Since(seen', j))
        BY <1>1, <2>2, <2>7, SinceGrows DEF CInv
      <4>2. /\ Cardinality(Since(seen, j)) \in Nat /\ Cardinality(Since(seen', j)) \in Nat
            /\ FDB_SIZE \in Nat
        BY SinceFinite, SizeAssumption
      <4>3. QED
        BY <3>3, <4>1, <4>2
    <3>4. QED
      BY <3>1, <3>2, <3>3 DEF CInv, Remembered
  <2>8. Remembered'
    BY <2>5, <2>7 DEF Remembered
  <2>9. QED
    BY <2>6, <2>8 DEF CInv
<1>5. QED
  BY <1>3, <1>4

(* Time passes, or nothing happens to the database. *)
LEMMA KeptRemembered ==
  ASSUME IInv, CInv, UNCHANGED <<fdb, seen>>, now' \in Nat, now <= now'
  PROVE  CInv'
<1>1. FdbPart /\ now \in Nat
  BY Parts, SizeAssumption DEF RestPart
<1>2. seen \in [Ips -> Sighting]
  BY <1>1 DEF FdbPart
<1>3. \A ip \in Ips : seen[ip].at \in Nat
  BY <1>1, SeenTyped
<1>3a. now \in Nat /\ now' \in Nat /\ now <= now' /\ FDB_TTL_S \in Nat
  BY <1>1, SizeAssumption
<1>3b. seen' = seen
  OBVIOUS
<1>4. SeenPast'
  <2>1. ASSUME NEW ip \in Ips PROVE seen[ip].at <= now'
    <3>1. seen[ip].at <= now /\ seen[ip].at \in Nat
      BY <1>3, <2>1 DEF CInv, SeenPast
    <3> DEFINE at == seen[ip].at
               later == now'
    <3>2. at <= now /\ at \in Nat /\ now <= later /\ now \in Nat /\ later \in Nat
      BY <1>3a, <3>1
    <3> HIDE DEF at, later
    <3>3. at <= later
      BY <3>2
    <3>4. QED
      BY <3>3 DEF at, later
  <2>2. QED
    BY <1>3b, <2>1 DEF CInv, SeenPast
<1>5. \A ip \in Ips : Live(ip)' => Live(ip)
  <2> SUFFICES ASSUME NEW ip \in Ips, Live(ip)' PROVE Live(ip)
    OBVIOUS
  <2>1. seen[ip].mac # NoMac /\ seen[ip].at + FDB_TTL_S > now'
    BY <1>3b DEF Live
  <2> DEFINE at == seen[ip].at
             later == now'
  <2>2. /\ at + FDB_TTL_S > later /\ at \in Nat /\ FDB_TTL_S \in Nat
        /\ now <= later /\ now \in Nat /\ later \in Nat
    BY <1>3, <1>3a, <2>1
  <2> HIDE DEF at, later
  <2>3. at + FDB_TTL_S > now
    BY <2>2
  <2>4. QED
    BY <2>1, <2>3 DEF Live, at
<1>6. Remembered'
  BY <1>5 DEF CInv, Remembered
<1>7. QED
  BY <1>4, <1>6 DEF CInv

(* An empty memory of sightings, at boot or after bridge_init.               *)
Forgotten == seen = NeverSeen /\ now \in Nat

LEMMA FreshRemembers == Forgotten => CInv
<1> SUFFICES ASSUME Forgotten PROVE CInv
  OBVIOUS
<1>1. NoIp \in Ips /\ \A ip \in Ips : seen[ip].mac = NoMac /\ seen[ip].at = 0
  BY DEF Forgotten, NeverSeen, Ips
<1>1a. now \in Nat /\ 0 <= now
  <2>1. now \in Nat
    BY DEF Forgotten
  <2>2. QED
    BY <2>1
<1>2. SeenPast
  BY <1>1, <1>1a DEF SeenPast
<1>3. Remembered
  BY <1>1 DEF Remembered, Live
<1>4. QED
  BY <1>2, <1>3 DEF CInv

LEMMA FreshRemembersNext == Forgotten' => CInv'
BY FreshRemembers, PTL

LEMMA CompleteStep ==
  ASSUME IInv, CInv, [Next]_vars
  PROVE  CInv'
<1>1. now \in Nat /\ now <= now
  <2>1. now \in Nat
    BY PastIsNumber DEF IInv, TypeOK
  <2>2. QED
    BY <2>1
<1>2. ASSUME NEW f \in ApFrames, bridge_input_ap(f) PROVE CInv'
  <2>1. fdb_insert(SourceIp(f.body), f.src) /\ now' = now
    BY <1>2 DEF bridge_input_ap
  <2>2. SourceIp(f.body) \in Ips /\ f.src \in Macs
    BY ApFrameType DEF Macs
  <2>3. QED
    BY <2>1, <2>2, InsertKeepsRemembered
<1>3. ASSUME NEW f \in StaFrames, bridge_input_sta(f) PROVE CInv'
  <2>1. snoop_dhcp_reply(f.body) /\ now' = now
    BY <1>3 DEF bridge_input_sta
  <2>2. CASE UNCHANGED <<fdb, seen>>
    BY <1>1, <2>1, <2>2, KeptRemembered
  <2>3. CASE f.body.kind = "dhcp_reply" /\ fdb_insert(f.body.yiaddr, ReplyChaddr(f.body))
    <3>1. f.body.yiaddr \in Ips /\ ReplyChaddr(f.body) \in Macs
      BY <2>3, StaFrameType, ReplyChaddrIsAsker
    <3>2. QED
      BY <2>1, <2>3, <3>1, InsertKeepsRemembered
  <2>4. QED
    BY <2>1, <2>2, <2>3 DEF snoop_dhcp_reply
<1>4. ASSUME NEW n \in Netifs, PassThrough(n) PROVE CInv'
  BY <1>1, <1>4, KeptRemembered DEF PassThrough, tables
<1>5. CASE Restart
  <2>1. seen' = NeverSeen /\ now' = 0
    BY <1>5 DEF Restart, Boot
  <2>2. QED
    BY <2>1, FreshRemembersNext DEF Forgotten
<1>6. ASSUME NEW ip, NEW headroom \in BOOLEAN,
             bridge_output_sta(ip, headroom) \/ bridge_output_ap(ip, headroom)
      PROVE  CInv'
  <2>1. UNCHANGED tables /\ now' = now
    BY <1>6 DEF bridge_output_sta, bridge_output_ap
  <2>2. QED
    BY <1>1, <2>1, KeptRemembered DEF tables
<1>7. ASSUME NEW ip \in StaIps, NEW fresh, bridge_init(ip, fresh) PROVE CInv'
  <2>1. seen' = NeverSeen /\ now' = now
    BY <1>7 DEF bridge_init
  <2>2. QED
    BY <1>1, <2>1, FreshRemembersNext DEF Forgotten
<1>8. CASE StaDisconnected
  BY <1>1, <1>8, KeptRemembered DEF StaDisconnected, tables
<1>9. CASE Tick
  <2>1. UNCHANGED tables /\ now' = now + 1
    BY <1>9 DEF Tick
  <2>2. now' \in Nat /\ now <= now'
    BY <1>1, <2>1
  <2>3. QED
    BY <2>1, <2>2, KeptRemembered DEF tables
<1>10. CASE UNCHANGED vars
  BY <1>1, <1>10, KeptRemembered DEF vars, tables
<1>11. QED
  BY <1>2, <1>3, <1>4, <1>5, <1>6, <1>7, <1>8, <1>9, <1>10
     DEF Next, Reboot, Overflow

LEMMA CompleteInit == Init => CInv
BY FreshRemembers DEF Init, Boot, Forgotten

LEMMA InvariantMakesLookupComplete == IInv /\ CInv => LookupComplete
<1> SUFFICES ASSUME IInv, CInv, NEW ip \in Ips, Live(ip)
             PROVE  FdbKnows(ip) \/ Cardinality(SeenSince(ip)) >= FDB_SIZE
  BY DEF LookupComplete, Live
<1>1. SeenSince(ip) = Since(seen, ip)
  BY DEF SeenSince, Since
<1>2. CASE Cardinality(Since(seen, ip)) >= FDB_SIZE
  BY <1>1, <1>2
<1>3. ASSUME NEW s \in FdbSlots, fdb[s].ip = ip PROVE FdbKnows(ip)
  <2>1. ip # NoIp
    BY DEF Live, CInv, SeenPast
  <2>2. fdb[s].expires_s = seen[ip].at + FDB_TTL_S
    BY <1>3, <2>1, Parts DEF FdbPart, SlotsCurrent
  <2>3. fdb[s].expires_s > now
    BY <2>2 DEF Live
  <2>4. s \in FdbHits(ip)
    BY <1>3, <2>3 DEF FdbHits
  <2>5. QED
    BY <2>4 DEF FdbKnows
<1>4. QED
  BY <1>2, <1>3 DEF CInv, Remembered

(* an address seen within its lifetime is found, unless as many others as   *)
(* the database has slots were seen at least as late (fdb_insert evicts the *)
(* entry that expires first).                                               *)
THEOREM DatabaseComplete == Spec => []LookupComplete
BY InvariantHolds, CompleteInit, CompleteStep, InvariantMakesLookupComplete, PTL DEF Spec
=============================================================================
