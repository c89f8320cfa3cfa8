---------------------------- MODULE DeviceProofs ----------------------------
(* Proofs about Device.  Every step either restarts the device, changes RAM *)
(* in a way that the tame fields of the configuration do not see, or writes *)
(* the two sectors; there is one lemma for each of the three.               *)
EXTENDS Device, TLAPS, WellFoundedInduction

Keys == Fields \cup {"routes", "acl"}

\* The fields that something is claimed about.
Guarded == {"locked", "ap_on", "automesh", "ap_watchdog", "client_watchdog",
            "hw_reset", "max_portmap", "routes", "acl"}

IsConfig(c) ==
  /\ DOMAIN c = Keys
  /\ c.locked \in 0..1 /\ c.ap_on \in 0..1 /\ c.automesh \in Off..Oper
  /\ c.ap_watchdog \in Int /\ c.ap_watchdog >= -1
  /\ c.client_watchdog \in Int /\ c.client_watchdog >= -1
  /\ c.max_portmap \in 0..MaxTable
  /\ c.routes \subseteq Routes /\ c.acl \in 0..1

Tables == [Slots -> Entry]
Lives ==
  [routes : SUBSET Routes, acl : 0..1, table : Tables, newmap : 0..MaxTable,
   ap : Int, client : Int, opmode : {"off", "both", "station"},
   do_ip : BOOLEAN, toggle : BOOLEAN, low : 0..HoldTicks, sleep : BOOLEAN,
   console : BOOLEAN, web : BOOLEAN]
Histories == [ap : Nat, client : Nat, held : Nat, moved : BOOLEAN]
IsRom(r) ==
  /\ r = [magic |-> r.magic, cfg |-> r.cfg, blob |-> r.blob]
  /\ r.magic \in {"good", "erased", "other"}
  /\ IsConfig(r.cfg) /\ r.blob \in Tables

Shape ==
  /\ up \in BOOLEAN /\ left \in 0..MaxCmds
  /\ IsConfig(cfg) /\ live \in Lives /\ IsRom(rom) /\ seen \in Histories
  /\ excuse \subseteq {"size", "power"}

\* A watchdog counter and the time that has passed make up the time that is
\* configured; a watchdog that is off stays so.
Counts(count, passed, time) ==
  count >= -1 /\ count + passed = time /\ (count = -1 => passed = 0)
Watched ==
  /\ Counts(live.ap, seen.ap, cfg.ap_watchdog)
  /\ Counts(live.client, seen.client, cfg.client_watchdog)

\* The first n entries of a table have been written.
Whole(table, n) == \A s \in Slots : s <= n => table[s] # Garbage
Mappings ==
  excuse = {} =>
    /\ rom.magic = "good" => Whole(rom.blob, rom.cfg.max_portmap)
    /\ up => Whole(live.table, cfg.max_portmap)

\* Two ticks are a second: the count of low samples is the time they span.
Spans(low, held, toggle) ==
  \E j \in 0..HoldTicks :
    \/ low = 2 * j + 1 /\ held = 1000 * j
    \/ low = 2 * j + 2 /\ held = 1000 * j + Period(~toggle)
Sampled ==
  ~seen.moved /\ live.low > 0 => Armed /\ Spans(live.low, seen.held, live.toggle)

IInv == Shape /\ Watched /\ LockIsSaved /\ Mappings /\ Sampled

----------------------------------------------------------------------------
(* Configurations.                                                          *)

\* d is another configuration that keeps what the device runs by.
Tame(c, d) ==
  /\ d.locked = c.locked /\ d.max_portmap = c.max_portmap
  /\ d.ap_watchdog = c.ap_watchdog /\ d.client_watchdog = c.client_watchdog
  /\ d.hw_reset = c.hw_reset

LEMMA GuardedAreKeys == Guarded \subseteq Keys
BY DEF Guarded, Keys, Fields, AccessPoint, Mesh, Watchdogs, Hardware, Napt

LEMMA DefaultFacts ==
  /\ IsConfig(Default) /\ Default.locked = 0 /\ Default.hw_reset = NoPin
  /\ Default.ap_watchdog = -1 /\ Default.client_watchdog = -1
  /\ Default.max_portmap = DefaultPortmap /\ Default.acl = 0 /\ Default.routes = {}
  /\ Default.automesh = Off
<1>1. DOMAIN Default = Keys
  BY DEF Default, Keys
<1>2. /\ "locked" \in Keys /\ "ap_on" \in Keys /\ "automesh" \in Keys
      /\ "ap_watchdog" \in Keys /\ "client_watchdog" \in Keys /\ "hw_reset" \in Keys
      /\ "max_portmap" \in Keys /\ "routes" \in Keys /\ "acl" \in Keys
  BY GuardedAreKeys DEF Guarded
<1>3. Default.locked = 0 /\ Default.ap_on = 1 /\ Default.automesh = 0
  BY <1>2 DEF Default, Keys, Watchdogs
<1>4. Default.ap_watchdog = -1 /\ Default.client_watchdog = -1
  BY <1>2 DEF Default, Keys, Watchdogs
<1>5. Default.hw_reset = NoPin /\ Default.max_portmap = DefaultPortmap
  BY <1>2 DEF Default, Keys, Watchdogs
<1>6. Default.routes = {} /\ Default.acl = 0
  BY <1>2 DEF Default, Keys, Watchdogs
<1>7. IsConfig(Default)
  BY <1>1, <1>3, <1>4, <1>5, <1>6, DeviceAssumption DEF IsConfig, Off, Oper
<1>8. QED
  BY <1>3, <1>4, <1>5, <1>6, <1>7 DEF Off

(* The settings that are only kept.                                         *)
LEMMA PlainNames ==
  /\ Peap \cup {"am_threshold"} \subseteq Keys \ Guarded
  /\ Services \subseteq Keys \ Guarded /\ Rates \subseteq Keys \ Guarded
  /\ Napt \ {"max_portmap"} \subseteq Keys \ Guarded
  /\ Address \subseteq Keys \ Guarded /\ Dhcp \subseteq Keys \ Guarded
  /\ Mqtt \subseteq Keys \ Guarded /\ Station \subseteq Keys \ Guarded
  /\ {"ap_ssid", "ap_password", "ap_open", "nat", "ssid_hidden", "max_clients",
      "automesh_checked", "speed", "status_led", "country", "phy_mode"}
        \subseteq Keys \ Guarded
<1>1. Peap \cup {"am_threshold"} \subseteq Keys \ Guarded
  BY DEF Guarded, Keys, Fields, Peap, Mesh
<1>2. Services \subseteq Keys \ Guarded
  BY DEF Guarded, Keys, Fields, Services
<1>3. Rates \subseteq Keys \ Guarded
  BY DEF Guarded, Keys, Fields, Rates
<1>4. Napt \ {"max_portmap"} \subseteq Keys \ Guarded
  BY DEF Guarded, Keys, Fields, Napt
<1>5. Address \subseteq Keys \ Guarded
  BY DEF Guarded, Keys, Fields, Address
<1>6. Dhcp \subseteq Keys \ Guarded
  BY DEF Guarded, Keys, Fields, Dhcp
<1>7. Mqtt \subseteq Keys \ Guarded
  BY DEF Guarded, Keys, Fields, Mqtt
<1>8. Station \subseteq Keys \ Guarded
  BY DEF Guarded, Keys, Fields, Station
<1>9. {"ap_ssid", "ap_password", "ap_open", "nat", "ssid_hidden", "max_clients",
       "automesh_checked", "speed", "status_led", "country", "phy_mode"}
        \subseteq Keys \ Guarded
  BY DEF Guarded, Keys, Fields, AccessPoint, Mesh, Hardware
<1>10. QED
  BY <1>1, <1>2, <1>3, <1>4, <1>5, <1>6, <1>7, <1>8, <1>9

(* Setting such a field leaves a tame configuration.                        *)
LEMMA PlainSetting ==
  ASSUME NEW c, IsConfig(c), NEW n \in Keys \ Guarded, NEW v
  PROVE  IsConfig([c EXCEPT ![n] = v]) /\ Tame(c, [c EXCEPT ![n] = v])
<1> DEFINE d == [c EXCEPT ![n] = v]
<1>1. DOMAIN d = Keys
  BY DEF IsConfig
<1>2. \A k \in Guarded : d[k] = c[k]
  BY GuardedAreKeys DEF IsConfig
<1> HIDE DEF d
<1>3. /\ d.locked = c.locked /\ d.ap_on = c.ap_on /\ d.automesh = c.automesh
      /\ d.ap_watchdog = c.ap_watchdog /\ d.client_watchdog = c.client_watchdog
      /\ d.hw_reset = c.hw_reset /\ d.max_portmap = c.max_portmap
      /\ d.routes = c.routes /\ d.acl = c.acl
  BY <1>2 DEF Guarded
<1>4. IsConfig(d) /\ Tame(c, d)
  BY <1>1, <1>3 DEF IsConfig, Tame
<1>5. QED
  BY <1>4 DEF d

(* So does setting the mesh mode, or switching the access point.            *)
LEMMA ModeSetting ==
  ASSUME NEW c, IsConfig(c), NEW n \in {"automesh", "ap_on"}, NEW v \in 0..1
  PROVE  IsConfig([c EXCEPT ![n] = v]) /\ Tame(c, [c EXCEPT ![n] = v])
<1> DEFINE d == [c EXCEPT ![n] = v]
<1>1. DOMAIN d = Keys
  BY DEF IsConfig
<1>2. /\ \A k \in Guarded \ {"automesh", "ap_on"} : d[k] = c[k]
      /\ d.automesh = IF n = "automesh" THEN v ELSE c.automesh
      /\ d.ap_on = IF n = "ap_on" THEN v ELSE c.ap_on
  BY GuardedAreKeys DEF IsConfig, Guarded
<1> HIDE DEF d
<1>3. /\ d.locked = c.locked
      /\ d.ap_watchdog = c.ap_watchdog /\ d.client_watchdog = c.client_watchdog
      /\ d.hw_reset = c.hw_reset /\ d.max_portmap = c.max_portmap
      /\ d.routes = c.routes /\ d.acl = c.acl
  BY <1>2 DEF Guarded
<1>4. IsConfig(d) /\ Tame(c, d)
  BY <1>1, <1>2, <1>3 DEF IsConfig, Tame, Off, Oper
<1>5. QED
  BY <1>4 DEF d

(* config_save: routes and ACLs.                                            *)
LEMMA CollectTame ==
  ASSUME NEW c, IsConfig(c), NEW l \in Lives
  PROVE  IsConfig(Collect(c, l)) /\ Tame(c, Collect(c, l))
<1> DEFINE d == [c EXCEPT !.routes = l.routes, !.acl = l.acl]
<1>1. DOMAIN d = Keys
  BY DEF IsConfig
<1>2. /\ \A k \in Guarded \ {"routes", "acl"} : d[k] = c[k]
      /\ d.routes = l.routes /\ d.acl = l.acl
  BY GuardedAreKeys DEF IsConfig, Guarded
<1>3. l.routes \subseteq Routes /\ l.acl \in 0..1
  BY DEF Lives
<1> HIDE DEF d
<1>4. /\ d.locked = c.locked /\ d.ap_on = c.ap_on /\ d.automesh = c.automesh
      /\ d.ap_watchdog = c.ap_watchdog /\ d.client_watchdog = c.client_watchdog
      /\ d.hw_reset = c.hw_reset /\ d.max_portmap = c.max_portmap
  BY <1>2 DEF Guarded
<1>5. IsConfig(d) /\ Tame(c, d)
  BY <1>1, <1>2, <1>3, <1>4 DEF IsConfig, Tame
<1>6. QED
  BY <1>5 DEF d, Collect

----------------------------------------------------------------------------
(* Sectors.                                                                 *)

IsOp(op) ==
  \/ op.sector = "cfg" /\ op.magic = "good" /\ IsConfig(op.data)
  \/ op.sector = "blob" /\ op.data \in Tables

LEMMA PutTyped ==
  /\ \A c : /\ PutConfig(c).sector = "cfg" /\ PutConfig(c).data = c
            /\ PutConfig(c).magic = "good"
            /\ IsConfig(c) => IsOp(PutConfig(c))
  /\ \A b : /\ PutBlob(b).sector = "blob" /\ PutBlob(b).data = b
            /\ b \in Tables => IsOp(PutBlob(b))
BY DEF PutConfig, PutBlob, IsOp

LEMMA BlankTyped ==
  /\ Blank \in Tables
  /\ \A n \in Nat : Zeros(n) \in Tables /\ Whole(Zeros(n), n)
BY DEF Blank, Zeros, Tables, Entry, Whole, Free, Garbage, Slots

LEMMA WriteRom ==
  ASSUME NEW r, IsRom(r), NEW op, IsOp(op)
  PROVE  IsRom(Write(r, op)) /\ IsRom(Erase(r, op))
<1>1. CASE op.sector = "cfg" /\ op.magic = "good" /\ IsConfig(op.data)
  <2>1. /\ Write(r, op) = [magic |-> "good", cfg |-> op.data, blob |-> r.blob]
        /\ Erase(r, op) = [magic |-> "erased", cfg |-> Default, blob |-> r.blob]
    BY <1>1 DEF IsRom, Write, Erase
  <2>2. r.blob \in Tables /\ IsConfig(Default)
    BY DefaultFacts DEF IsRom
  <2>3. QED
    BY <1>1, <2>1, <2>2 DEF IsRom
<1>2. CASE op.sector = "blob" /\ op.data \in Tables
  <2>1. /\ Write(r, op) = [magic |-> r.magic, cfg |-> r.cfg, blob |-> op.data]
        /\ Erase(r, op) = [magic |-> r.magic, cfg |-> r.cfg, blob |-> Blank]
    BY <1>2 DEF IsRom, Write, Erase
  <2>2. /\ r.magic \in {"good", "erased", "other"} /\ IsConfig(r.cfg)
        /\ Blank \in Tables
    BY BlankTyped DEF IsRom
  <2>3. QED
    BY <1>2, <2>1, <2>2 DEF IsRom
<1>3. QED
  BY <1>1, <1>2 DEF IsOp

(* What a save leaves in flash when it is not cut.                          *)
LEMMA WriteOne ==
  ASSUME NEW r, IsRom(r), NEW c
  PROVE  WriteAll(r, <<PutConfig(c)>>) = [magic |-> "good", cfg |-> c, blob |-> r.blob]
BY DEF WriteAll, Write, PutConfig, IsRom

LEMMA WriteBoth ==
  ASSUME NEW r, IsRom(r), NEW c, NEW b, NEW ops,
         \/ ops = <<PutConfig(c), PutBlob(b)>>
         \/ ops = <<PutBlob(b), PutConfig(c)>>
  PROVE  WriteAll(r, ops) = [magic |-> "good", cfg |-> c, blob |-> b]
<1>1. r = [magic |-> r.magic, cfg |-> r.cfg, blob |-> r.blob]
  BY DEF IsRom
<1>2. \A q : IsRom(q) \/ q = [magic |-> r.magic, cfg |-> r.cfg, blob |-> b] =>
               Write(q, PutConfig(c)) = [magic |-> "good", cfg |-> c, blob |-> q.blob]
  BY PutTyped DEF Write, IsRom
<1>3. \A q : IsRom(q) \/ q = [magic |-> "good", cfg |-> c, blob |-> r.blob] =>
               Write(q, PutBlob(b)) = [magic |-> q.magic, cfg |-> q.cfg, blob |-> b]
  BY PutTyped DEF Write, IsRom
<1>4. CASE ops = <<PutConfig(c), PutBlob(b)>>
  BY <1>1, <1>2, <1>3, <1>4 DEF WriteAll
<1>5. CASE ops = <<PutBlob(b), PutConfig(c)>>
  BY <1>1, <1>2, <1>3, <1>5 DEF WriteAll
<1>6. QED
  BY <1>4, <1>5

(* What is left when it is cut.                                             *)
LEMMA CutTyped ==
  ASSUME NEW r, IsRom(r), NEW ops, Len(ops) = 1 \/ Len(ops) = 2,
         IsOp(ops[1]), Len(ops) = 2 => IsOp(ops[2]), NEW x \in Cut(r, ops)
  PROVE  IsRom(x)
<1>1. CASE x \in {Erase(r, ops[1]), Write(r, ops[1])}
  BY <1>1, WriteRom
<1>2. CASE Len(ops) = 2 /\ x = Erase(Write(r, ops[1]), ops[2])
  BY <1>2, WriteRom
<1>3. CASE Len(ops) = 2 /\ x = WriteAll(r, ops)
  BY <1>3, WriteRom DEF WriteAll
<1>4. QED
  BY <1>1, <1>2, <1>3 DEF Cut

----------------------------------------------------------------------------
(* The three kinds of steps.                                                *)

LEMMA Parts ==
  ASSUME IInv
  PROVE  /\ Shape /\ Watched /\ LockIsSaved /\ Mappings /\ Sampled
         /\ IsConfig(cfg) /\ live \in Lives /\ IsRom(rom) /\ seen \in Histories
         /\ up \in BOOLEAN /\ left \in 0..MaxCmds /\ excuse \subseteq {"size", "power"}
BY DEF IInv, Shape

(* The device goes down, whatever is left in flash.                         *)
LEMMA DownKeeps ==
  ASSUME Down, left' \in 0..MaxCmds, IsRom(rom'), excuse' \subseteq {"size", "power"},
         excuse' = {} /\ rom'.magic = "good" => Whole(rom'.blob, rom'.cfg.max_portmap)
  PROVE  IInv'
<1>1. up' = FALSE /\ cfg' = Default /\ live' = NoLive /\ seen' = Unseen
  BY DEF Down
<1>2. NoLive \in Lives
  <2>1. Zeros(0) \in Tables
    BY BlankTyped
  <2>2. 0 \in 0..MaxTable /\ 0 \in 0..HoldTicks
    BY DeviceAssumption
  <2>3. QED
    BY <2>1, <2>2 DEF NoLive, Lives
<1>3. Unseen \in Histories
  BY DEF Unseen, Histories
<1>4. Shape'
  BY <1>1, <1>2, <1>3, DefaultFacts DEF Shape, IsConfig, IsRom
<1>5. Watched'
  BY <1>1, DefaultFacts DEF Watched, Counts, NoLive, Unseen
<1>6. LockIsSaved' /\ Mappings'
  BY <1>1 DEF LockIsSaved, Mappings, Whole
<1>7. Sampled'
  BY <1>1 DEF Sampled, NoLive
<1>8. QED
  BY <1>4, <1>5, <1>6, <1>7 DEF IInv

(* A change in RAM that leaves the timers alone.                            *)
LEMMA QuietKeeps ==
  ASSUME IInv, UNCHANGED <<up, rom, excuse, seen>>, left' \in 0..MaxCmds,
         IsConfig(cfg'), Tame(cfg, cfg'), live' \in Lives,
         live'.ap = live.ap, live'.client = live.client,
         live'.low = live.low, live'.toggle = live.toggle,
         Whole(live.table, cfg.max_portmap) => Whole(live'.table, cfg.max_portmap)
  PROVE  IInv'
<1>1. Shape /\ Watched /\ LockIsSaved /\ Mappings /\ Sampled
  BY Parts
<1>2. Shape'
  BY <1>1 DEF Shape, IsConfig, IsRom
<1>3. Watched'
  BY <1>1 DEF Watched, Tame
<1>4. LockIsSaved'
  BY <1>1 DEF LockIsSaved, Tame
<1>5. Mappings'
  BY <1>1 DEF Mappings, Tame, Whole
<1>6. Sampled'
  BY <1>1 DEF Sampled, Tame, Armed
<1>7. QED
  BY <1>2, <1>3, <1>4, <1>5, <1>6 DEF IInv

LEMMA SettingKeeps ==
  ASSUME IInv, NEW c, Setting(c), left' \in 0..MaxCmds, IsConfig(c), Tame(cfg, c)
  PROVE  IInv'
<1>1. UNCHANGED <<up, rom, excuse, seen, live>> /\ cfg' = c
  BY DEF Setting, Change
<1>2. live \in Lives
  BY Parts
<1>3. QED
  BY <1>1, <1>2, QuietKeeps

----------------------------------------------------------------------------
(* Saves.                                                                   *)

LEMMA OneIsOp ==
  ASSUME NEW c, IsConfig(c)
  PROVE  LET ops == <<PutConfig(c)>> IN
         Len(ops) = 1 /\ IsOp(ops[1]) /\ ops[1].data = c
BY PutTyped

LEMMA BothAreOps ==
  ASSUME NEW c, IsConfig(c), NEW b \in Tables, NEW ops,
         ops = <<PutConfig(c), PutBlob(b)>> \/ ops = <<PutBlob(b), PutConfig(c)>>
  PROVE  Len(ops) = 2 /\ IsOp(ops[1]) /\ IsOp(ops[2]) /\ Sizes(ops) = {}
BY PutTyped DEF Sizes

(* Power lost in a save.                                                    *)
LEMMA CutKeeps ==
  ASSUME IInv, Down, left' \in 0..MaxCmds, NEW ops, Len(ops) = 1 \/ Len(ops) = 2,
         IsOp(ops[1]), Len(ops) = 2 => IsOp(ops[2]), rom' \in Cut(rom, ops),
         excuse' = excuse \cup Sizes(ops) \cup {"power"}
  PROVE  IInv'
<1>1. IsRom(rom) /\ excuse \subseteq {"size", "power"}
  BY Parts
<1>2. IsRom(rom')
  BY <1>1, CutTyped
<1>3. excuse' \subseteq {"size", "power"} /\ excuse' # {}
  BY <1>1 DEF Sizes
<1>4. QED
  BY <1>2, <1>3, DownKeeps

(* A configuration that is written over one of the same size, or excused.   *)
LEMMA OneMapping ==
  ASSUME IInv, up, NEW c, excuse \cup Sizes(<<PutConfig(c)>>) = {}
  PROVE  Whole(rom.blob, c.max_portmap)
<1>1. rom.magic = "good" /\ Mappings
  BY Parts DEF LockIsSaved
<1>2. excuse = {} /\ Sizes(<<PutConfig(c)>>) = {}
  OBVIOUS
<1>3. c.max_portmap = rom.cfg.max_portmap
  BY <1>1, <1>2, PutTyped DEF Sizes
<1>4. QED
  BY <1>1, <1>2, <1>3 DEF Mappings

LEMMA PersistOneKeeps ==
  ASSUME IInv, up, left' \in 0..MaxCmds, NEW c, IsConfig(c),
         c.ap_watchdog = cfg.ap_watchdog, c.client_watchdog = cfg.client_watchdog,
         c.hw_reset = cfg.hw_reset, c.max_portmap = cfg.max_portmap,
         Persist(<<PutConfig(c)>>, c, live)
  PROVE  IInv'
<1> DEFINE ops == <<PutConfig(c)>>
<1>1. /\ Watched /\ Mappings /\ Sampled /\ live \in Lives /\ IsRom(rom)
      /\ seen \in Histories /\ up \in BOOLEAN /\ excuse \subseteq {"size", "power"}
  BY Parts
<1>2. CASE /\ rom' = WriteAll(rom, ops) /\ excuse' = excuse \cup Sizes(ops)
           /\ Stay(c, live)
  <2>1. cfg' = c /\ live' = live /\ up' = up /\ seen' = seen
    BY <1>2 DEF Stay
  <2>2. rom' = [magic |-> "good", cfg |-> c, blob |-> rom.blob]
    BY <1>1, <1>2, WriteOne
  <2>3. rom'.magic = "good" /\ rom'.cfg = c /\ rom'.blob = rom.blob
    BY <2>2
  <2>4. IsRom(rom')
    BY <1>1, <2>2, <2>3 DEF IsRom
  <2>5. excuse' \subseteq {"size", "power"}
    BY <1>1, <1>2 DEF Sizes
  <2>6. Shape'
    BY <1>1, <2>1, <2>4, <2>5 DEF Shape, IsConfig, IsRom
  <2>7. Watched'
    BY <1>1, <2>1 DEF Watched
  <2>8. LockIsSaved'
    BY <2>1, <2>3 DEF LockIsSaved
  <2>9. Mappings'
    <3>1. excuse' = {} => Whole(rom.blob, c.max_portmap)
      BY <1>2, OneMapping
    <3>2. excuse' = {} => excuse = {}
      BY <1>2
    <3>3. QED
      BY <1>1, <2>1, <2>3, <3>1, <3>2 DEF Mappings, Whole
  <2>10. Sampled'
    BY <1>1, <2>1 DEF Sampled, Armed
  <2>11. QED
    BY <2>6, <2>7, <2>8, <2>9, <2>10 DEF IInv
<1>3. CASE /\ rom' \in Cut(rom, ops) /\ Down
           /\ excuse' = excuse \cup Sizes(ops) \cup {"power"}
  BY <1>3, OneIsOp, CutKeeps
<1>4. QED
  BY <1>2, <1>3 DEF Persist

LEMMA PersistBothKeeps ==
  ASSUME IInv, up, left' \in 0..MaxCmds, NEW c, IsConfig(c), Tame(cfg, c),
         NEW d, IsConfig(d), d.locked = c.locked, NEW b \in Tables, NEW ops,
         ops = <<PutConfig(d), PutBlob(b)>> \/ ops = <<PutBlob(b), PutConfig(d)>>,
         excuse = {} => Whole(b, d.max_portmap),
         Persist(ops, c, live)
  PROVE  IInv'
<1>1. /\ Watched /\ Mappings /\ Sampled /\ live \in Lives /\ IsRom(rom)
      /\ seen \in Histories /\ up \in BOOLEAN /\ excuse \subseteq {"size", "power"}
  BY Parts
<1>2. CASE rom' = WriteAll(rom, ops) /\ excuse' = excuse \cup Sizes(ops) /\ Stay(c, live)
  <2>1. cfg' = c /\ live' = live /\ up' = up /\ seen' = seen /\ excuse' = excuse
    BY <1>2, BothAreOps DEF Stay
  <2>2. rom' = [magic |-> "good", cfg |-> d, blob |-> b]
    BY <1>1, <1>2, WriteBoth
  <2>3. rom'.magic = "good" /\ rom'.cfg = d /\ rom'.blob = b
    BY <2>2
  <2>4. IsRom(rom')
    BY <2>2, <2>3 DEF IsRom
  <2>5. Shape'
    BY <1>1, <2>1, <2>4 DEF Shape, IsConfig, IsRom
  <2>6. Watched'
    BY <1>1, <2>1 DEF Watched, Tame
  <2>7. LockIsSaved'
    BY <2>1, <2>3 DEF LockIsSaved
  <2>8. Mappings'
    BY <1>1, <2>1, <2>3 DEF Mappings, Whole, Tame
  <2>9. Sampled'
    BY <1>1, <2>1 DEF Sampled, Armed, Tame
  <2>10. QED
    BY <2>5, <2>6, <2>7, <2>8, <2>9 DEF IInv
<1>3. CASE /\ rom' \in Cut(rom, ops) /\ Down
           /\ excuse' = excuse \cup Sizes(ops) \cup {"power"}
  BY <1>3, BothAreOps, CutKeeps
<1>4. QED
  BY <1>2, <1>3 DEF Persist

(* A save that ends in a restart.                                           *)
LEMMA RestartOneKeeps ==
  ASSUME IInv, up, left' \in 0..MaxCmds, NEW c, IsConfig(c),
         PersistAndRestart(<<PutConfig(c)>>)
  PROVE  IInv'
<1> DEFINE ops == <<PutConfig(c)>>
<1>1. IsRom(rom) /\ excuse \subseteq {"size", "power"}
  BY Parts
<1>2. CASE rom' = WriteAll(rom, ops) /\ excuse' = excuse \cup Sizes(ops) /\ Down
  <2>1. rom' = [magic |-> "good", cfg |-> c, blob |-> rom.blob]
    BY <1>1, <1>2, WriteOne
  <2>2. rom'.cfg = c /\ rom'.blob = rom.blob
    BY <2>1
  <2>3. IsRom(rom')
    BY <1>1, <2>1, <2>2 DEF IsRom
  <2>4. excuse' \subseteq {"size", "power"}
    BY <1>1, <1>2 DEF Sizes
  <2>5. excuse' = {} => Whole(rom.blob, c.max_portmap)
    BY <1>2, OneMapping
  <2>6. QED
    BY <1>2, <2>2, <2>3, <2>4, <2>5, DownKeeps
<1>3. CASE /\ rom' \in Cut(rom, ops) /\ Down
           /\ excuse' = excuse \cup Sizes(ops) \cup {"power"}
  BY <1>3, OneIsOp, CutKeeps
<1>4. QED
  BY <1>2, <1>3 DEF PersistAndRestart

(* The defaults, whose table is empty.                                      *)
LEMMA FactoryKeeps ==
  ASSUME IInv, left' \in 0..MaxCmds, NEW c, IsConfig(c), Factory(c)
  PROVE  IInv'
<1> DEFINE d == FactoryDefault(c)
           b == Zeros(c.max_portmap)
           ops == <<PutConfig(d), PutBlob(b)>>
<1>1. live \in Lives /\ IsRom(rom) /\ excuse \subseteq {"size", "power"}
  BY Parts
<1>2. [live EXCEPT !.acl = 0] \in Lives
  BY <1>1 DEF Lives
<1>3. IsConfig(d) /\ d.max_portmap = c.max_portmap
  BY <1>2, CollectTame DEF FactoryDefault, Tame
<1>4. b \in Tables /\ Whole(b, c.max_portmap)
  BY BlankTyped DEF IsConfig
<1> HIDE DEF d, b
<1>5. Len(ops) = 2 /\ IsOp(ops[1]) /\ IsOp(ops[2]) /\ Sizes(ops) = {}
  BY <1>3, <1>4, BothAreOps
<1>6. CASE rom' = WriteAll(rom, ops) /\ excuse' = excuse \cup Sizes(ops) /\ Down
  <2>1. rom' = [magic |-> "good", cfg |-> d, blob |-> b]
    BY <1>1, <1>6, WriteBoth
  <2>2. rom'.cfg = d /\ rom'.blob = b
    BY <2>1
  <2>3. IsRom(rom')
    BY <1>3, <1>4, <2>1, <2>2 DEF IsRom
  <2>4. excuse' \subseteq {"size", "power"}
    BY <1>1, <1>5, <1>6
  <2>5. QED
    BY <1>3, <1>4, <1>6, <2>2, <2>3, <2>4, DownKeeps
<1>7. CASE /\ rom' \in Cut(rom, ops) /\ Down
           /\ excuse' = excuse \cup Sizes(ops) \cup {"power"}
  BY <1>5, <1>7, CutKeeps
<1>8. QED
  BY <1>6, <1>7 DEF Factory, PersistAndRestart, d, b

----------------------------------------------------------------------------
(* "set".                                                                   *)

LEMMA PlainKeeps ==
  ASSUME IInv, NEW names, names \subseteq Keys \ Guarded, Plain(names),
         left' \in 0..MaxCmds
  PROVE  IInv'
<1>1. PICK n \in names : \E v \in Args[n] : Setting([cfg EXCEPT ![n] = v])
  BY DEF Plain
<1>2. PICK v : Setting([cfg EXCEPT ![n] = v])
  BY <1>1
<1>3. IsConfig([cfg EXCEPT ![n] = v]) /\ Tame(cfg, [cfg EXCEPT ![n] = v])
  BY Parts, PlainSetting
<1>4. QED
  BY <1>2, <1>3, SettingKeeps

LEMMA RelearnTame ==
  ASSUME NEW c, IsConfig(c)
  PROVE  IsConfig(Relearn(c)) /\ Tame(c, Relearn(c))
<1> DEFINE d == [c EXCEPT !.automesh_checked = 0]
<1>1. IsConfig(d) /\ Tame(c, d)
  BY PlainSetting, PlainNames
<1>2. [c EXCEPT !.automesh_checked = 0, !.automesh = Learn] = [d EXCEPT !.automesh = Learn]
  OBVIOUS
<1> HIDE DEF d
<1>3. IsConfig([d EXCEPT !.automesh = Learn]) /\ Tame(d, [d EXCEPT !.automesh = Learn])
  <2>1. "automesh" \in {"automesh", "ap_on"} /\ Learn \in 0..1
    BY DEF Learn
  <2>2. QED
    BY <1>1, <2>1, ModeSetting
<1>4. QED
  BY <1>1, <1>2, <1>3 DEF Relearn, Tame

LEMMA SsidTame ==
  ASSUME NEW c, IsConfig(c), NEW v
  PROVE  IsConfig(SetSsid(c, v)) /\ Tame(c, SetSsid(c, v))
<1> DEFINE d == [c EXCEPT !.ssid = v]
           e == Relearn(d)
<1>1. "ssid" \in Keys \ Guarded /\ "auto_connect" \in Keys \ Guarded
  BY PlainNames DEF Station
<1>2. IsConfig(d) /\ Tame(c, d)
  BY <1>1, PlainSetting
<1> HIDE DEF d
<1>3. IsConfig(e) /\ Tame(d, e)
  BY <1>2, RelearnTame
<1> HIDE DEF e
<1>4. IsConfig([e EXCEPT !.auto_connect = 1]) /\ Tame(e, [e EXCEPT !.auto_connect = 1])
  BY <1>1, <1>3, PlainSetting
<1>5. QED
  BY <1>2, <1>3, <1>4 DEF SetSsid, Tame, d, e

LEMMA PasswordTame ==
  ASSUME NEW c, IsConfig(c), NEW v
  PROVE  IsConfig(SetPassword(c, v)) /\ Tame(c, SetPassword(c, v))
<1> DEFINE d == [c EXCEPT !.password = v]
           e == Relearn(d)
<1>1. "password" \in Keys \ Guarded /\ "lock_password" \in Keys \ Guarded
  BY PlainNames DEF Station
<1>2. IsConfig(d) /\ Tame(c, d)
  BY <1>1, PlainSetting
<1> HIDE DEF d
<1>3. IsConfig(e) /\ Tame(d, e)
  BY <1>2, RelearnTame
<1> HIDE DEF e
<1>4. IsConfig([e EXCEPT !.lock_password = v]) /\ Tame(e, [e EXCEPT !.lock_password = v])
  BY <1>1, <1>3, PlainSetting
<1>5. QED
  BY <1>2, <1>3, <1>4 DEF SetPassword, Tame, d, e

(* Two plain fields at once, and the mesh mode with one.                    *)
LEMMA PairTame ==
  ASSUME NEW c, IsConfig(c), NEW n \in Keys \ Guarded, NEW v,
         NEW m \in Keys \ Guarded, NEW w
  PROVE  /\ IsConfig([[c EXCEPT ![n] = v] EXCEPT ![m] = w])
         /\ Tame(c, [[c EXCEPT ![n] = v] EXCEPT ![m] = w])
<1> DEFINE d == [c EXCEPT ![n] = v]
<1>1. IsConfig(d) /\ Tame(c, d)
  BY PlainSetting
<1> HIDE DEF d
<1>2. IsConfig([d EXCEPT ![m] = w]) /\ Tame(d, [d EXCEPT ![m] = w])
  BY <1>1, PlainSetting
<1>3. QED
  BY <1>1, <1>2 DEF Tame, d

LEMMA ModePairTame ==
  ASSUME NEW c, IsConfig(c), NEW v \in 0..1, NEW m \in Keys \ Guarded, NEW w
  PROVE  /\ IsConfig([[c EXCEPT !.automesh = v] EXCEPT ![m] = w])
         /\ Tame(c, [[c EXCEPT !.automesh = v] EXCEPT ![m] = w])
<1> DEFINE d == [c EXCEPT !.automesh = v]
<1>1. IsConfig(d) /\ Tame(c, d)
  BY ModeSetting
<1> HIDE DEF d
<1>2. IsConfig([d EXCEPT ![m] = w]) /\ Tame(d, [d EXCEPT ![m] = w])
  BY <1>1, PlainSetting
<1>3. QED
  BY <1>1, <1>2 DEF Tame, d

LEMMA SetStationKeeps ==
  ASSUME IInv, left' \in 0..MaxCmds, SetStation
  PROVE  IInv'
<1>1. IsConfig(cfg)
  BY Parts
<1>2. ASSUME NEW v, Setting(SetSsid(cfg, v)) PROVE IInv'
  BY <1>1, <1>2, SsidTame, SettingKeeps
<1>3. ASSUME NEW v, Setting(SetPassword(cfg, v)) PROVE IInv'
  BY <1>1, <1>3, PasswordTame, SettingKeeps
<1>4. CASE Plain({"auto_connect", "sta_hostname"})
  BY <1>4, PlainNames, PlainKeeps DEF Station
<1>5. QED
  BY <1>2, <1>3, <1>4 DEF SetStation

LEMMA SetAccessPointKeeps ==
  ASSUME IInv, left' \in 0..MaxCmds, SetAccessPoint
  PROVE  IInv'
<1>1. IsConfig(cfg)
  BY Parts
<1>2. ASSUME NEW v, Setting([cfg EXCEPT !.ap_password = v, !.ap_open = 0]) PROVE IInv'
  BY <1>1, <1>2, PlainNames, PairTame, SettingKeeps
<1>3. ASSUME NEW v, Setting([cfg EXCEPT !.max_clients = v]) PROVE IInv'
  BY <1>1, <1>3, PlainNames, PlainSetting, SettingKeeps
<1>4. CASE Plain({"ap_ssid", "ap_open", "nat", "ssid_hidden"})
  BY <1>4, PlainNames, PlainKeeps
<1>5. QED
  BY <1>2, <1>3, <1>4 DEF SetAccessPoint

LEMMA SetAutomeshKeeps ==
  ASSUME IInv, left' \in 0..MaxCmds, SetAutomesh
  PROVE  IInv'
<1>1. IsConfig(cfg)
  BY Parts
<1>2. "bssid" \in Keys \ Guarded /\ "automesh_checked" \in Keys \ Guarded
  BY PlainNames DEF Dhcp
<1>3. Off \in 0..1 /\ Learn \in 0..1
  BY DEF Off, Learn
<1>4. CASE Setting([cfg EXCEPT !.automesh = Off, !.bssid = 0])
  <2>1. /\ IsConfig([[cfg EXCEPT !.automesh = Off] EXCEPT !.bssid = 0])
        /\ Tame(cfg, [[cfg EXCEPT !.automesh = Off] EXCEPT !.bssid = 0])
    BY <1>1, <1>2, <1>3, ModePairTame
  <2>2. QED
    BY <1>4, <2>1, SettingKeeps
<1>5. CASE Setting([cfg EXCEPT !.automesh = Learn, !.automesh_checked = 0])
  <2>1. /\ IsConfig([[cfg EXCEPT !.automesh = Learn] EXCEPT !.automesh_checked = 0])
        /\ Tame(cfg, [[cfg EXCEPT !.automesh = Learn] EXCEPT !.automesh_checked = 0])
    BY <1>1, <1>2, <1>3, ModePairTame
  <2>2. QED
    BY <1>5, <2>1, SettingKeeps
<1>6. QED
  BY <1>4, <1>5 DEF SetAutomesh

(* The time and the counter of a watchdog change together.                  *)
LEMMA SetWatchdogKeeps ==
  ASSUME IInv, left' \in 0..MaxCmds, SetWatchdog
  PROVE  IInv'
<1>1. PICK v \in Arguments("ap_watchdog") :
        /\ v = -1 \/ v >= MinWatchdog
        /\ \/ Change([cfg EXCEPT !.ap_watchdog = v], [live EXCEPT !.ap = v],
                     [seen EXCEPT !.ap = 0])
           \/ Change([cfg EXCEPT !.client_watchdog = v],
                     [live EXCEPT !.client = v], [seen EXCEPT !.client = 0])
  BY DEF SetWatchdog
<1>2. v \in Int /\ v >= -1
  <2>1. v \in Int
    BY DeviceAssumption DEF Arguments
  <2>2. QED
    BY <1>1, <2>1, DeviceAssumption
<1>3. /\ Shape /\ Watched /\ LockIsSaved /\ Mappings /\ Sampled /\ IsConfig(cfg)
      /\ live \in Lives /\ seen \in Histories
  BY Parts
<1>4. UNCHANGED <<up, rom, excuse>>
  BY <1>1 DEF Change
<1>5. /\ DOMAIN cfg' = Keys
      /\ \A k \in Guarded \ {"ap_watchdog", "client_watchdog"} : cfg'[k] = cfg[k]
  BY <1>1, <1>3, GuardedAreKeys DEF Change, IsConfig
<1>6. /\ cfg'.locked = cfg.locked /\ cfg'.ap_on = cfg.ap_on
      /\ cfg'.automesh = cfg.automesh /\ cfg'.hw_reset = cfg.hw_reset
      /\ cfg'.max_portmap = cfg.max_portmap /\ cfg'.routes = cfg.routes
      /\ cfg'.acl = cfg.acl
  BY <1>5 DEF Guarded
<1>7. \/ /\ cfg'.ap_watchdog = v /\ cfg'.client_watchdog = cfg.client_watchdog
         /\ live' = [live EXCEPT !.ap = v] /\ seen' = [seen EXCEPT !.ap = 0]
      \/ /\ cfg'.client_watchdog = v /\ cfg'.ap_watchdog = cfg.ap_watchdog
         /\ live' = [live EXCEPT !.client = v] /\ seen' = [seen EXCEPT !.client = 0]
  BY <1>1, <1>3, GuardedAreKeys DEF Change, IsConfig, Guarded
<1>8. IsConfig(cfg')
  BY <1>2, <1>3, <1>5, <1>6, <1>7 DEF IsConfig
<1>9. /\ live' \in Lives /\ live'.table = live.table /\ live'.low = live.low
      /\ live'.toggle = live.toggle
  BY <1>2, <1>3, <1>7 DEF Lives
<1>10. seen' \in Histories /\ seen'.held = seen.held /\ seen'.moved = seen.moved
  BY <1>3, <1>7 DEF Histories
<1>11. Shape'
  BY <1>3, <1>4, <1>8, <1>9, <1>10 DEF Shape, IsConfig, IsRom
<1>12. Watched'
  BY <1>2, <1>3, <1>7 DEF Watched, Counts, Lives, Histories
<1>13. LockIsSaved' /\ Mappings'
  BY <1>3, <1>4, <1>6, <1>9 DEF LockIsSaved, Mappings, Whole
<1>14. Sampled'
  BY <1>3, <1>6, <1>9, <1>10 DEF Sampled, Armed
<1>15. QED
  BY <1>11, <1>12, <1>13, <1>14 DEF IInv

LEMMA SetApOnKeeps ==
  ASSUME IInv, left' \in 0..MaxCmds, SetApOn
  PROVE  IInv'
<1>1. IsConfig(cfg) /\ live \in Lives
  BY Parts
<1>2. CASE Setting(cfg)
  BY <1>1, <1>2, SettingKeeps DEF Tame
<1>3. CASE Change([cfg EXCEPT !.ap_on = 1],
                  [live EXCEPT !.opmode = "both", !.do_ip = TRUE], seen)
  <2>1. IsConfig([cfg EXCEPT !.ap_on = 1]) /\ Tame(cfg, [cfg EXCEPT !.ap_on = 1])
    <3>1. "ap_on" \in {"automesh", "ap_on"} /\ 1 \in 0..1
      OBVIOUS
    <3>2. QED
      BY <1>1, <3>1, ModeSetting
  <2>2. /\ cfg' = [cfg EXCEPT !.ap_on = 1] /\ UNCHANGED <<up, rom, excuse, seen>>
        /\ live' = [live EXCEPT !.opmode = "both", !.do_ip = TRUE]
    BY <1>3 DEF Change
  <2>3. /\ live' \in Lives /\ live'.ap = live.ap /\ live'.client = live.client
        /\ live'.low = live.low /\ live'.toggle = live.toggle /\ live'.table = live.table
    BY <1>1, <2>2 DEF Lives
  <2>4. QED
    BY <2>1, <2>2, <2>3, QuietKeeps
<1>4. CASE Change([cfg EXCEPT !.ap_on = 0], [live EXCEPT !.opmode = "station"], seen)
  <2>1. IsConfig([cfg EXCEPT !.ap_on = 0]) /\ Tame(cfg, [cfg EXCEPT !.ap_on = 0])
    <3>1. "ap_on" \in {"automesh", "ap_on"} /\ 0 \in 0..1
      OBVIOUS
    <3>2. QED
      BY <1>1, <3>1, ModeSetting
  <2>2. /\ cfg' = [cfg EXCEPT !.ap_on = 0] /\ UNCHANGED <<up, rom, excuse, seen>>
        /\ live' = [live EXCEPT !.opmode = "station"]
    BY <1>4 DEF Change
  <2>3. /\ live' \in Lives /\ live'.ap = live.ap /\ live'.client = live.client
        /\ live'.low = live.low /\ live'.toggle = live.toggle /\ live'.table = live.table
    BY <1>1, <2>2 DEF Lives
  <2>4. QED
    BY <2>1, <2>2, <2>3, QuietKeeps
<1>5. QED
  BY <1>2, <1>3, <1>4 DEF SetApOn

(* A change of what is in RAM beside the configuration.                     *)
LEMMA LiveKeeps ==
  ASSUME IInv, NEW l, Change(cfg, l, seen), left' \in 0..MaxCmds, l \in Lives,
         l.ap = live.ap, l.client = live.client, l.low = live.low, l.toggle = live.toggle,
         Whole(live.table, cfg.max_portmap) => Whole(l.table, cfg.max_portmap)
  PROVE  IInv'
<1>1. UNCHANGED <<up, rom, excuse, seen, cfg>> /\ live' = l
  BY DEF Change
<1>2. IsConfig(cfg') /\ Tame(cfg, cfg')
  BY <1>1, Parts DEF Tame
<1>3. QED
  BY <1>1, <1>2, QuietKeeps

LEMMA SetHardwareKeeps ==
  ASSUME IInv, left' \in 0..MaxCmds, SetHardware
  PROVE  IInv'
<1>1. /\ Shape /\ Watched /\ LockIsSaved /\ Mappings /\ IsConfig(cfg)
      /\ seen \in Histories
  BY Parts
<1>2. ASSUME NEW v, Change([cfg EXCEPT !.hw_reset = v], live, [seen EXCEPT !.moved = TRUE])
      PROVE  IInv'
  <2>1. /\ cfg' = [cfg EXCEPT !.hw_reset = v] /\ live' = live
        /\ seen' = [seen EXCEPT !.moved = TRUE] /\ UNCHANGED <<up, rom, excuse>>
    BY <1>2 DEF Change
  <2>2. /\ DOMAIN cfg' = Keys
        /\ \A k \in Guarded \ {"hw_reset"} : cfg'[k] = cfg[k]
    BY <1>1, <2>1, GuardedAreKeys DEF IsConfig
  <2>3. /\ cfg'.locked = cfg.locked /\ cfg'.ap_on = cfg.ap_on
        /\ cfg'.automesh = cfg.automesh /\ cfg'.ap_watchdog = cfg.ap_watchdog
        /\ cfg'.client_watchdog = cfg.client_watchdog
        /\ cfg'.max_portmap = cfg.max_portmap /\ cfg'.routes = cfg.routes
        /\ cfg'.acl = cfg.acl
    BY <2>2 DEF Guarded
  <2>4. IsConfig(cfg')
    BY <1>1, <2>2, <2>3 DEF IsConfig
  <2>5. /\ seen' \in Histories /\ seen'.ap = seen.ap /\ seen'.client = seen.client
        /\ seen'.moved = TRUE
    BY <1>1, <2>1 DEF Histories
  <2>6. Shape'
    BY <1>1, <2>1, <2>4, <2>5 DEF Shape, IsConfig, IsRom
  <2>7. Watched' /\ LockIsSaved' /\ Mappings'
    BY <1>1, <2>1, <2>3, <2>5 DEF Watched, LockIsSaved, Mappings, Whole
  <2>8. Sampled'
    BY <2>5 DEF Sampled
  <2>9. QED
    BY <2>6, <2>7, <2>8 DEF IInv
<1>3. CASE Plain({"speed", "status_led", "country"})
  BY <1>3, PlainNames, PlainKeeps
<1>4. QED
  BY <1>2, <1>3 DEF SetHardware

LEMMA SetPhyModeKeeps ==
  ASSUME IInv, up, left' \in 0..MaxCmds, SetPhyMode
  PROVE  IInv'
<1>1. PICK v : LET c == Collect([cfg EXCEPT !.phy_mode = v], live)
               IN  Persist(<<PutConfig(c)>>, c, live)
  BY DEF SetPhyMode
<1> DEFINE d == [cfg EXCEPT !.phy_mode = v]
           c == Collect(d, live)
<1>2. IsConfig(d) /\ Tame(cfg, d)
  BY Parts, PlainNames, PlainSetting
<1> HIDE DEF d
<1>3. IsConfig(c) /\ Tame(d, c)
  BY <1>2, Parts, CollectTame
<1>4. Persist(<<PutConfig(c)>>, c, live)
  BY <1>1 DEF d
<1> HIDE DEF c
<1>5. QED
  BY <1>2, <1>3, <1>4, PersistOneKeeps DEF Tame

LEMMA SetNaptKeeps ==
  ASSUME IInv, left' \in 0..MaxCmds, SetNapt
  PROVE  IInv'
<1>1. ASSUME NEW v \in Arguments("max_portmap"), Change(cfg, [live EXCEPT !.newmap = v], seen)
      PROVE  IInv'
  <2>1. v \in 0..MaxTable
    BY DeviceAssumption DEF Arguments
  <2>2. live \in Lives
    BY Parts
  <2> DEFINE l == [live EXCEPT !.newmap = v]
  <2>3. /\ l \in Lives /\ l.ap = live.ap /\ l.client = live.client /\ l.low = live.low
        /\ l.toggle = live.toggle /\ l.table = live.table
    BY <2>1, <2>2 DEF Lives
  <2>4. QED
    BY <1>1, <2>3, LiveKeeps
<1>2. CASE Plain(Napt \ {"max_portmap"})
  BY <1>2, PlainNames, PlainKeeps
<1>3. QED
  BY <1>1, <1>2 DEF SetNapt

LEMMA SetMqttKeeps ==
  ASSUME IInv, left' \in 0..MaxCmds, SetMqtt
  PROVE  IInv'
<1>1. ASSUME NEW v, Setting([cfg EXCEPT !.mqtt_qos = v]) PROVE IInv'
  <2>1. "mqtt_qos" \in Keys \ Guarded
    BY PlainNames DEF Mqtt
  <2>2. QED
    BY <1>1, <2>1, Parts, PlainSetting, SettingKeeps
<1>2. CASE Plain(Mqtt \ {"mqtt_qos"})
  BY <1>2, PlainNames, PlainKeeps
<1>3. QED
  BY <1>1, <1>2 DEF SetMqtt

LEMMA SpendLeft ==
  ASSUME IInv, Spend
  PROVE  up /\ left' \in 0..MaxCmds
BY Parts, DeviceAssumption DEF Spend

LEMMA SetKeeps ==
  ASSUME IInv, Set
  PROVE  IInv'
<1>1. up /\ left' \in 0..MaxCmds
  BY SpendLeft DEF Set
<1>2. CASE SetMisc
  BY <1>1, <1>2, PlainNames, PlainKeeps DEF SetMisc
<1>3. CASE SetServices
  BY <1>1, <1>3, PlainNames, PlainKeeps DEF SetServices
<1>4. CASE SetRates
  BY <1>1, <1>4, PlainNames, PlainKeeps DEF SetRates
<1>5. CASE SetAddress
  BY <1>1, <1>5, PlainNames, PlainKeeps DEF SetAddress
<1>6. CASE SetDhcp
  <2>1. Dhcp \ {"dhcps_entries"} \subseteq Keys \ Guarded
    BY PlainNames
  <2>2. QED
    BY <1>1, <1>6, <2>1, PlainKeeps DEF SetDhcp
<1>7. QED
  BY <1>1, <1>2, <1>3, <1>4, <1>5, <1>6, SetStationKeeps, SetAccessPointKeeps,
     SetAutomeshKeeps, SetWatchdogKeeps, SetApOnKeeps, SetHardwareKeeps,
     SetPhyModeKeeps, SetNaptKeeps, SetMqttKeeps DEF Set

----------------------------------------------------------------------------
(* The other commands.                                                      *)

LEMMA AclCommandKeeps ==
  ASSUME IInv, AclCommand
  PROVE  IInv'
<1>1. left' \in 0..MaxCmds /\ live \in Lives
  BY SpendLeft, Parts DEF AclCommand
<1>2. PICK a \in {0, 1} : Change(cfg, [live EXCEPT !.acl = a], seen)
  BY DEF AclCommand
<1> DEFINE l == [live EXCEPT !.acl = a]
<1>3. /\ l \in Lives /\ l.ap = live.ap /\ l.client = live.client /\ l.low = live.low
      /\ l.toggle = live.toggle /\ l.table = live.table
  BY <1>1 DEF Lives
<1>4. QED
  BY <1>1, <1>2, <1>3, LiveKeeps

LEMMA RouteCommandKeeps ==
  ASSUME IInv, RouteCommand
  PROVE  IInv'
<1>1. left' \in 0..MaxCmds /\ live \in Lives
  BY SpendLeft, Parts DEF RouteCommand
<1>2. PICK rs \in SUBSET Routes : Change(cfg, [live EXCEPT !.routes = rs], seen)
  <2>1. live.routes \in SUBSET Routes
    BY <1>1 DEF Lives
  <2>2. CASE Change(cfg, [live EXCEPT !.routes = {}], seen)
    BY <2>2
  <2>3. ASSUME NEW r \in Routes, Change(cfg, [live EXCEPT !.routes = live.routes \cup {r}], seen)
        PROVE  \E rs \in SUBSET Routes : Change(cfg, [live EXCEPT !.routes = rs], seen)
    BY <2>1, <2>3
  <2>4. ASSUME NEW r \in Routes, Change(cfg, [live EXCEPT !.routes = live.routes \ {r}], seen)
        PROVE  \E rs \in SUBSET Routes : Change(cfg, [live EXCEPT !.routes = rs], seen)
    BY <2>1, <2>4
  <2>5. QED
    BY <2>2, <2>3, <2>4 DEF RouteCommand
<1> DEFINE l == [live EXCEPT !.routes = rs]
<1>3. /\ l \in Lives /\ l.ap = live.ap /\ l.client = live.client /\ l.low = live.low
      /\ l.toggle = live.toggle /\ l.table = live.table
  BY <1>1 DEF Lives
<1>4. QED
  BY <1>1, <1>2, <1>3, LiveKeeps

LEMMA PortmapCommandKeeps ==
  ASSUME IInv, PortmapCommand
  PROVE  IInv'
<1>1. left' \in 0..MaxCmds /\ live \in Lives
  BY SpendLeft, Parts DEF PortmapCommand
<1>2. PICK s \in 1..cfg.max_portmap :
        \/ Change(cfg, [live EXCEPT !.table[s] = Mapped], seen)
        \/ Change(cfg, [live EXCEPT !.table[s] = Free], seen)
  BY DEF PortmapCommand
<1>3. PICK e \in {Free, Mapped} : Change(cfg, [live EXCEPT !.table[s] = e], seen)
  BY <1>2
<1> DEFINE l == [live EXCEPT !.table[s] = e]
<1>4. e \in Entry /\ e # Garbage /\ live.table \in Tables
  BY <1>1 DEF Entry, Free, Mapped, Garbage, Lives
<1>5. l.table \in Tables /\ \A x \in Slots : l.table[x] = live.table[x] \/ l.table[x] = e
  BY <1>1, <1>4 DEF Lives, Tables
<1>6. /\ l \in Lives /\ l.ap = live.ap /\ l.client = live.client /\ l.low = live.low
      /\ l.toggle = live.toggle
  BY <1>1, <1>5 DEF Lives
<1>7. Whole(live.table, cfg.max_portmap) => Whole(l.table, cfg.max_portmap)
  BY <1>4, <1>5 DEF Whole
<1>8. QED
  BY <1>1, <1>3, <1>6, <1>7, LiveKeeps

LEMMA SaveKeeps ==
  ASSUME IInv, Save
  PROVE  IInv'
<1> DEFINE old == cfg.max_portmap
           new == live.newmap
           c == Collect(cfg, live)
           d == [c EXCEPT !.max_portmap = new]
           table == [s \in Slots |-> IF s <= old THEN live.table[s] ELSE Free]
           b == [s \in Slots |-> IF s <= new THEN table[s] ELSE Garbage]
           ops == <<PutBlob(b), PutConfig(d)>>
<1>1. up /\ left' \in 0..MaxCmds /\ live \in Lives /\ IsConfig(cfg) /\ Mappings
  BY SpendLeft, Parts DEF Save
<1>2. new \in 0..MaxTable /\ live.table \in Tables
  BY <1>1 DEF Lives
<1>3. IsConfig(c) /\ Tame(cfg, c)
  BY <1>1, CollectTame
<1>4. Persist(ops, c, live)
  BY DEF Save, Resized, BlobSave
<1>5. b \in Tables
  BY <1>2 DEF Tables, Entry, Free, Garbage
<1>6. excuse = {} => Whole(b, new)
  BY <1>1, <1>2 DEF Mappings, Whole, Free, Garbage
<1> HIDE DEF b, c
<1>7. /\ DOMAIN d = Keys /\ d.max_portmap = new
      /\ \A k \in Guarded \ {"max_portmap"} : d[k] = c[k]
  BY <1>3, GuardedAreKeys DEF IsConfig, Guarded
<1> HIDE DEF d
<1>8. /\ d.locked = c.locked /\ d.ap_on = c.ap_on /\ d.automesh = c.automesh
      /\ d.ap_watchdog = c.ap_watchdog /\ d.client_watchdog = c.client_watchdog
      /\ d.routes = c.routes /\ d.acl = c.acl
  BY <1>7 DEF Guarded
<1>9. IsConfig(d)
  BY <1>2, <1>3, <1>7, <1>8 DEF IsConfig
<1> HIDE DEF new
<1>10. QED
  BY <1>1, <1>3, <1>4, <1>5, <1>6, <1>7, <1>8, <1>9, PersistBothKeeps

LEMMA SaveDhcpKeeps ==
  ASSUME IInv, SaveDhcp
  PROVE  IInv'
<1>1. up /\ left' \in 0..MaxCmds /\ live \in Lives /\ IsConfig(cfg) /\ Mappings
  BY SpendLeft, Parts DEF SaveDhcp
<1>2. PICK n : LET c == Collect([cfg EXCEPT !.dhcps_entries = n], live)
               IN  Persist(<<PutConfig(c), BlobSave(live.table, c.max_portmap)>>, c, live)
  BY DEF SaveDhcp
<1> DEFINE d == [cfg EXCEPT !.dhcps_entries = n]
           c == Collect(d, live)
           b == [s \in Slots |-> IF s <= c.max_portmap THEN live.table[s] ELSE Garbage]
<1>3. "dhcps_entries" \in Keys \ Guarded
  BY PlainNames DEF Dhcp
<1>4. IsConfig(d) /\ Tame(cfg, d)
  BY <1>1, <1>3, PlainSetting
<1>5. Persist(<<PutConfig(c), PutBlob(b)>>, c, live)
  BY <1>2 DEF BlobSave
<1> HIDE DEF d
<1>6. IsConfig(c) /\ Tame(d, c)
  BY <1>1, <1>4, CollectTame
<1> HIDE DEF c
<1>7. Tame(cfg, c)
  BY <1>4, <1>6 DEF Tame
<1>8. live.table \in Tables
  BY <1>1 DEF Lives
<1>9. b \in Tables
  BY <1>8 DEF Tables, Entry, Garbage
<1>10. excuse = {} => Whole(b, c.max_portmap)
  BY <1>1, <1>7 DEF Mappings, Whole, Tame
<1> HIDE DEF b
<1>11. QED
  BY <1>1, <1>5, <1>6, <1>7, <1>9, <1>10, PersistBothKeeps

(* The lock is changed and saved with everything else.                      *)
LEMMA LockedTame ==
  ASSUME NEW c, IsConfig(c), NEW v \in 0..1
  PROVE  LET d == [c EXCEPT !.locked = v] IN
         /\ IsConfig(d) /\ d.ap_watchdog = c.ap_watchdog
         /\ d.client_watchdog = c.client_watchdog
         /\ d.hw_reset = c.hw_reset /\ d.max_portmap = c.max_portmap
<1> DEFINE d == [c EXCEPT !.locked = v]
<1>1. /\ DOMAIN d = Keys /\ d.locked = v
      /\ \A k \in Guarded \ {"locked"} : d[k] = c[k]
  BY GuardedAreKeys DEF IsConfig, Guarded
<1> HIDE DEF d
<1>2. /\ d.ap_on = c.ap_on /\ d.automesh = c.automesh
      /\ d.ap_watchdog = c.ap_watchdog /\ d.client_watchdog = c.client_watchdog
      /\ d.hw_reset = c.hw_reset /\ d.max_portmap = c.max_portmap
      /\ d.routes = c.routes /\ d.acl = c.acl
  BY <1>1 DEF Guarded
<1>3. IsConfig(d)
  BY <1>1, <1>2 DEF IsConfig
<1>4. QED
  BY <1>2, <1>3 DEF d

LEMMA LockKeeps ==
  ASSUME IInv, Lock
  PROVE  IInv'
<1>1. up /\ left' \in 0..MaxCmds /\ live \in Lives /\ IsConfig(cfg)
  BY SpendLeft, Parts DEF Lock
<1>2. PICK pw : LET c == Collect([cfg EXCEPT !.lock_password = pw, !.locked = 1], live)
                IN  Persist(<<PutConfig(c)>>, c, live)
  BY DEF Lock
<1> DEFINE d == [cfg EXCEPT !.lock_password = pw]
           e == [d EXCEPT !.locked = 1]
           c == Collect(e, live)
<1>3. Persist(<<PutConfig(c)>>, c, live)
  BY <1>2
<1>4. IsConfig(d) /\ Tame(cfg, d)
  <2>1. "lock_password" \in Keys \ Guarded
    BY PlainNames DEF Station
  <2>2. QED
    BY <1>1, <2>1, PlainSetting
<1> HIDE DEF d
<1>5. /\ IsConfig(e) /\ e.ap_watchdog = d.ap_watchdog
      /\ e.client_watchdog = d.client_watchdog /\ e.hw_reset = d.hw_reset
      /\ e.max_portmap = d.max_portmap
  <2>1. 1 \in 0..1
    OBVIOUS
  <2>2. QED
    BY <1>4, <2>1, LockedTame
<1> HIDE DEF e
<1>6. IsConfig(c) /\ Tame(e, c)
  BY <1>1, <1>5, CollectTame
<1> HIDE DEF c
<1>7. QED
  BY <1>1, <1>3, <1>4, <1>5, <1>6, PersistOneKeeps DEF Tame

LEMMA UnlockKeeps ==
  ASSUME IInv, Unlock
  PROVE  IInv'
<1> DEFINE d == [cfg EXCEPT !.locked = 0]
           c == Collect(d, live)
<1>1. up /\ left' \in 0..MaxCmds /\ live \in Lives /\ IsConfig(cfg)
  BY SpendLeft, Parts DEF Unlock
<1>2. Persist(<<PutConfig(c)>>, c, live)
  BY DEF Unlock
<1>3. /\ IsConfig(d) /\ d.ap_watchdog = cfg.ap_watchdog
      /\ d.client_watchdog = cfg.client_watchdog /\ d.hw_reset = cfg.hw_reset
      /\ d.max_portmap = cfg.max_portmap
  <2>1. 0 \in 0..1
    OBVIOUS
  <2>2. QED
    BY <1>1, <2>1, LockedTame
<1> HIDE DEF d
<1>4. IsConfig(c) /\ Tame(d, c)
  BY <1>1, <1>3, CollectTame
<1> HIDE DEF c
<1>5. QED
  BY <1>1, <1>2, <1>3, <1>4, PersistOneKeeps DEF Tame

LEMMA ResetKeeps ==
  ASSUME IInv, Reset \/ ResetFactory
  PROVE  IInv'
<1>1. left' \in 0..MaxCmds
  BY SpendLeft DEF Reset, ResetFactory
<1>2. CASE Reset
  BY <1>1, <1>2, Parts, DownKeeps DEF Reset, Mappings
<1>3. CASE ResetFactory
  BY <1>1, <1>3, DefaultFacts, FactoryKeeps DEF ResetFactory
<1>4. QED
  BY <1>2, <1>3

LEMMA SleepCommandKeeps ==
  ASSUME IInv, SleepCommand
  PROVE  IInv'
<1>1. left' \in 0..MaxCmds /\ live \in Lives
  BY SpendLeft, Parts DEF SleepCommand
<1> DEFINE l == [live EXCEPT !.sleep = TRUE]
<1>2. /\ l \in Lives /\ l.ap = live.ap /\ l.client = live.client /\ l.low = live.low
      /\ l.toggle = live.toggle /\ l.table = live.table
  BY <1>1 DEF Lives
<1>3. QED
  BY <1>1, <1>2, LiveKeeps DEF SleepCommand

----------------------------------------------------------------------------
(* The web form.                                                            *)

\* A key may lock and unlock, and change what is only kept.
Near(c, d) ==
  /\ IsConfig(d) /\ d.max_portmap = c.max_portmap /\ d.hw_reset = c.hw_reset
  /\ d.ap_watchdog = c.ap_watchdog /\ d.client_watchdog = c.client_watchdog

LEMMA TameIsNear ==
  ASSUME NEW c, NEW d, IsConfig(d), Tame(c, d)
  PROVE  Near(c, d)
BY DEF Tame, Near

LEMMA KeyNear ==
  ASSUME NEW c, IsConfig(c), NEW k
  PROVE  Near(c, WebKey(c, k))
<1>1. Near(c, c)
  BY DEF Near
<1>2. Off \in 0..1 /\ Learn \in 0..1 /\ 0 \in 0..1 /\ 1 \in 0..1
        /\ "automesh" \in {"automesh", "ap_on"}
  BY DEF Off, Learn
<1>3. /\ {"ap_ssid", "ap_password", "ap_open", "network", "automesh_checked",
          "lock_password"} \subseteq Keys \ Guarded
  BY PlainNames DEF Address, Station
<1>4. \A n \in Keys \ Guarded : \A v : Near(c, [c EXCEPT ![n] = v])
  BY PlainSetting, TameIsNear
<1>5. CASE k.key = "ssid"
  <2> DEFINE d == IF c.locked = 0 THEN SetSsid(c, k.val) ELSE c
  <2>1. IsConfig(d) /\ Tame(c, d)
    BY SsidTame DEF Tame
  <2> HIDE DEF d
  <2>2. IsConfig([d EXCEPT !.automesh = Off]) /\ Tame(d, [d EXCEPT !.automesh = Off])
    BY <1>2, <2>1, ModeSetting
  <2>3. Near(c, [d EXCEPT !.automesh = Off])
    BY <2>1, <2>2 DEF Near, Tame
  <2>4. WebKey(c, k) = [d EXCEPT !.automesh = Off]
    BY <1>5 DEF WebKey, d
  <2>5. QED
    BY <2>3, <2>4
<1>6. CASE k.key = "password"
  <2>1. Near(c, SetPassword(c, k.val))
    BY PasswordTame, TameIsNear
  <2>2. QED
    BY <1>1, <1>6, <2>1 DEF WebKey
<1>7. CASE k.key = "ap_password"
  <2>1. Near(c, [[c EXCEPT !.ap_password = k.val] EXCEPT !.ap_open = 0])
    BY <1>3, PairTame, TameIsNear
  <2>2. QED
    BY <1>1, <1>7, <2>1 DEF WebKey
<1>8. CASE k.key \in {"ap_ssid", "network"}
  <2>1. Near(c, [c EXCEPT ![k.key] = k.val])
    BY <1>3, <1>4, <1>8
  <2>2. QED
    BY <1>1, <1>8, <2>1 DEF WebKey
<1>9. CASE k.key = "am"
  <2>1. Near(c, [[c EXCEPT !.automesh = Learn] EXCEPT !.automesh_checked = 0])
    BY <1>2, <1>3, ModePairTame, TameIsNear
  <2>2. QED
    BY <1>9, <2>1 DEF WebKey
<1>10. CASE k.key = "ap_open"
  <2>1. Near(c, [c EXCEPT !.ap_open = k.val])
    BY <1>3, <1>4
  <2>2. QED
    BY <1>10, <2>1 DEF WebKey
<1>11. CASE k.key = "lock"
  <2> DEFINE d == [c EXCEPT !.lock_password = c.password]
  <2>1. Near(c, d)
    BY <1>3, <1>4
  <2>2. WebKey(c, k) = [d EXCEPT !.locked = 1]
    BY <1>11 DEF WebKey
  <2> HIDE DEF d
  <2>3. IsConfig(d) /\ 1 \in 0..1
    BY <2>1 DEF Near
  <2>4. Near(d, [d EXCEPT !.locked = 1])
    BY <2>3, LockedTame DEF Near
  <2>5. QED
    BY <2>1, <2>2, <2>4 DEF Near
<1>12. CASE k.key = "unlock_password"
  <2>1. Near(c, [c EXCEPT !.locked = 0])
    BY <1>2, LockedTame DEF Near
  <2>2. QED
    BY <1>1, <1>12, <2>1 DEF WebKey
<1>13. CASE k.key \notin {"ssid", "password", "ap_password", "ap_ssid", "network", "am",
                          "ap_open", "lock", "unlock_password"}
  BY <1>1, <1>13 DEF WebKey
<1>14. QED
  BY <1>5, <1>6, <1>7, <1>8, <1>9, <1>10, <1>11, <1>12, <1>13

(* Every inhabited set of numbers has a least one.                          *)
LEMMA LeastNumber ==
  ASSUME NEW T \in SUBSET Nat, T # {}
  PROVE  \E n \in T : \A m \in T : ~(m < n)
<1> DEFINE R == {ss \in Nat \X Nat : ss[1] < ss[2]}
<1>1. IsWellFoundedOn(R, Nat)
  BY NatLessThanWellFounded DEF OpToRel
<1> HIDE DEF R
<1>2. PICK n \in T : \A m \in T : ~(<<m, n>> \in R)
  BY <1>1, WFMin
<1>3. \A m \in T : ~(m < n)
  BY <1>2 DEF R
<1>4. QED
  BY <1>3

\* f is the configuration after each of the first n keys.
FormUpTo(f, c, q, n) ==
  f = [i \in 0..n |-> IF i = 0 THEN c ELSE WebKey(f[i - 1], q[i])]

(* The recursion of Form has a solution.                                    *)
LEMMA FormExists ==
  ASSUME NEW c, NEW q
  PROVE  \A n \in Nat : \E f : FormUpTo(f, c, q, n)
<1> DEFINE T == {n \in Nat : ~ \E f : FormUpTo(f, c, q, n)}
<1> SUFFICES ASSUME T # {} PROVE FALSE
  OBVIOUS
<1>1. PICK n \in T : \A m \in T : ~(m < n)
  BY LeastNumber
<1>2. n \in Nat
  OBVIOUS
<1>3. CASE n = 0
  <2> DEFINE f == [i \in 0..0 |-> c]
  <2>1. FormUpTo(f, c, q, 0)
    BY DEF FormUpTo
  <2>2. QED
    BY <1>1, <1>3, <2>1
<1>4. CASE n > 0
  <2>1. n - 1 \in Nat /\ n - 1 \notin T
    BY <1>1, <1>2, <1>4
  <2>2. PICK f : FormUpTo(f, c, q, n - 1)
    BY <2>1
  <2> DEFINE g == [i \in 0..n |-> IF i = n THEN WebKey(f[n - 1], q[n]) ELSE f[i]]
             h == [i \in 0..n |-> IF i = 0 THEN c ELSE WebKey(g[i - 1], q[i])]
  <2>3. \A i \in 0..(n - 1) : f[i] = IF i = 0 THEN c ELSE WebKey(f[i - 1], q[i])
    BY <2>2 DEF FormUpTo
  <2>4. \A i \in 0..(n - 1) : g[i] = f[i]
    BY <1>2
  <2>5. g[n] = WebKey(f[n - 1], q[n])
    BY <1>2
  <2>6. \A i \in 0..n : g[i] = IF i = 0 THEN c ELSE WebKey(g[i - 1], q[i])
    <3> SUFFICES ASSUME NEW i \in 0..n
                 PROVE  g[i] = IF i = 0 THEN c ELSE WebKey(g[i - 1], q[i])
      OBVIOUS
    <3> HIDE DEF g, h
    <3>1. CASE i = n
      <4>1. n - 1 \in 0..(n - 1)
        BY <2>1
      <4>2. QED
        BY <1>4, <2>4, <2>5, <3>1, <4>1
    <3>2. CASE i # n
      <4>1. i \in 0..(n - 1) /\ (i # 0 => i - 1 \in 0..(n - 1))
        BY <1>2, <3>2
      <4>2. QED
        BY <2>3, <2>4, <4>1
    <3>3. QED
      BY <3>1, <3>2
  <2>7. g = h
    BY <2>6
  <2>8. FormUpTo(g, c, q, n)
    BY <2>7 DEF FormUpTo
  <2>9. QED
    BY <1>1, <2>8
<1>5. QED
  BY <1>2, <1>3, <1>4

(* After any keys, in any order, the configuration is near the old one.     *)
LEMMA FormNear ==
  ASSUME NEW c, IsConfig(c), NEW q, Len(q) \in Nat
  PROVE  Near(c, Form(c, q))
<1> DEFINE n == Len(q)
           form == CHOOSE f : FormUpTo(f, c, q, n)
<1>1. FormUpTo(form, c, q, n)
  BY FormExists
<1>2. Form(c, q) = form[n]
  BY DEF Form, FormUpTo
<1> HIDE DEF form
<1>3. \A i \in 0..n : form[i] = IF i = 0 THEN c ELSE WebKey(form[i - 1], q[i])
  BY <1>1 DEF FormUpTo
<1> DEFINE T == {i \in 0..n : ~Near(c, form[i])}
<1>4. T = {}
  <2> SUFFICES ASSUME T # {} PROVE FALSE
    OBVIOUS
  <2>1. PICK i \in T : \A j \in T : ~(j < i)
    <3>1. T \in SUBSET Nat
      OBVIOUS
    <3> HIDE DEF T
    <3>2. QED
      BY <3>1, LeastNumber
  <2>2. i \in 0..n /\ ~Near(c, form[i])
    OBVIOUS
  <2>3. i # 0
    BY <1>3, <2>2 DEF Near
  <2>4. i - 1 \in 0..n /\ i - 1 < i
    BY <2>2, <2>3
  <2>5. Near(c, form[i - 1])
    BY <2>1, <2>4
  <2>6. form[i] = WebKey(form[i - 1], q[i])
    BY <1>3, <2>2, <2>3
  <2>7. Near(form[i - 1], form[i])
    BY <2>5, <2>6, KeyNear DEF Near
  <2>8. Near(c, form[i])
    BY <2>5, <2>7 DEF Near
  <2>9. QED
    BY <2>2, <2>8
<1>5. n \in 0..n
  OBVIOUS
<1>6. QED
  BY <1>2, <1>4, <1>5

LEMMA WebKeeps ==
  ASSUME IInv, Web
  PROVE  IInv'
<1>1. up /\ left' \in 0..MaxCmds /\ live \in Lives /\ IsConfig(cfg)
  BY SpendLeft, Parts DEF Web
<1>2. PICK q \in Requests :
        LET c == Collect(Form(cfg, q), live)
        IN  PersistAndRestart(<<PutConfig(c)>>) \/ Persist(<<PutConfig(c)>>, c, live)
  BY DEF Web
<1> DEFINE d == Form(cfg, q)
           c == Collect(d, live)
<1>3. Near(cfg, d)
  BY <1>1, DeviceAssumption, FormNear
<1> HIDE DEF d
<1>4. IsConfig(c) /\ Tame(d, c)
  BY <1>1, <1>3, CollectTame DEF Near
<1>5. PersistAndRestart(<<PutConfig(c)>>) \/ Persist(<<PutConfig(c)>>, c, live)
  BY <1>2 DEF d
<1> HIDE DEF c
<1>6. CASE PersistAndRestart(<<PutConfig(c)>>)
  BY <1>1, <1>4, <1>6, RestartOneKeeps
<1>7. CASE Persist(<<PutConfig(c)>>, c, live)
  BY <1>1, <1>3, <1>4, <1>7, PersistOneKeeps DEF Near, Tame
<1>8. QED
  BY <1>5, <1>6, <1>7

----------------------------------------------------------------------------
(* Packets and the timer.                                                   *)

LEMMA PacketKeeps ==
  ASSUME IInv, FromUplink \/ FromClient
  PROVE  IInv'
<1>1. /\ Shape /\ Watched /\ LockIsSaved /\ Mappings /\ Sampled /\ IsConfig(cfg)
      /\ live \in Lives /\ seen \in Histories
  BY Parts
<1>2. /\ UNCHANGED <<up, cfg, rom, excuse, left>>
      /\ \/ /\ live' = [live EXCEPT !.ap = cfg.ap_watchdog]
            /\ seen' = [seen EXCEPT !.ap = 0]
         \/ /\ live' = [live EXCEPT !.client = cfg.client_watchdog]
            /\ seen' = [seen EXCEPT !.client = 0]
  BY DEF FromUplink, FromClient
<1>3. /\ live' \in Lives /\ live'.table = live.table /\ live'.low = live.low
      /\ live'.toggle = live.toggle
  BY <1>1, <1>2 DEF Lives, IsConfig
<1>4. seen' \in Histories /\ seen'.held = seen.held /\ seen'.moved = seen.moved
  BY <1>1, <1>2 DEF Histories
<1>5. Shape'
  BY <1>1, <1>2, <1>3, <1>4 DEF Shape, IsConfig, IsRom
<1>6. Watched'
  BY <1>1, <1>2 DEF Watched, Counts, Lives, Histories, IsConfig
<1>7. LockIsSaved' /\ Mappings'
  BY <1>1, <1>2, <1>3 DEF LockIsSaved, Mappings, Whole
<1>8. Sampled'
  BY <1>1, <1>2, <1>3, <1>4 DEF Sampled, Armed
<1>9. QED
  BY <1>5, <1>6, <1>7, <1>8 DEF IInv

(* A second less, of a watchdog that does not bark.                         *)
LEMMA CountsDown ==
  ASSUME NEW n \in Int, NEW m \in Nat, NEW time \in Int, Counts(n, m, time), n # 0
  PROVE  /\ Counts(Starve(n), Count(m, n), time)
         /\ Starve(n) \in Int /\ Count(m, n) \in Nat
BY DEF Counts, Starve, Count

\* Both watchdogs after a tick, whatever happens to the pin.
LEMMA TickWatched ==
  ASSUME IInv, ~Barking, cfg' = cfg,
         live'.ap = Ticked.ap, live'.client = Ticked.client,
         seen'.ap = Passed.ap, seen'.client = Passed.client
  PROVE  /\ Watched' /\ live'.ap \in Int /\ live'.client \in Int
         /\ seen'.ap \in Nat /\ seen'.client \in Nat
<1>1. /\ Watched /\ live \in Lives /\ seen \in Histories /\ IsConfig(cfg)
  BY Parts
<1>2. /\ live.ap \in Int /\ live.client \in Int /\ seen.ap \in Nat /\ seen.client \in Nat
      /\ cfg.ap_watchdog \in Int /\ cfg.client_watchdog \in Int
      /\ live.toggle \in BOOLEAN
  BY <1>1 DEF Lives, Histories, IsConfig
<1>3. CASE live.toggle
  <2>1. /\ live'.ap = live.ap /\ live'.client = live.client
        /\ seen'.ap = seen.ap /\ seen'.client = seen.client
    BY <1>1, <1>3 DEF Ticked, Passed, Lives
  <2>2. QED
    BY <1>1, <1>2, <2>1 DEF Watched
<1>4. CASE ~live.toggle
  <2>1. live.ap # 0 /\ live.client # 0
    BY <1>4 DEF Barking
  <2>2. /\ live'.ap = Starve(live.ap) /\ live'.client = Starve(live.client)
        /\ seen'.ap = Count(seen.ap, live.ap) /\ seen'.client = Count(seen.client, live.client)
    BY <1>1, <1>4 DEF Ticked, Passed, Lives, Histories
  <2>3. /\ Counts(Starve(live.ap), Count(seen.ap, live.ap), cfg.ap_watchdog)
        /\ Counts(Starve(live.client), Count(seen.client, live.client), cfg.client_watchdog)
        /\ Starve(live.ap) \in Int /\ Count(seen.ap, live.ap) \in Nat
        /\ Starve(live.client) \in Int /\ Count(seen.client, live.client) \in Nat
    BY <1>1, <1>2, <2>1, CountsDown DEF Watched
  <2>4. QED
    BY <2>2, <2>3 DEF Watched
<1>5. QED
  BY <1>2, <1>3, <1>4

\* The records after a tick, with the counters and the low samples given.
Live(a, b, d, n) ==
  [routes |-> live.routes, acl |-> live.acl, table |-> live.table,
   newmap |-> live.newmap, ap |-> a, client |-> b, opmode |-> live.opmode,
   do_ip |-> d, toggle |-> ~live.toggle, low |-> n, sleep |-> live.sleep,
   console |-> live.console, web |-> live.web]
History(x, y, h, m) == [ap |-> x, client |-> y, held |-> h, moved |-> m]

LEMMA TickParts ==
  ASSUME IInv
  PROVE  \E a, b, x, y : /\ Ticked = Live(a, b, live.do_ip, live.low)
                         /\ Passed = History(x, y, seen.held, seen.moved)
<1> DEFINE t == ~live.toggle
           a == IF t THEN Starve(live.ap) ELSE live.ap
           b == IF t THEN Starve(live.client) ELSE live.client
           x == IF live.toggle THEN seen.ap ELSE Count(seen.ap, live.ap)
           y == IF live.toggle THEN seen.client ELSE Count(seen.client, live.client)
<1>1. live = [routes |-> live.routes, acl |-> live.acl, table |-> live.table,
              newmap |-> live.newmap, ap |-> live.ap, client |-> live.client,
              opmode |-> live.opmode, do_ip |-> live.do_ip, toggle |-> live.toggle,
              low |-> live.low, sleep |-> live.sleep, console |-> live.console,
              web |-> live.web]
  BY Parts DEF Lives
<1>2. seen = [ap |-> seen.ap, client |-> seen.client, held |-> seen.held,
              moved |-> seen.moved]
  BY Parts DEF Histories
<1>3. Ticked = [live EXCEPT !.toggle = t, !.ap = a, !.client = b]
  BY DEF Ticked
<1>4. Passed = IF live.toggle THEN seen ELSE [seen EXCEPT !.ap = Count(seen.ap, live.ap),
                                                         !.client = Count(seen.client, live.client)]
  BY DEF Passed
<1>5. Passed = History(x, y, seen.held, seen.moved)
  BY <1>2, <1>4 DEF History
<1> HIDE DEF a, b
<1>6. Ticked = Live(a, b, live.do_ip, live.low)
  BY <1>1, <1>3 DEF Live
<1>7. QED
  BY <1>5, <1>6

LEMMA TickHighKeeps ==
  ASSUME IInv, TickHigh
  PROVE  IInv'
<1> DEFINE n == IF Armed THEN 0 ELSE live.low
<1>1. /\ Shape /\ LockIsSaved /\ Mappings /\ Sampled /\ live \in Lives
      /\ seen \in Histories
  BY Parts
<1>2. up /\ ~Barking /\ UNCHANGED <<up, cfg, rom, excuse, left>>
  BY DEF TickHigh
<1>3. PICK a, b, x, y : /\ Ticked = Live(a, b, live.do_ip, live.low)
                        /\ Passed = History(x, y, seen.held, seen.moved)
  BY TickParts
<1>4. live' = Live(a, b, FALSE, n)
  <2>1. live' = [Ticked EXCEPT !.do_ip = FALSE, !.low = IF Armed THEN 0 ELSE Ticked.low]
    BY DEF TickHigh
  <2>2. QED
    BY <1>3, <2>1 DEF Live
<1>5. seen' = IF Armed THEN History(x, y, 0, FALSE)
              ELSE History(x, y, seen.held, seen.moved)
  <2>1. seen' = IF Armed THEN [Passed EXCEPT !.held = 0, !.moved = FALSE] ELSE Passed
    BY DEF TickHigh
  <2>2. CASE Armed
    <3>1. seen' = [History(x, y, seen.held, seen.moved) EXCEPT !.held = 0, !.moved = FALSE]
      BY <1>3, <2>1, <2>2
    <3>2. seen' = History(x, y, 0, FALSE)
      BY <3>1 DEF History
    <3>3. QED
      BY <2>2, <3>2
  <2>3. CASE ~Armed
    BY <1>3, <2>1, <2>3 DEF History
  <2>4. QED
    BY <2>2, <2>3
<1>6. /\ live'.ap = a /\ live'.client = b /\ live'.table = live.table /\ live'.low = n
      /\ Ticked.ap = a /\ Ticked.client = b /\ Passed.ap = x /\ Passed.client = y
      /\ seen'.ap = x /\ seen'.client = y
  BY <1>3, <1>4, <1>5 DEF Live, History
<1>7. Watched' /\ a \in Int /\ b \in Int /\ x \in Nat /\ y \in Nat
  BY <1>2, <1>6, TickWatched
<1>8. n \in 0..HoldTicks
  BY <1>1, DeviceAssumption DEF Lives
<1> HIDE DEF n
<1>9. live' \in Lives
  BY <1>1, <1>4, <1>7, <1>8 DEF Lives, Live
<1>10. seen' \in Histories
  BY <1>1, <1>5, <1>7 DEF Histories, History
<1>11. Shape'
  BY <1>1, <1>2, <1>9, <1>10 DEF Shape, IsConfig, IsRom
<1>12. LockIsSaved' /\ Mappings'
  BY <1>1, <1>2, <1>6 DEF LockIsSaved, Mappings, Whole
<1>13. Sampled'
  <2>1. CASE Armed
    BY <1>6, <2>1 DEF Sampled, n
  <2>2. CASE ~Armed
    <3>1. seen'.moved = seen.moved /\ live'.low = live.low
      BY <1>5, <1>6, <2>2 DEF History, n
    <3>2. seen.moved \/ ~(live.low > 0)
      BY <1>1, <2>2 DEF Sampled
    <3>3. QED
      BY <3>1, <3>2 DEF Sampled
  <2>3. QED
    BY <2>1, <2>2
<1>14. QED
  BY <1>7, <1>11, <1>12, <1>13 DEF IInv

(* One more low sample spans one more period.                               *)
LEMMA OneMoreSample ==
  ASSUME NEW low \in Nat, NEW held \in Nat, NEW toggle \in BOOLEAN, low + 1 <= HoldTicks,
         low > 0 => Spans(low, held, toggle)
  PROVE  Spans(low + 1, IF low = 0 THEN 0 ELSE held + Period(toggle), ~toggle)
<1>1. HoldTicks \in Nat /\ Period(toggle) \in Nat /\ Period(~toggle) \in Nat
        /\ Period(toggle) + Period(~toggle) = 1000 /\ ~~toggle = toggle
  BY DeviceAssumption DEF Period
<1>2. CASE low = 0
  <2>1. low + 1 = 2 * 0 + 1 /\ 0 = 1000 * 0 /\ 0 \in 0..HoldTicks
    BY <1>1, <1>2
  <2>2. QED
    BY <1>2, <2>1 DEF Spans
<1>3. CASE low > 0
  <2>1. PICK j \in 0..HoldTicks :
          \/ low = 2 * j + 1 /\ held = 1000 * j
          \/ low = 2 * j + 2 /\ held = 1000 * j + Period(~toggle)
    BY <1>3 DEF Spans
  <2>2. CASE low = 2 * j + 1 /\ held = 1000 * j
    <3>1. low + 1 = 2 * j + 2 /\ held + Period(toggle) = 1000 * j + Period(~~toggle)
      BY <1>1, <2>2
    <3>2. QED
      BY <1>3, <3>1 DEF Spans
  <2>3. CASE low = 2 * j + 2 /\ held = 1000 * j + Period(~toggle)
    <3>1. j + 1 \in 0..HoldTicks /\ low + 1 = 2 * (j + 1) + 1
      BY <1>1, <2>3
    <3>2. held + Period(toggle) = 1000 * (j + 1)
      <4>1. held + Period(toggle) = 1000 * j + (Period(toggle) + Period(~toggle))
        BY <1>1, <2>3
      <4>2. QED
        BY <1>1, <4>1
    <3>3. QED
      BY <1>3, <3>1, <3>2 DEF Spans
  <2>4. QED
    BY <2>1, <2>2, <2>3
<1>4. QED
  BY <1>2, <1>3

LEMMA TickLowKeeps ==
  ASSUME IInv, TickLow
  PROVE  IInv'
<1> DEFINE n == live.low + 1
           h == IF live.low = 0 THEN 0 ELSE seen.held + Period(live.toggle)
<1>1. /\ Shape /\ LockIsSaved /\ Mappings /\ Sampled /\ live \in Lives
      /\ seen \in Histories
  BY Parts
<1>2. up /\ ~Barking /\ Armed /\ ~LongEnough(n) /\ UNCHANGED <<up, cfg, rom, excuse, left>>
  BY DEF TickLow
<1>3. /\ live.low \in Nat /\ live.toggle \in BOOLEAN /\ seen.held \in Nat
      /\ HoldTicks \in Nat /\ Period(live.toggle) \in Nat
  BY <1>1, DeviceAssumption DEF Lives, Histories, Period
<1>4. n \in 0..HoldTicks /\ h \in Nat
  BY <1>2, <1>3 DEF LongEnough
<1>5. PICK a, b, x, y : /\ Ticked = Live(a, b, live.do_ip, live.low)
                        /\ Passed = History(x, y, seen.held, seen.moved)
  BY TickParts
<1>6. live' = Live(a, b, FALSE, n)
  <2>1. live' = [Ticked EXCEPT !.do_ip = FALSE, !.low = Ticked.low + 1]
    BY DEF TickLow
  <2>2. QED
    BY <1>5, <2>1 DEF Live
<1>7. seen' = History(x, y, h, seen.moved)
  <2>1. seen' = [Passed EXCEPT !.held = IF live.low = 0 THEN 0
                                        ELSE Passed.held + Period(live.toggle)]
    BY DEF TickLow
  <2>2. QED
    BY <1>5, <2>1 DEF History
<1> HIDE DEF n, h
<1>8. /\ live'.ap = a /\ live'.client = b /\ live'.table = live.table /\ live'.low = n
      /\ live'.toggle = ~live.toggle
      /\ Ticked.ap = a /\ Ticked.client = b /\ Passed.ap = x /\ Passed.client = y
      /\ seen'.ap = x /\ seen'.client = y /\ seen'.held = h /\ seen'.moved = seen.moved
  BY <1>5, <1>6, <1>7 DEF Live, History
<1>9. Watched' /\ a \in Int /\ b \in Int /\ x \in Nat /\ y \in Nat
  BY <1>2, <1>8, TickWatched
<1>10. live' \in Lives
  BY <1>1, <1>4, <1>6, <1>9 DEF Lives, Live
<1>11. seen' \in Histories
  BY <1>1, <1>4, <1>7, <1>9 DEF Histories, History
<1>12. Shape'
  BY <1>1, <1>2, <1>10, <1>11 DEF Shape, IsConfig, IsRom
<1>13. LockIsSaved' /\ Mappings'
  BY <1>1, <1>2, <1>8 DEF LockIsSaved, Mappings, Whole
<1>14. Sampled'
  <2> SUFFICES ASSUME ~seen.moved
               PROVE  Armed' /\ Spans(n, h, ~live.toggle)
    BY <1>8 DEF Sampled
  <2>1. live.low > 0 => Spans(live.low, seen.held, live.toggle)
    BY <1>1 DEF Sampled
  <2>2. live.low + 1 <= HoldTicks
    BY <1>3, <1>4 DEF n
  <2>3. Spans(n, h, ~live.toggle)
    BY <1>3, <2>1, <2>2, OneMoreSample DEF n, h
  <2>4. QED
    BY <1>2, <2>3 DEF Armed
<1>15. QED
  BY <1>9, <1>12, <1>13, <1>14 DEF IInv

LEMMA PinResetKeeps ==
  ASSUME IInv, PinReset
  PROVE  IInv'
<1> DEFINE c == [Default EXCEPT !.hw_reset = cfg.hw_reset]
<1>1. left' \in 0..MaxCmds
  BY Parts DEF PinReset
<1>2. /\ DOMAIN c = Keys
      /\ \A k \in Guarded \ {"hw_reset"} : c[k] = Default[k]
  BY DefaultFacts, GuardedAreKeys DEF IsConfig
<1>3. Factory(c)
  BY DEF PinReset
<1> HIDE DEF c
<1>4. /\ c.locked = Default.locked /\ c.ap_on = Default.ap_on
      /\ c.automesh = Default.automesh /\ c.ap_watchdog = Default.ap_watchdog
      /\ c.client_watchdog = Default.client_watchdog
      /\ c.max_portmap = Default.max_portmap /\ c.routes = Default.routes
      /\ c.acl = Default.acl
  BY <1>2 DEF Guarded
<1>5. IsConfig(c)
  BY <1>2, <1>4, DefaultFacts DEF IsConfig
<1>6. QED
  BY <1>1, <1>3, <1>5, FactoryKeeps

(* The steps that only lose RAM.                                            *)
LEMMA GoesDownKeeps ==
  ASSUME IInv, Bark \/ LowBattery \/ SleepTimer \/ PowerOff \/ OtherFirmware
  PROVE  IInv'
<1>1. Mappings /\ IsRom(rom) /\ left \in 0..MaxCmds /\ excuse \subseteq {"size", "power"}
  BY Parts
<1>2. CASE Down /\ UNCHANGED <<rom, excuse, left>>
  BY <1>1, <1>2, DownKeeps DEF Mappings
<1>3. CASE OtherFirmware
  <2>1. left' \in 0..MaxCmds
    BY <1>1, <1>3, DeviceAssumption DEF OtherFirmware
  <2>2. /\ rom' = [magic |-> "other", cfg |-> rom.cfg, blob |-> rom.blob]
        /\ Down /\ excuse' = excuse
    BY <1>1, <1>3 DEF OtherFirmware, IsRom
  <2>3. rom'.magic = "other" /\ rom'.cfg = rom.cfg /\ rom'.blob = rom.blob
    BY <2>2
  <2>4. IsRom(rom')
    BY <1>1, <2>2, <2>3 DEF IsRom
  <2>5. QED
    BY <1>1, <2>1, <2>2, <2>3, <2>4, DownKeeps
<1>4. QED
  BY <1>2, <1>3 DEF Bark, LowBattery, SleepTimer, PowerOff

----------------------------------------------------------------------------
(* The start.                                                               *)

LEMMA MeshedTame ==
  ASSUME NEW c, IsConfig(c)
  PROVE  IsConfig(Meshed(c)) /\ Tame(c, Meshed(c)) /\ Meshed(Default) = Default
<1> DEFINE d == Meshed(c)
<1>1. DOMAIN d = Keys
  BY DEF Meshed, IsConfig
<1>2. \A k \in Guarded \ {"ap_on"} : d[k] = c[k]
  <2>1. \A k \in Guarded \ {"ap_on"} :
           k \notin {"ap_ssid", "ap_password", "ap_on", "auto_connect", "ap_open"}
    BY DEF Guarded
  <2>2. QED
    BY <2>1, GuardedAreKeys DEF Meshed, IsConfig
<1>3. d.ap_on \in 0..1
  BY GuardedAreKeys DEF Meshed, IsConfig, Guarded
<1> HIDE DEF d
<1>4. /\ d.locked = c.locked /\ d.automesh = c.automesh
      /\ d.ap_watchdog = c.ap_watchdog /\ d.client_watchdog = c.client_watchdog
      /\ d.hw_reset = c.hw_reset /\ d.max_portmap = c.max_portmap
      /\ d.routes = c.routes /\ d.acl = c.acl
  BY <1>2 DEF Guarded
<1>5. IsConfig(d) /\ Tame(c, d)
  BY <1>1, <1>3, <1>4 DEF IsConfig, Tame
<1>6. QED
  BY <1>5, DefaultFacts DEF d, Meshed

LEMMA NoLiveTyped == NoLive \in Lives /\ NoLive.low = 0
<1>1. Zeros(0) \in Tables
  BY BlankTyped
<1>2. 0 \in 0..MaxTable /\ 0 \in 0..HoldTicks
  BY DeviceAssumption
<1>3. QED
  BY <1>1, <1>2 DEF NoLive, Lives

LEMMA StartedFacts ==
  ASSUME NEW c, IsConfig(c), NEW table \in Tables, NEW routes \in SUBSET Routes,
         NEW acl \in 0..1
  PROVE  LET l == Started(c, table, routes, acl) IN
         /\ l \in Lives /\ l.table = table /\ l.low = 0 /\ l.ap = c.ap_watchdog
         /\ l.client = c.client_watchdog
<1> DEFINE m == Meshed(c)
           p == [NoLive EXCEPT !.routes = routes, !.acl = acl, !.table = table,
                               !.newmap = c.max_portmap, !.ap = c.ap_watchdog,
                               !.client = c.client_watchdog]
           i == Interfaces(m, p)
           l == Servers(m, i)
<1>1. l = Started(c, table, routes, acl)
  BY DEF Started
<1>2. p \in Lives /\ p.table = table /\ p.low = 0 /\ p.ap = c.ap_watchdog
        /\ p.client = c.client_watchdog
  <2> DEFINE n == NoLive
             ap == c.ap_watchdog
             client == c.client_watchdog
             new == c.max_portmap
             kept == [n EXCEPT !.routes = routes, !.acl = acl, !.table = table]
  <2>1. p = [[[kept EXCEPT !.newmap = new] EXCEPT !.ap = ap] EXCEPT !.client = client]
    <3>1. kept = [[[NoLive EXCEPT !.routes = routes] EXCEPT !.acl = acl]
                    EXCEPT !.table = table]
      OBVIOUS
    <3>2. p = [[[[[[NoLive EXCEPT !.routes = routes] EXCEPT !.acl = acl]
                    EXCEPT !.table = table] EXCEPT !.newmap = new] EXCEPT !.ap = ap]
                EXCEPT !.client = client]
      OBVIOUS
    <3> HIDE DEF kept, p
    <3>3. QED
      BY <3>1, <3>2
  <2>2. n \in Lives /\ n.low = 0
    BY NoLiveTyped
  <2>3. new \in 0..MaxTable /\ ap \in Int /\ client \in Int
    BY DEF IsConfig
  <2> HIDE DEF n, p, ap, client, new
  <2>4. kept \in Lives /\ kept.table = table /\ kept.low = 0
    BY <2>2 DEF Lives
  <2> HIDE DEF kept
  <2>5. p \in Lives /\ p.table = table /\ p.low = 0 /\ p.ap = ap /\ p.client = client
    BY <2>1, <2>3, <2>4 DEF Lives
  <2>6. QED
    BY <2>5 DEF ap, client
<1> HIDE DEF m, p
<1>3. i \in Lives /\ i.table = p.table /\ i.low = p.low /\ i.ap = p.ap /\ i.client = p.client
  BY <1>2 DEF Interfaces, Lives
<1> HIDE DEF i
<1>4. l \in Lives /\ l.table = i.table /\ l.low = i.low /\ l.ap = i.ap /\ l.client = i.client
  <2>1. l = [i EXCEPT !.console = m.config_port # 0, !.web = m.web_port # 0]
    BY DEF Servers
  <2>2. (m.config_port # 0) \in BOOLEAN /\ (m.web_port # 0) \in BOOLEAN
    OBVIOUS
  <2>3. QED
    BY <1>3, <2>1, <2>2 DEF Lives
<1> HIDE DEF l
<1>5. QED
  BY <1>1, <1>2, <1>3, <1>4

LEMMA BootLoadedKeeps ==
  ASSUME IInv, BootLoaded
  PROVE  IInv'
<1> DEFINE c == rom.cfg
           table == [s \in Slots |-> IF s <= c.max_portmap THEN rom.blob[s] ELSE Free]
<1>1. /\ Mappings /\ IsRom(rom) /\ left \in 0..MaxCmds /\ excuse \subseteq {"size", "power"}
  BY Parts
<1>2. IsConfig(c) /\ rom.blob \in Tables
  BY <1>1 DEF IsRom
<1>3. /\ rom.magic = "good" /\ cfg' = Meshed(c) /\ up' = TRUE /\ seen' = Unseen
      /\ live' = Started(c, table, c.routes, c.acl) /\ UNCHANGED <<rom, excuse, left>>
  BY DEF BootLoaded
<1>4. table \in Tables
  BY <1>2 DEF Tables, Entry, Free
<1>5. excuse = {} => Whole(table, c.max_portmap)
  BY <1>1, <1>3 DEF Mappings, Whole, Free, Garbage
<1>6. c.routes \in SUBSET Routes /\ c.acl \in 0..1
  BY <1>2 DEF IsConfig
<1> HIDE DEF table
<1>7. /\ live' \in Lives /\ live'.table = table /\ live'.low = 0
      /\ live'.ap = c.ap_watchdog /\ live'.client = c.client_watchdog
  BY <1>2, <1>3, <1>4, <1>6, StartedFacts
<1>8. IsConfig(cfg') /\ Tame(c, cfg')
  BY <1>2, <1>3, MeshedTame
<1>9. seen' \in Histories /\ seen'.ap = 0 /\ seen'.client = 0
  BY <1>3 DEF Unseen, Histories
<1>10. Shape'
  BY <1>1, <1>3, <1>7, <1>8, <1>9 DEF Shape, IsConfig, IsRom
<1>11. Watched'
  BY <1>2, <1>7, <1>8, <1>9 DEF Watched, Counts, Tame, IsConfig
<1>12. LockIsSaved'
  BY <1>3, <1>8 DEF LockIsSaved, Tame
<1>13. Mappings'
  BY <1>1, <1>3, <1>5, <1>7, <1>8 DEF Mappings, Whole, Tame
<1>14. Sampled'
  BY <1>7 DEF Sampled
<1>15. QED
  BY <1>10, <1>11, <1>12, <1>13, <1>14 DEF IInv

LEMMA BootDefaultKeeps ==
  ASSUME IInv, BootDefault
  PROVE  IInv'
<1> DEFINE b == Zeros(DefaultPortmap)
           ops == <<PutConfig(Default), PutBlob(b)>>
           table == [s \in Slots |-> Free]
<1>1. IsRom(rom) /\ left \in 0..MaxCmds /\ excuse \subseteq {"size", "power"}
  BY Parts
<1>2. left' = left /\ DefaultPortmap \in Nat
  BY DeviceAssumption DEF BootDefault
<1>3. b \in Tables /\ Whole(b, DefaultPortmap)
  BY <1>2, BlankTyped
<1> HIDE DEF b
<1>4. Len(ops) = 2 /\ IsOp(ops[1]) /\ IsOp(ops[2]) /\ Sizes(ops) = {}
  BY <1>3, DefaultFacts, BothAreOps
<1>5. CASE /\ rom' = WriteAll(rom, ops) /\ cfg' = Default /\ up' = TRUE /\ seen' = Unseen
           /\ live' = Started(Default, table, {}, 0) /\ excuse' = {}
  <2>1. rom' = [magic |-> "good", cfg |-> Default, blob |-> b]
    BY <1>1, <1>5, WriteBoth
  <2>2. rom'.magic = "good" /\ rom'.cfg = Default /\ rom'.blob = b
    BY <2>1
  <2>3. IsRom(rom')
    BY <1>3, <2>1, <2>2, DefaultFacts DEF IsRom
  <2>4. table \in Tables /\ Whole(table, DefaultPortmap)
    BY DEF Tables, Entry, Whole, Free, Garbage
  <2>5. {} \in SUBSET Routes /\ 0 \in 0..1
    OBVIOUS
  <2> HIDE DEF table
  <2>6. /\ live' \in Lives /\ live'.table = table /\ live'.low = 0
        /\ live'.ap = Default.ap_watchdog /\ live'.client = Default.client_watchdog
    BY <1>5, <2>4, <2>5, DefaultFacts, StartedFacts
  <2>7. seen' \in Histories /\ seen'.ap = 0 /\ seen'.client = 0
    BY <1>5 DEF Unseen, Histories
  <2>8. Shape'
    BY <1>1, <1>2, <1>5, <2>3, <2>6, <2>7, DefaultFacts DEF Shape, IsConfig, IsRom
  <2>9. Watched'
    BY <1>5, <2>6, <2>7, DefaultFacts DEF Watched, Counts
  <2>10. LockIsSaved'
    BY <1>5, <2>2 DEF LockIsSaved
  <2>11. Mappings'
    BY <1>3, <1>5, <2>2, <2>4, <2>6, DefaultFacts DEF Mappings, Whole
  <2>12. Sampled'
    BY <2>6 DEF Sampled
  <2>13. QED
    BY <2>8, <2>9, <2>10, <2>11, <2>12 DEF IInv
<1>6. CASE rom' \in Cut(rom, ops) /\ Down /\ excuse' = excuse \cup {"power"}
  BY <1>1, <1>2, <1>4, <1>6, CutKeeps
<1>7. QED
  BY <1>5, <1>6 DEF BootDefault, b

----------------------------------------------------------------------------
(* The invariant.                                                           *)

LEMMA InvInit == DeviceInit => IInv
<1> SUFFICES ASSUME DeviceInit PROVE IInv
  OBVIOUS
<1>1. /\ up = FALSE /\ cfg = Default /\ live = NoLive /\ seen = Unseen
      /\ rom = [magic |-> "erased", cfg |-> Default, blob |-> Blank]
      /\ excuse = {} /\ left = MaxCmds
  BY DEF DeviceInit
<1>2. rom.magic = "erased" /\ rom.cfg = Default /\ rom.blob = Blank
  BY <1>1
<1>3. IsRom(rom)
  BY <1>1, <1>2, DefaultFacts, BlankTyped DEF IsRom
<1>4. live \in Lives
  BY <1>1, NoLiveTyped
<1>5. Shape
  <2>1. seen \in Histories
    BY <1>1 DEF Unseen, Histories
  <2>2. IsConfig(cfg)
    BY <1>1, DefaultFacts
  <2>3. up \in BOOLEAN
    BY <1>1
  <2>4. left \in 0..MaxCmds
    <3>1. left = MaxCmds
      BY <1>1
    <3>2. QED
      BY <3>1, DeviceAssumption
  <2>5. excuse \subseteq {"size", "power"}
    BY <1>1
  <2>6. QED
    BY <1>3, <1>4, <2>1, <2>2, <2>3, <2>4, <2>5 DEF Shape
<1>6. Watched
  BY <1>1, DefaultFacts DEF Watched, Counts, NoLive, Unseen
<1>7. LockIsSaved /\ Mappings /\ Sampled
  BY <1>1, <1>2 DEF LockIsSaved, Mappings, Sampled, NoLive
<1>8. QED
  BY <1>5, <1>6, <1>7 DEF IInv

LEMMA InvStep == IInv /\ [DeviceNext]_deviceVars => IInv'
<1> SUFFICES ASSUME IInv, [DeviceNext]_deviceVars PROVE IInv'
  OBVIOUS
<1>1. CASE BootLoaded
  BY <1>1, BootLoadedKeeps
<1>2. CASE BootDefault
  BY <1>2, BootDefaultKeeps
<1>3. CASE PowerOff \/ OtherFirmware
  BY <1>3, GoesDownKeeps
<1>4. CASE Command
  BY <1>4, SetKeeps, AclCommandKeeps, RouteCommandKeeps, PortmapCommandKeeps, SaveKeeps,
     SaveDhcpKeeps, LockKeeps, UnlockKeeps, ResetKeeps, SleepCommandKeeps, WebKeeps
     DEF Command
<1>5. CASE FromUplink \/ FromClient
  BY <1>5, PacketKeeps
<1>6. CASE Timer
  BY <1>6, GoesDownKeeps, TickHighKeeps, TickLowKeeps, PinResetKeeps DEF Timer
<1>7. CASE UNCHANGED deviceVars
  BY <1>7 DEF deviceVars, IInv, Shape, IsConfig, IsRom, Watched, LockIsSaved, Mappings,
     Whole, Sampled, Armed
<1>8. QED
  BY <1>1, <1>2, <1>3, <1>4, <1>5, <1>6, <1>7 DEF DeviceNext

\* The inductive invariant: what is in RAM, in the configuration and in the two
\* sectors agree wherever nothing is excused, and the counters of the timer are
\* the times that have passed.
THEOREM InvariantHolds == DeviceSpec => []IInv
BY InvInit, InvStep, PTL DEF DeviceSpec

\* The fields that the program acts on keep to their ranges, and a watchdog never
\* counts above what is configured for it.
THEOREM TypeCorrect == DeviceSpec => []TypeOK
<1>1. IInv => TypeOK
  <2> SUFFICES ASSUME IInv PROVE TypeOK
    OBVIOUS
  <2>1. /\ Shape /\ Watched /\ IsConfig(cfg) /\ live \in Lives /\ IsRom(rom)
        /\ seen \in Histories
    BY Parts
  <2>2. DOMAIN cfg = DOMAIN Default /\ DOMAIN rom.cfg = DOMAIN Default
    BY <2>1, DefaultFacts DEF IsConfig, IsRom
  <2>3. /\ live.ap \in -1..cfg.ap_watchdog
        /\ live.client \in -1..cfg.client_watchdog
    BY <2>1 DEF Watched, Counts, Lives, Histories, IsConfig
  <2>4. QED
    BY <2>1, <2>2, <2>3 DEF TypeOK, Shape, IsConfig, IsRom, Lives, Tables
<1>2. QED
  BY <1>1, InvariantHolds, PTL

\* The table of port mappings never shows an entry that was not written, unless
\* power failed between its sector and the configuration's, or a command other
\* than "save" wrote the configuration after its size was changed.
THEOREM EntriesAreOurs == DeviceSpec => []PortmapsAreOurs
<1>1. IInv => PortmapsAreOurs
  BY DEF IInv, Mappings, Whole, PortmapsAreOurs
<1>2. QED
  BY <1>1, InvariantHolds, PTL

\* No command, web request or restart leaves a lock in RAM that is not in flash.
THEOREM LockSaved == DeviceSpec => []LockIsSaved
<1>1. IInv => LockIsSaved
  BY DEF IInv
<1>2. QED
  BY <1>1, InvariantHolds, PTL

\* Both watchdogs fire exactly the configured number of seconds after the last
\* packet of their side, whatever that number is.
THEOREM WatchdogsCountExactly == DeviceSpec => []WatchdogsExact
<1>1. IInv => WatchdogsExact
  BY DEF IInv, Watched, Counts, WatchdogsExact
<1>2. QED
  BY <1>1, InvariantHolds, PTL

(* The sample that resets ends a span of pairs of periods.                  *)
LEMMA EnoughHeld ==
  ASSUME IInv, PinReset
  PROVE  seen.held + Period(live.toggle) >= HoldMs \/ seen.moved
<1> SUFFICES ASSUME ~seen.moved PROVE seen.held + Period(live.toggle) >= HoldMs
  OBVIOUS
<1>1. Sampled /\ live \in Lives /\ seen \in Histories
  BY Parts
<1>2. /\ live.low \in 0..HoldTicks /\ live.toggle \in BOOLEAN /\ seen.held \in Nat
      /\ HoldTicks \in Nat /\ HoldMs \in Nat
  BY <1>1, DeviceAssumption DEF Lives, Histories
<1>3. live.low = HoldTicks
  BY <1>2 DEF PinReset, LongEnough
<1>4. /\ Period(live.toggle) \in Nat /\ Period(~live.toggle) \in Nat
      /\ Period(live.toggle) + Period(~live.toggle) = 1000
  BY <1>2 DEF Period
<1>5. PICK pairs \in 0..HoldTicks : HoldTicks = 2 * pairs /\ HoldMs <= 1000 * pairs
  BY DeviceAssumption
<1>6. CASE live.low = 0
  <2>1. pairs = 0
    BY <1>2, <1>3, <1>5, <1>6
  <2>2. QED
    BY <1>2, <1>4, <1>5, <2>1
<1>7. CASE live.low > 0
  <2>1. PICK j \in 0..HoldTicks :
          \/ live.low = 2 * j + 1 /\ seen.held = 1000 * j
          \/ live.low = 2 * j + 2 /\ seen.held = 1000 * j + Period(~live.toggle)
    BY <1>1, <1>7 DEF Sampled, Spans
  <2>2. live.low # 2 * j + 1
    BY <1>2, <1>3, <1>5
  <2>3. pairs = j + 1
    BY <1>2, <1>3, <1>5, <2>1, <2>2
  <2>4. seen.held + Period(live.toggle) = 1000 * j + 1000
    BY <1>2, <1>4, <2>1, <2>2
  <2>5. QED
    BY <1>2, <1>5, <2>3, <2>4
<1>8. QED
  BY <1>2, <1>6, <1>7

\* A factory reset by the pin is never early: with any even number of samples
\* the pin was low for half as many seconds, although the two periods of the timer
\* differ and commands, packets and the other watchdog come between the samples.
THEOREM PinHeld == DeviceSpec => HeldLongEnough
<1>1. IInv /\ [DeviceNext]_deviceVars
        => [PinReset => seen.held + Period(live.toggle) >= HoldMs \/ seen.moved]_deviceVars
  BY EnoughHeld
<1>2. QED
  BY <1>1, InvariantHolds, PTL DEF DeviceSpec, HeldLongEnough
=============================================================================
