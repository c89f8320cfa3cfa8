------------------------------- MODULE Device -------------------------------
(* The configuration and what keeps it: config_flash.c, the start of the    *)
(* program in user_init, the commands that change settings, the web form    *)
(* and the timer of user_main.c.  (Build of user_config.h as a NAT router.) *)
(*                                                                          *)
(* cfg is the global `config` in RAM, live is what the program keeps beside *)
(* it, rom is the two flash sectors: the configuration and blob 0, the      *)
(* table of port mappings.  Commands and callbacks run to their end, but    *)
(* power may fail after every erase and every write of a sector.            *)
EXTENDS Integers, FiniteSets, Sequences

CONSTANTS
  Args,            \* parameter of `set` -> arguments that are tried
  Requests,        \* requests of the web form: sequences of keys
  Routes,          \* networks that can be routed
  DefaultPortmap,  \* IP_PORTMAP_MAX
  MaxTable,        \* bound: entries of the port map sector that are kept
  MinWatchdog,     \* shortest watchdog time (30)
  MaxClients,      \* MAX_CLIENTS (8)
  HoldTicks,       \* low samples of the reset pin that are not enough (6)
  HoldMs,          \* time the pin must be held, by the README (3000)
  MaxCmds          \* bound: commands and requests

ASSUME DeviceAssumption ==
  /\ MaxTable \in Nat /\ DefaultPortmap \in 1..MaxTable
  /\ MinWatchdog \in Nat /\ MaxClients \in Nat /\ MaxCmds \in Nat
  /\ HoldTicks \in Nat /\ HoldMs \in Nat
  /\ \E pairs \in 0..HoldTicks : HoldTicks = 2 * pairs /\ HoldMs <= 1000 * pairs
  /\ "ap_watchdog" \in DOMAIN Args => Args["ap_watchdog"] \subseteq Int
  /\ "max_portmap" \in DOMAIN Args => Args["max_portmap"] \subseteq 0..MaxTable
  /\ \A q \in Requests : Len(q) \in Nat

VARIABLES
  up,      \* the program runs
  cfg,     \* config
  live,    \* what else is in RAM
  rom,     \* the two sectors of the flash
  seen,    \* history: what the timers should have measured
  excuse,  \* history: how the two sectors came to disagree
  left     \* bound: commands left

deviceVars == <<up, cfg, live, rom, seen, excuse, left>>

Off    == 0     \* automeshmode
Learn  == 1
Oper   == 2
NoPin  == 255
Free   == 0     \* entries of the table of port mappings
Mapped == 1
Garbage == 2    \* what is read from an erased sector: all bits set, valid
Slots  == 1..MaxTable

\* sysconfig_t: the fields that a command, the start or the timer reads or
\* sets in a way of its own, and the settings that are only kept.
Station  == {"ssid", "password", "lock_password", "auto_connect",
             "sta_hostname"}
AccessPoint == {"ap_ssid", "ap_password", "ap_open", "ap_on", "nat",
                "ssid_hidden", "max_clients"}
Mesh     == {"automesh", "automesh_checked", "automesh_tries",
             "am_threshold"}
Watchdogs == {"ap_watchdog", "client_watchdog"}
Peap     == {"use_peap", "peap_identity", "peap_username", "peap_password"}
Services == {"ota_host", "ota_port", "config_port", "config_access",
             "web_port"}
Rates    == {"downstream_kbps", "upstream_kbps", "vmin", "vmin_sleep",
             "am_scan_time", "am_sleep_time"}
Hardware == {"speed", "status_led", "hw_reset", "phy_mode", "country"}
Napt     == {"max_nat", "max_portmap", "tcp_timeout", "udp_timeout"}
Address  == {"network", "dns", "ip", "netmask", "gw"}
Dhcp     == {"lease", "ap_mac", "sta_mac", "bssid", "dhcps_entries"}
Mqtt     == {"mqtt_host", "mqtt_port", "mqtt_user", "mqtt_password",
             "mqtt_id", "mqtt_qos", "mqtt_prefix", "mqtt_command_topic",
             "mqtt_interval", "mqtt_mask"}
Fields == Station \cup AccessPoint \cup Mesh \cup Watchdogs \cup Peap
            \cup Services \cup Rates \cup Hardware \cup Napt \cup Address
            \cup Dhcp \cup Mqtt \cup {"locked"}

\* config_load_default; routes and ACLs are the copies of config_save.
Default ==
  [f \in Fields \cup {"routes", "acl"} |->
     CASE f \in Watchdogs -> -1
       [] f = "hw_reset" -> NoPin
       [] f = "max_portmap" -> DefaultPortmap
       [] f = "max_clients" -> MaxClients
       [] f \in {"ap_open", "ap_on", "nat", "config_port", "web_port",
                 "config_access"} -> 1
       [] f = "phy_mode" -> 3
       [] f = "routes" -> {}
       [] OTHER -> 0]

------------------------------------------------------------------------------
(* Flash *)

Blank == [s \in Slots |-> Garbage]
Zeros(n) == [s \in Slots |-> IF s <= n THEN Free ELSE Garbage]

\* config_save copies routes and ACLs into the configuration it writes.
Collect(c, l) == [c EXCEPT !.routes = l.routes, !.acl = l.acl]

PutConfig(c) == [sector |-> "cfg", data |-> c, magic |-> "good"]
PutBlob(b)   == [sector |-> "blob", data |-> b]
Erase(r, op) ==
  IF op.sector = "cfg" THEN [r EXCEPT !.magic = "erased", !.cfg = Default]
                       ELSE [r EXCEPT !.blob = Blank]
Write(r, op) ==
  IF op.sector = "cfg" THEN [r EXCEPT !.magic = op.magic, !.cfg = op.data]
                       ELSE [r EXCEPT !.blob = op.data]

\* A save writes one sector, or both.
WriteAll(r, ops) ==
  IF Len(ops) = 1 THEN Write(r, ops[1]) ELSE Write(Write(r, ops[1]), ops[2])

\* What power failing during the writes leaves behind.
Cut(r, ops) ==
  {Erase(r, ops[1]), Write(r, ops[1])}
  \cup IF Len(ops) = 1 THEN {} ELSE {Erase(Write(r, ops[1]), ops[2]), WriteAll(r, ops)}

\* blob_save of n entries of the table.
BlobSave(table, n) ==
  PutBlob([s \in Slots |-> IF s <= n THEN table[s] ELSE Garbage])

\* `save`: a table that grows is filled up with free entries.
Resized_mutant(table, old, new) == BlobSave(table, old)   \* the old size
Resized(table, old, new) ==
  BlobSave([s \in Slots |-> IF s <= old THEN table[s] ELSE Free], new)

NoLive == [routes |-> {}, acl |-> 0, table |-> Zeros(0), newmap |-> 0,
           ap |-> -1, client |-> -1, opmode |-> "off", do_ip |-> FALSE,
           toggle |-> FALSE, low |-> 0, sleep |-> FALSE, console |-> FALSE,
           web |-> FALSE]
Unseen == [ap |-> 0, client |-> 0, held |-> 0, moved |-> FALSE]

Down ==
  /\ up' = FALSE /\ cfg' = Default /\ live' = NoLive /\ seen' = Unseen

\* Sizes in RAM and flash differ after a save of another size, until the
\* restart; every other save then writes the old size over the new one.
Sizes(ops) ==
  IF /\ Len(ops) = 1 /\ rom.magic = "good"
     /\ ops[1].data.max_portmap # rom.cfg.max_portmap
  THEN {"size"} ELSE {}

Stay(c, l) == /\ cfg' = c /\ live' = l /\ UNCHANGED <<up, seen>>

\* Write the sectors, then go on.
Persist(ops, c, l) ==
  \/ /\ rom' = WriteAll(rom, ops)
     /\ excuse' = excuse \cup Sizes(ops)
     /\ Stay(c, l)
  \/ /\ rom' \in Cut(rom, ops)
     /\ excuse' = excuse \cup Sizes(ops) \cup {"power"}
     /\ Down

\* Write the sectors, then restart.
PersistAndRestart(ops) ==
  \/ /\ rom' = WriteAll(rom, ops)
     /\ excuse' = excuse \cup Sizes(ops)
     /\ Down
  \/ /\ rom' \in Cut(rom, ops)
     /\ excuse' = excuse \cup Sizes(ops) \cup {"power"}
     /\ Down

------------------------------------------------------------------------------
(* The start: user_init up to the configuration of GPIO, the automesh       *)
(* credentials, the interfaces, the servers and the timer.                  *)

\* In automesh the access point has the name and password of the uplink.
Meshed(c) ==
  IF c.automesh = Off THEN c
  ELSE [c EXCEPT !.ap_ssid = c.ssid, !.ap_password = c.password,
                 !.ap_on = IF c.automesh = Learn THEN 0 ELSE 1,
                 !.auto_connect = IF c.automesh = Learn THEN 0 ELSE 1,
                 !.ap_open = IF c.automesh = Learn THEN @
                             ELSE IF c.password = 0 THEN 1 ELSE 0]

\* The operating mode and whether the timer must give the AP its address.
Interfaces(c, l) ==
  IF c.ap_on # 0 THEN [l EXCEPT !.opmode = "both", !.do_ip = TRUE]
                 ELSE [l EXCEPT !.opmode = "station", !.do_ip = FALSE]

\* A server listens when its port is not zero.
Servers(c, l) ==
  [l EXCEPT !.console = c.config_port # 0, !.web = c.web_port # 0]

\* What RAM holds after the start with configuration c.
Started(c, table, routes, acl) ==
  LET m == Meshed(c)
  IN  Servers(m, Interfaces(m,
        [NoLive EXCEPT !.routes = routes, !.acl = acl, !.table = table,
                       !.newmap = c.max_portmap, !.ap = c.ap_watchdog,
                       !.client = c.client_watchdog]))

\* config_load finds a configuration of this version.
BootLoaded ==
  /\ ~up /\ rom.magic = "good"
  /\ LET c == rom.cfg
         table == [s \in Slots |->
                     IF s <= c.max_portmap THEN rom.blob[s] ELSE Free]
     IN  /\ cfg' = Meshed(c)
         /\ live' = Started(c, table, c.routes, c.acl)
  /\ up' = TRUE /\ seen' = Unseen
  /\ UNCHANGED <<rom, excuse, left>>

\* No configuration, or one of another length: defaults, and an empty table.
BootDefault ==
  /\ ~up /\ rom.magic # "good"
  /\ LET ops == <<PutConfig(Default), PutBlob(Zeros(DefaultPortmap))>>
     IN  \/ /\ rom' = WriteAll(rom, ops)
            /\ cfg' = Default /\ up' = TRUE /\ seen' = Unseen
            /\ live' = Started(Default, [s \in Slots |-> Free], {}, 0)
            /\ excuse' = {}
         \/ /\ rom' \in Cut(rom, ops)
            /\ Down
            /\ excuse' = excuse \cup {"power"}
  /\ UNCHANGED left

\* The plug is pulled; or the firmware is exchanged for one whose
\* configuration has another length.
PowerOff == up /\ Down /\ UNCHANGED <<rom, excuse, left>>
OtherFirmware ==
  /\ up /\ left > 0 /\ left' = left - 1
  /\ rom' = [rom EXCEPT !.magic = "other"]
  /\ Down /\ UNCHANGED excuse

------------------------------------------------------------------------------
(* Commands of the console *)

Spend == up /\ left > 0 /\ left' = left - 1
Unlocked == cfg.locked = 0

\* A change of the configuration in RAM only.
Change(c, l, s) ==
  /\ cfg' = c /\ live' = l /\ seen' = s
  /\ UNCHANGED <<up, rom, excuse>>
Setting(c) == Change(c, live, seen)
Plain(names) ==
  \E n \in names \cap DOMAIN Args : \E v \in Args[n] :
    Setting([cfg EXCEPT ![n] = v])
Arguments(n) == IF n \in DOMAIN Args THEN Args[n] ELSE {}

\* A new uplink makes an automesh node learn again.
Relearn(c) ==
  IF c.automesh = Off THEN c
  ELSE [c EXCEPT !.automesh_checked = 0, !.automesh = Learn]

SetSsid(c, v) == [Relearn([c EXCEPT !.ssid = v]) EXCEPT !.auto_connect = 1]
SetPassword(c, v) ==
  [Relearn([c EXCEPT !.password = v]) EXCEPT !.lock_password = v]

SetStation ==
  \/ \E v \in Arguments("ssid") : Setting(SetSsid(cfg, v))
  \/ \E v \in Arguments("password") : Setting(SetPassword(cfg, v))
  \/ Plain({"auto_connect", "sta_hostname"})

SetAccessPoint ==
  \/ \E v \in Arguments("ap_password") :
       Setting([cfg EXCEPT !.ap_password = v, !.ap_open = 0])
  \/ \E v \in Arguments("max_clients") :
       v <= MaxClients /\ Setting([cfg EXCEPT !.max_clients = v])
  \/ Plain({"ap_ssid", "ap_open", "nat", "ssid_hidden"})

\* Only turning off a mesh that is on turns it off.
SetAutomesh ==
  \E v \in Arguments("automesh") :
    IF cfg.automesh # Off /\ v = 0
    THEN Setting([cfg EXCEPT !.automesh = Off, !.bssid = 0])
    ELSE Setting([cfg EXCEPT !.automesh = Learn, !.automesh_checked = 0])

\* The configured time and the running counter change together.
SetWatchdog ==
  \E v \in Arguments("ap_watchdog") :
    /\ v = -1 \/ v >= MinWatchdog
    /\ \/ Change([cfg EXCEPT !.ap_watchdog = v], [live EXCEPT !.ap = v],
                 [seen EXCEPT !.ap = 0])
       \/ Change([cfg EXCEPT !.client_watchdog = v],
                 [live EXCEPT !.client = v], [seen EXCEPT !.client = 0])

SetMisc == Plain(Peap \cup {"am_threshold"})
SetServices == Plain(Services)
SetRates == Plain(Rates)

\* Switching the AP on or off takes effect at once; its address is left to
\* the timer.
SetApOn ==
  \E v \in Arguments("ap_on") :
    IF v # 0
    THEN IF cfg.ap_on = 0
         THEN Change([cfg EXCEPT !.ap_on = 1],
                     [live EXCEPT !.opmode = "both", !.do_ip = TRUE], seen)
         ELSE Setting(cfg)
    ELSE IF cfg.ap_on # 0
         THEN Change([cfg EXCEPT !.ap_on = 0],
                     [live EXCEPT !.opmode = "station"], seen)
         ELSE Setting(cfg)

\* The count of low samples is kept when another pin is chosen.
SetHardware ==
  \/ \E v \in Arguments("hw_reset") :
       Change([cfg EXCEPT !.hw_reset = v], live,
              [seen EXCEPT !.moved = TRUE])
  \/ Plain({"speed", "status_led", "country"})

\* The one parameter that is saved at once.
SetPhyMode ==
  \E v \in Arguments("phy_mode") :
    /\ v \in 1..3
    /\ LET c == Collect([cfg EXCEPT !.phy_mode = v], live)
       IN  Persist(<<PutConfig(c)>>, c, live)

\* The size of the table changes at the next start only.
SetNapt ==
  \/ \E v \in Arguments("max_portmap") :
       Change(cfg, [live EXCEPT !.newmap = v], seen)
  \/ Plain(Napt \ {"max_portmap"})

SetAddress == Plain(Address)
SetDhcp == Plain(Dhcp \ {"dhcps_entries"})
SetMqtt ==
  \/ \E v \in Arguments("mqtt_qos") :
       v \in 0..2 /\ Setting([cfg EXCEPT !.mqtt_qos = v])
  \/ Plain(Mqtt \ {"mqtt_qos"})

Set ==
  /\ Unlocked /\ Spend
  /\ \/ SetStation \/ SetAccessPoint \/ SetAutomesh \/ SetWatchdog
     \/ SetMisc \/ SetServices \/ SetRates \/ SetApOn \/ SetHardware
     \/ SetPhyMode \/ SetNapt \/ SetAddress \/ SetDhcp \/ SetMqtt

\* acl: the lists are those of module Acl; here they are empty (0) or not.
AclCommand ==
  /\ Unlocked /\ Spend
  /\ \E a \in {0, 1} : Change(cfg, [live EXCEPT !.acl = a], seen)

RouteCommand ==
  /\ Unlocked /\ Spend
  /\ \/ Change(cfg, [live EXCEPT !.routes = {}], seen)
     \/ \E r \in Routes : Change(cfg, [live EXCEPT !.routes = @ \cup {r}], seen)
     \/ \E r \in Routes : Change(cfg, [live EXCEPT !.routes = @ \ {r}], seen)

\* ip_portmap_add takes a free entry, ip_portmap_remove frees one.
PortmapCommand ==
  /\ Unlocked /\ Spend
  /\ \E s \in 1..cfg.max_portmap :
       \/ /\ live.table[s] = Free
          /\ Change(cfg, [live EXCEPT !.table[s] = Mapped], seen)
       \/ /\ live.table[s] = Mapped
          /\ Change(cfg, [live EXCEPT !.table[s] = Free], seen)

\* `save`: first the table in its new size, then the configuration with it.
Save ==
  /\ Unlocked /\ Spend
  /\ LET old == cfg.max_portmap
         c   == Collect(cfg, live)
     IN  Persist(<<Resized(live.table, old, live.newmap),
                   PutConfig([c EXCEPT !.max_portmap = live.newmap])>>,
                 c, live)

\* `save dhcp`: first the configuration with the leases of the n stations,
\* then the table in the size it has in RAM.
SaveDhcp ==
  /\ Unlocked /\ Spend
  /\ \E n \in Arguments("dhcps_entries") :
       LET c == Collect([cfg EXCEPT !.dhcps_entries = n], live)
       IN  Persist(<<PutConfig(c), BlobSave(live.table, c.max_portmap)>>,
                   c, live)

\* `lock`, with or without a new password, and `unlock`.
Lock ==
  /\ Unlocked /\ Spend
  /\ \E pw \in Arguments("lock_password") \cup {cfg.lock_password} :
       /\ pw # 0
       /\ LET c == Collect([cfg EXCEPT !.lock_password = pw, !.locked = 1],
                           live)
          IN  Persist(<<PutConfig(c)>>, c, live)
Unlock_mutant ==    \* forgets to save
  /\ Spend /\ cfg.locked = 1
  /\ Setting([cfg EXCEPT !.locked = 0])
Unlock ==
  /\ Spend
  /\ LET c == Collect([cfg EXCEPT !.locked = 0], live)
     IN  Persist(<<PutConfig(c)>>, c, live)

\* The defaults are written with the routes that RAM still has; only the
\* ACLs are emptied first.
FactoryDefault(c) == Collect(c, [live EXCEPT !.acl = 0])
Factory(c) ==
  PersistAndRestart(<<PutConfig(FactoryDefault(c)),
                      PutBlob(Zeros(c.max_portmap))>>)

\* `reset [factory]`: on a locked device from the serial line only.
Reset == Spend /\ Down /\ UNCHANGED <<rom, excuse>>
ResetFactory == Spend /\ Factory(Default)

\* `sleep`: two seconds later the chip sleeps, and starts anew after it.
SleepCommand == Spend /\ Change(cfg, [live EXCEPT !.sleep = TRUE], seen)
SleepTimer == up /\ live.sleep /\ Down /\ UNCHANGED <<rom, excuse, left>>

------------------------------------------------------------------------------
(* The web form *)

\* The effect of one key on the configuration.  ssid, password, ap_ssid,
\* ap_password and network go through the commands, which a lock refuses.
WebKey(c, k) ==
  LET open == c.locked = 0
  IN  CASE k.key = "ssid" ->
             [(IF open THEN SetSsid(c, k.val) ELSE c) EXCEPT !.automesh = Off]
        [] k.key = "password" -> IF open THEN SetPassword(c, k.val) ELSE c
        [] k.key = "ap_password" ->
             IF open THEN [c EXCEPT !.ap_password = k.val, !.ap_open = 0]
                     ELSE c
        [] k.key \in {"ap_ssid", "network"} ->
             IF open THEN [c EXCEPT ![k.key] = k.val] ELSE c
        [] k.key = "am" ->
             [c EXCEPT !.automesh = Learn, !.automesh_checked = 0]
        [] k.key = "ap_open" -> [c EXCEPT !.ap_open = k.val]
        [] k.key = "lock" ->
             [c EXCEPT !.lock_password = c.password, !.locked = 1]
        [] k.key = "unlock_password" ->
             IF k.val = c.lock_password THEN [c EXCEPT !.locked = 0] ELSE c
        [] OTHER -> c

Restarts(k) == k.key \notin {"lock", "unlock_password", "gpio"}

\* The configuration after each of the keys, in order.
Form(c, q) ==
  LET form[i \in 0..Len(q)] == IF i = 0 THEN c ELSE WebKey(form[i - 1], q[i])
  IN  form[Len(q)]

\* The keys in order, then a save in any case, then the reset, which is
\* a command that a lock refuses.
Web ==
  /\ Spend
  /\ \E q \in Requests :
       LET c   == Collect(Form(cfg, q), live)
           ops == <<PutConfig(c)>>
       IN  IF (\E i \in DOMAIN q : Restarts(q[i])) /\ c.locked = 0
           THEN PersistAndRestart(ops)
           ELSE Persist(ops, c, live)

------------------------------------------------------------------------------
(* Packets feed the watchdogs; the timer, every 900 and 100 ms, starves     *)
(* them and samples the reset pin.                                          *)

FromUplink_mutant ==                         \* feeds the other one
  /\ up /\ live' = [live EXCEPT !.client = cfg.client_watchdog]
  /\ seen' = [seen EXCEPT !.ap = 0]
  /\ UNCHANGED <<up, cfg, rom, excuse, left>>
FromUplink ==
  /\ up /\ live' = [live EXCEPT !.ap = cfg.ap_watchdog]
  /\ seen' = [seen EXCEPT !.ap = 0]
  /\ UNCHANGED <<up, cfg, rom, excuse, left>>
FromClient ==
  /\ up /\ live' = [live EXCEPT !.client = cfg.client_watchdog]
  /\ seen' = [seen EXCEPT !.client = 0]
  /\ UNCHANGED <<up, cfg, rom, excuse, left>>

Period(toggle) == IF toggle THEN 900 ELSE 100
Armed == cfg.hw_reset <= 16

\* One second more, for a watchdog that is on.
Starve_mutant(n) == n - 1                    \* also when it is off
Starve(n) == IF n >= 0 THEN n - 1 ELSE n
Count(n, on) == IF on >= 0 THEN n + 1 ELSE 0

\* The state of the timer after both watchdogs.
Ticked ==
  LET t == ~live.toggle
  IN  [live EXCEPT !.toggle = t,
                   !.ap = IF t THEN Starve(@) ELSE @,
                   !.client = IF t THEN Starve(@) ELSE @]
Passed ==
  IF live.toggle THEN seen
  ELSE [seen EXCEPT !.ap = Count(@, live.ap),
                    !.client = Count(@, live.client)]

Barking == ~live.toggle /\ (live.ap = 0 \/ live.client = 0)
Bark == up /\ Barking /\ Down /\ UNCHANGED <<rom, excuse, left>>

\* The rest of the timer when the pin is high or not watched; the AP gets
\* its address here (module Automesh and the packet path do not need it).
TickHigh ==
  /\ up /\ ~Barking
  /\ live' = [Ticked EXCEPT !.do_ip = FALSE,
                            !.low = IF Armed THEN 0 ELSE @]
  /\ seen' = IF Armed THEN [Passed EXCEPT !.held = 0, !.moved = FALSE]
                      ELSE Passed
  /\ UNCHANGED <<up, cfg, rom, excuse, left>>

LongEnough_mutant(n) == n >= HoldTicks       \* one sample early
LongEnough(n) == n > HoldTicks
TickLow ==
  /\ up /\ ~Barking /\ Armed
  /\ ~LongEnough(live.low + 1)
  /\ live' = [Ticked EXCEPT !.do_ip = FALSE, !.low = @ + 1]
  /\ seen' = [Passed EXCEPT !.held =
                IF live.low = 0 THEN 0 ELSE @ + Period(live.toggle)]
  /\ UNCHANGED <<up, cfg, rom, excuse, left>>

\* Low for too long: a factory reset that keeps the number of the pin.
PinReset ==
  /\ up /\ ~Barking /\ Armed
  /\ LongEnough(live.low + 1)
  /\ Factory([Default EXCEPT !.hw_reset = cfg.hw_reset])
  /\ UNCHANGED left

\* The battery is low: deep sleep, and a new start.
LowBattery ==
  /\ up /\ ~Barking /\ ~live.toggle /\ cfg.vmin # 0
  /\ Down /\ UNCHANGED <<rom, excuse, left>>

------------------------------------------------------------------------------

DeviceInit ==
  /\ up = FALSE /\ cfg = Default /\ live = NoLive /\ seen = Unseen
  /\ rom = [magic |-> "erased", cfg |-> Default, blob |-> Blank]
  /\ excuse = {} /\ left = MaxCmds

Command ==
  \/ Set \/ AclCommand \/ RouteCommand \/ PortmapCommand \/ Save \/ SaveDhcp
  \/ Lock \/ Unlock \/ Reset \/ ResetFactory \/ SleepCommand \/ Web

Timer == Bark \/ TickHigh \/ TickLow \/ PinReset \/ LowBattery \/ SleepTimer

DeviceNext ==
  \/ BootLoaded \/ BootDefault \/ PowerOff \/ OtherFirmware
  \/ Command \/ FromUplink \/ FromClient \/ Timer

DeviceSpec == DeviceInit /\ [][DeviceNext]_deviceVars

------------------------------------------------------------------------------
(* Properties *)

Entry == {Free, Mapped, Garbage}

\* The fields keep to their ranges, and the watchdogs never count above what
\* is configured.
TypeOK ==
  /\ up \in BOOLEAN /\ left \in 0..MaxCmds
  /\ DOMAIN cfg = DOMAIN Default /\ DOMAIN rom.cfg = DOMAIN Default
  /\ rom.magic \in {"good", "erased", "other"}
  /\ rom.blob \in [Slots -> Entry] /\ live.table \in [Slots -> Entry]
  /\ cfg.locked \in 0..1 /\ cfg.ap_on \in 0..1 /\ cfg.automesh \in Off..Oper
  /\ live.low \in 0..HoldTicks
  /\ up => /\ live.ap \in -1..cfg.ap_watchdog
           /\ live.client \in -1..cfg.client_watchdog
  /\ cfg.max_portmap \in 0..MaxTable /\ live.newmap \in 0..MaxTable
  /\ cfg.routes \subseteq Routes /\ live.routes \subseteq Routes
  /\ excuse \subseteq {"size", "power"}

\* "Port mappings [...] are saved with the current config" (README:195): the
\* table is in a sector of its own and its length in the configuration.  No
\* entry is ever read from flash that was not written there, unless power
\* failed while the two were written, or a command other than `save` wrote
\* the configuration between a `save` of another size and the restart.
PortmapsAreOurs ==
  (\E s \in Slots : live.table[s] = Garbage /\ s <= cfg.max_portmap /\ up)
    => excuse # {}

\* The lock in flash is the lock in force: whatever way the configuration
\* was locked or unlocked, the next start finds it so.
LockIsSaved == up => rom.magic = "good" /\ rom.cfg.locked = cfg.locked

\* Each watchdog counts down from what is configured, one a second, from the
\* last packet of its own side: it fires neither early nor late.
WatchdogsExact ==
  up => /\ live.ap + seen.ap = cfg.ap_watchdog
        /\ live.client + seen.client = cfg.client_watchdog

\* "If you pull low a selected GPIO for more than 3 seconds, the repeater
\* will do a factory reset" (README:190): the pin was low at every sample for
\* that long, unless the pin was exchanged meanwhile.
HeldLongEnough ==
  [][PinReset => seen.held + Period(live.toggle) >= HoldMs \/ seen.moved]_deviceVars
==============================================================================
