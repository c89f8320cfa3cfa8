# TLA+ models of esp_wifi_repeater

Models, model-checking runs and machine-checked proofs for the firmware in
`src/`: a WiFi NAT router for the ESP8266, which the build variant
`VARIANT=bridge` (`REPEATER_MODE`) turns into a layer-2 repeater. Each module
names the file it models; `PROJECT.json` maps every definition to its lines.

The modules are written from the code. Where a document and the code differ the
model follows the code; the difference is listed under *What the runs found*, and the
gravest one has a run of its own.

## The system

The firmware runs on the non-OS SDK: one thread, no preemption except for two
interrupts, that of the pins and that of the UART's receiver, which writes the ring
of the console (new_uart.c:309-320). Everything else is a callback (Wi-Fi events, TCP events, resolver answers,
timers, frames from the radio) or one of two tasks that other code posts signals
to (`user_procTask`, queue of 2; `MQTT_Task`, queue of 1). A callback runs to
its end; what interleaves is the order of callbacks. One callback is therefore
one action (where an interrupt shares state with one, the action has the outcomes
of being interrupted as well), and the behaviours that are hard are orders of callbacks, answers
that come late, twice or never, tables and queues at their limits, state in
flash across a restart, and library calls whose results are not looked at.

| Component | State | Operations | Talks to |
|---|---|---|---|
| Layer-2 bridge (`user/bridge.c`) | forwarding database (16 entries, 600 s), DHCP transaction map (8 entries, 30 s), saved SDK functions | 4 frame hooks, `bridge_init` | both radios and the local stack (calls); Wi-Fi events |
| MQTT outbound queue (`mqtt/queue.c`, `proto.c`, `ringbuf_mqtt.c`) | byte ring of 2048 | put, take, framing | MQTT client (calls) |
| MQTT client (`mqtt/mqtt.c`) | connection state, ticks, `pCon`, queue | task, timer, resolver and TCP callbacks, connect, disconnect, publish, subscribe | Wi-Fi events, console, status topics, espconn |
| MQTT codec (`mqtt/mqtt_msg.c`, `utils.c`) | one message buffer | encode, parse | MQTT client |
| ACL (`user/acl.c`) | 4 lists of rules with hit counters, deny callback | add, clear, check, show | packet path, console, monitor |
| Packet path (`user/user_main.c` 505-710) | saved SDK functions, byte counters, token buckets, daily total | hooks of the NAT router, `patch_netif` | ACL, monitor, periodic timer |
| Remote monitoring (`user_main.c` 341-502) | ring buffer of pcap records, the one client, a send in progress | start, stop, connect, disconnect, sent, put | packet path, TCP |
| Ring buffer (`user/ringbuf.c`) | bytes, head, tail | copy in and out, reset | monitor, console |
| Console (`user_main.c` 712-3315, 3336-3435) | one pair of ring buffers shared by UART, TCP, web and MQTT; `config`, `config.locked` | some 100 commands | everything |
| Web configuration (`user_main.c` 3420-3626) | the same buffers and `config` | page, form keys, save and reset | console |
| Configuration persistence (`user/config_flash.c`) | one flash sector, blobs for port maps and others | load, save, defaults | console, automesh |
| Wi-Fi events and automesh (`user_main.c` 3912-4385) | `connected`, tries, checked access points, level | connect, disconnect, address, scan done | bridge, MQTT client, persistence |
| Periodic timer (`user_main.c` 3631-3837) | watchdog counters, LED, day, tokens | once or twice a second | packet path, MQTT client |
| GPIO (`user_main.c` 976-1100, `easygpio/`) | pin values, debounce and duration timers | interrupt, set, toggle | MQTT client, console |
| OTA (`user/rboot-ota.c`, `rboot-api.c`) | one update: connection, flash writer, update flag, timer | start, resolver and TCP callbacks, timeout | console, rBoot |
| System time (`user/sys_time.c`) | high and last low word | read | timer, monitor |
| Drivers, NAPT, lwIP | hardware, external libraries | | |

What makes each of them correct:

- *Bridge*: the addresses of the repeater itself are never taken for a client's;
  a lookup returns the last sighting of an address or nothing; no client MAC is
  visible upstream; a DHCP reply goes to the client that asked; a frame for the
  local stack reaches it; reinstalling the hooks does not lose the originals.
- *MQTT queue*: messages come out whole, unchanged, in order; losing one never
  damages another.
- *MQTT client*: nothing is sent outside a session; no callback uses a
  connection that is gone; after any loss it comes back; a queue in a session
  is worked off; the reported status is true.
- *ACL, packet path*: the first matching rule decides; counters match packets;
  a rate limit lets through at most its rate and burst; the daily limit holds
  until the day changes.
- *Monitor, ring buffer*: the client reads a header and then whole records in
  order; one client at a time; stop really stops.
- *Console, web*: a command line runs once and as typed; a locked configuration
  does not change.
- *Persistence*: what is loaded is what was saved last, or defaults, also after
  losing power at any point.
- *Automesh*: never its own uplink; every access point gets tried; the level is
  one more than the uplink's.
- *Watchdogs, GPIO, OTA, time*: a reset only after the time configured without
  traffic; a pin's reported value is its last stable one; one update at a time
  and a slot is switched only after a complete download; time never runs back.

## Modules

| Module | Models | Runs |
|---|---|---|
| `Bridge` | `user/bridge.c`, with the Wi-Fi events that concern it | `MCBridge*.cfg` |
| `BridgeProofs` | theorems about `Bridge` | |
| `MqttFifo` | what the MQTT client may expect of its queue (abstract) | |
| `MqttQueue` | the queue byte by byte; implements `MqttFifo` | `MCMqttQueue.cfg` |
| `MqttClient` | `mqtt/mqtt.c` | `MCMqttClient*.cfg` |
| `MqttProofs` | theorems about `MqttClient` and `MqttQueue` | |
| `Acl` | `user/acl.c` and what the hooks make of its verdict | with `PacketPath` |
| `RingBuf` | the functions of `user/ringbuf.c` that the monitor uses | with `PacketPath` |
| `ByteStream` | what a client of the monitor may expect (abstract) | |
| `Monitor` | remote monitoring over `RingBuf`; implements `ByteStream` | with `PacketPath` |
| `PacketPath` | the router's hooks, limits and their timer; composes `Acl` and `Monitor` | `MCPacketShape.cfg`, `MCPacketMonitor.cfg` |
| `PacketPathProofs` | theorems about ring, monitor and packet path | |
| `Ota` | `user/rboot-ota.c`, `user/rboot-api.c`, their callers | `MCOta.cfg` |
| `OtaProofs` | theorems about `Ota` | |
| `Automesh` | scan, choice of the uplink, Wi-Fi events and restarts of several repeaters | `MCAutomesh.cfg` |
| `AutomeshProofs` | theorems about `Automesh` | |
| `Device` | `user/config_flash.c`, `user_init`, the commands that change settings, the web form, the timer | `MCDevice.cfg` |
| `DeviceProofs` | theorems about `Device` | |
| `Console` | the shared rings, signals, clients, late answers, the task | `MCConsole.cfg` |
| `ConsoleProofs` | theorems about `Console` | |
| `Gpio` | pins, interrupts, debouncing, triggers, timed outputs | `MCGpio.cfg` |
| `GpioProofs` | theorems about `Gpio` | |

`user_main.c` is one file of many parts; it is cut where the state is cut. A
command of the console is in `Console` as far as it answers, and in `Device`, `Acl`,
`Monitor`, `Ota` or `Gpio` as far as it does something: these effects share no
variable but `config`, of which each module keeps the fields it reads. A Wi-Fi event is
in `Bridge`, `MqttClient` and `Automesh` with what it does there: the handler calls
one after the other in one callback, so that no other step comes between, and
none of them reads what another one has written.

### Bridge

Each hook (`bridge_input_ap`, `bridge_input_sta`, `bridge_output_sta`,
`bridge_output_ap`) is an action over the frame it is given, `bridge_init` one
over the new address. `hooked` and `saved` are the function pointers in the
netif and in `s_orig_*`; `sent` holds the frames the last handler put on a link
and `passed` the interfaces whose saved function it called. `fdb` and `xidMap`
are the two tables, slot by slot, with the scans of the code: which slot is
reused, which is taken when one is free or expired, and which is evicted.
`seen` and `asked` are history variables: the last sighting of an address, the
last user of a transaction identifier. Calling a saved function that is the
hook itself has no end; `Overflow` is the reset that follows.

Frames are records with the fields the hooks read or rewrite. A handler's early
return because no buffer can be allocated is a choice. Group addresses are one
value; option 61 of DHCP, checksums and the bytes of mDNS names are left out; the
questions of an mDNS query are given by what parsing yields for each.

| Run | Question | Bounds |
|---|---|---|
| `bridge_path` (`MCBridgePath.cfg`) | every kind of frame, address change, reinstallation, restart: `OwnAddressNeverLearned`, `ClientsHidden`, `ReplyToAsker` | one slot in each table, two clients, one foreign address and one lease, two transactions, clock to 1 with lifetimes of 1: an insertion evicts, an entry expires, a transaction is lost to another |
| `bridge_fdb` (`MCBridgeFdb.cfg`) | the database answers rightly: `LookupSound`, `LookupComplete` | two slots, three addresses and the lease, lifetime 2, clock to 3: full tables, ties, expiry, refresh of an entry, a client that moves |
| `bridge_reinit` | `OriginalsSaved` (violated) | tables of one slot, one kind of frame |

Tables are as small as lets them overflow; the proofs cover every size. Clients
are symmetric, and so are foreign addresses; no property is temporal.

### The MQTT queue

`MqttQueue` holds the bytes between read and write pointer. `RINGBUF_Put` of a
sequence of bytes stops where the ring is full, so a refused packet leaves its
first bytes, maybe an escape without what it escapes. `PutForced` is the loop of
`MQTT_Publish`, `MQTT_Subscribe`, `MQTT_UnSubscribe` and `MQTT_Ping`, each of
whose `Rounds` leaves another partial packet behind. The parser starts with an
`isBegin` of either value, which `PROTO_Init` does not set. Loops over bytes are
recursive functions of how many bytes were done (`Stuffing`, `Parsing`). Packets are
no longer than `MQTT_BUF_SIZE`: the client builds each in such a buffer
(mqtt.c:857-858), and takes it out to one of the same size.

The run `mqtt_queue` (ring of 13 bytes; packets that are plain, that hold marks,
that hold what marks are escaped to, and one that fills half of the ring) shows
`StartsAtFrame`, hence that the uninitialised flag never matters, and
`ImplementsFifo`: seen as the packets between its marks, the ring is the queue
of `MqttFifo`, whose steps are all a client sees. That specification also says
what the queue does *not* promise: a message that needs more room than all others
together give up takes everything with it, itself included.

### The MQTT client

One action per callback, and one per case of `MQTT_Task`. `link` is `pCon` and its
TCP connection, `posted` the task's queue of length one (all posts are equal, so
a lost one loses nothing), `queued` the number of messages in the queue. The
library is modelled by what it does to its caller: `espconn_connect` starts or
fails without a callback, `espconn_disconnect` calls back only if there was a
connection, `espconn_send` fails without one and may fail while a send is
pending, the resolver answers with a callback or, when it has the address, at
once and without one. The library's outcomes are the ones this code, and
`rboot-ota.c` with the same calls, is written for. The argument of a resolver
callback is the `pCon` that asked, and Wi-Fi events free a `pCon` without taking
its lookup back (`FreePCon`). Such a stray answer (`strays`) reads freed memory
before it tests anything (mqtt.c:69-70); what it finds there is unknown, so it may be
taken for the answer to the lookup of now (`StrayFound`, `StrayFailed`), go astray
(`StrayLost`) or raise an exception (`StrayCrash`), which restarts the program.
`disturbed` remembers that one was taken in the present attempt.
`unstarted` records why the last attempt to connect never began.

`Fairness` states: tasks and armed timers run, what was started calls back
(weak fairness: the SDK's loop guarantees it); the broker is reachable again and
again and accepts a CONNECT it gets again and again (strong fairness of
`DnsFound`, `Connected`, `ConnAccepted`); a broker closes a connection that
carries no session (MQTT requires it to); and timers that count seconds do not
every time come before an acknowledgement or a posted task, which take
milliseconds (strong fairness of `Sent` in a session and of `SendQueued`).
Nothing is assumed about the application, about Wi-Fi, or about connections not
breaking. Without the last two `QueueWorkedOff` fails: with acknowledgements
that always take longer than half the keep-alive time the queue starves, since
each keep-alive sets `sendTimeout` again.

| Run | Question | Bounds |
|---|---|---|
| `mqtt_client` | `SessionStates`, `ConnectPending`, `LookupKeepsPCon`, `DisconnectedIsTrue`; under `Fairness` also `Reconnects`, `QueueWorkedOff` | keep-alive after 3 ticks, timeouts of 2, two lookups, queue of 3 |

The bounds keep the order of the real ones (a send times out before the
keep-alive falls due: 5 s and 60 s) and let each counter be passed; two lookups
are enough for an answer to belong to an attempt that is over. Both kinds of
host are initial states. `LookupKeepsPCon` does not say that no lookup loses its
`pCon`, which is false, but that the client does not do it by itself: the timer, the
keep-alive, the events of a connection and the task leave an attempt alone while it
waits for the resolver, unless a stray answer came in between. `MQTT_DeleteClient` and the states only it sets are left
out: nothing calls it. TLS is left out: it is not compiled in.

### Packet path, ACL and monitor

Every packet of the router passes one of four hooks. `PacketPath` has an action
for each: `my_input_ap` and `my_output_ap` check the list, feed the monitor
(which comes before the verdict is acted on, so that a denied packet can be
watched), then spend tokens and count the daily total; `my_input_sta` and
`my_output_sta` only check. `passed` says what became of the last packet. The
timer refills both buckets (with the 32-bit product of the code, `Uint32`) and
resets the day; the commands that set rates, limits, rules and the monitor come
at any time between packets.

`Acl` has the lists of `acl.c`. What a check looks at in a packet is its fields
and how many of its headers are there (`room`); a mask is the number of
addresses it makes one, which for a contiguous mask is the bitwise AND of the
code. `Verdict` is the set of flags; `Uncounted` names the two early returns
that count nothing. What passes is decided by the hook (`Passes`), not by `acl.c`.

`Monitor` has an action for each callback of the listening port and each command.
The two flags, the one ring and `cur_mon_conn` are shared by all connections, as
in the code: a connection is accepted whether or not there is one, the end of any
one of them stops the recording, and only the last is sent to by a hook. A
connection may break at any time; the library then calls the reconnect
callback, and the monitor registers none (`MonitorBroken`). A send may fail.
In `RingBuf` a ring is the code's buffer with its two positions; a copy in or out
that the code does in two pieces is one function over all positions. A ring that
was freed is modelled as a new one; nothing reads it while `BufferWhileOn` holds.

Left out: the LED, the watchdog counters and packet statistics of the hooks,
`patch_netif`, the contents of the pcap headers. A packet is taken to be in one
buffer (`p->len = p->tot_len`), as all are that come from the SDK. `config.locked`,
which guards the commands for rules and monitor, is in `Device`.

History variables: `excess` is what has passed beyond rate times elapsed time (so
that `RateLimit` speaks about any stretch of time, not about the bucket),
`metered` excludes the stretch in which the rate was changed (the tokens of the
old rate stay until the next refill), `bytesAtSet` is the total when the daily
limit was set.

| Run | Question | Bounds |
|---|---|---|
| `packet_shape` | limits and statistics: `TypeOK`, `RateLimit`, `DailyLimit`, `HitsCounted` | rates 0 and 3 B/s of one direction, a bucket as large as the largest packet, timer intervals of half and one and a half seconds, products that overflow a "word" of 8; one rule on a soft-AP list or a station list, packets of all kinds; one packet is counted, the daily total up to 5 |
| `packet_monitor` | recording: `BufferWhileOn`, `IdleHasRoom`, `KeepsRecords`, `DeniedNeverPasses` | two symmetric clients, ring of 5, headers of 1, packets of 1 and 3, cut to 1 when less than 4 is free, sends of 2: the ring wraps within headers and packets, is tight, is full; two overlapping rules, one that allows and monitors a network, one that denies and monitors a host in it |

One rate, one packet counted and one small total are enough because the
directions and packets do not depend on each other; what depends on sizes is
proved for all of them.

### The update

`Ota` has an action for each callback of `rboot-ota.c` and for the two commands. An
attempt has a number, which stands for its `espconn`; `conns` says what the library
knows of it, also after the program has forgotten it (`late`: not connected when it was
given up, so that its callback still comes). Most callbacks work on the global
`upgrade`, not on the attempt they belong to: the actions do the same, and follow a
null pointer into the exception the processor would raise (`Exception`, a
restart). `upgrade` may point to freed memory; the model keeps that as a value of its
own, `Freed`, and takes it to be as bad as null, since what is read there is unknown.

`WriteFlash` is the writer: bytes that do not fill a word wait for the next call,
sectors are erased ahead, each of which may fail without being noticed (rboot-api.c:153),
words are programmed, and the call may fail before or after the erasing or be cut by a loss of power after any erase or word. Flash is a
function from words to what was written there; a word that is programmed without
having been erased is `Garbled`. `done` remembers which image each rom was last
completed with. Content of the header, texts for the console and `rboot`'s RTC
variants, which are not compiled in, are left out; how the image is split into
segments, and where the header ends, is free.

| Run | Question | Bounds |
|---|---|---|
| `ota` | `WrittenInOrder`, `BootsWholeImage`, `UpdateUndisturbed` | two attempts, so that a late one meets another; images of 0, 5 and 6 bytes in words of 2 and sectors of 2 words: the last word is partial or not, a second sector is begun; segments of 0, 1, 3 and 4 bytes; a rom of 2 sectors can be overrun |

`BootsWholeImage` counts the last word of an image, also when the image does not fill
it, and excuses by name what the code does not see to: `ota switch` to a rom that
holds nothing ("switch"), an image longer than its rom ("overrun"), an empty one
("empty"), a sector that was not erased ("erase"), and last bytes that make no word
and are never written ("tail", see below). It therefore speaks of images of whole
words. `UpdateUndisturbed` is as narrow as the comment of `upgrade_disconcb`: no second
command replaces an update, and no disconnect of another connection ends it; other
late callbacks do (see below). Two roms, the
sector of the configuration between them, and one sector behind are kept, since an
overrun of one must be able to reach the other. What stops an update that got only
part of its header is the disconnect of its server, and nothing else (see below);
so there is no liveness property here.

### Automesh

`Automesh` is the composition of several repeaters: `flash` and `config` hold what each
has saved and has in RAM, `apOn` whether it is on the air. A scan finds any part of
what is on the air, each with a good or a weak signal. The address a node gives its
access point carries its level; the random rest of it is a number not used before
(three random bytes of the code; two nodes that draw the same are not modelled).
Every save may lose power when the sector is erased: the next start then finds no
configuration and makes the default; a write of the sector is one step here and in
`Device`, so that half of a sector is never found. Sleep between scans is a restart.
`PowerLossKeepsConfig` is about power that fails between two handlers: what RAM knows
then, but for the count of tries, is what the next start finds, whichever handlers
came before. It says nothing of power lost inside a save.

| Run | Question | Bounds |
|---|---|---|
| `automesh` | `NoRing`, `LevelsGrow`, `PowerLossKeepsConfig`, `KeepsTrying` | two symmetric repeaters and the original network, levels modulo 4 (the sentinel 3 is reached by one weak link on the second level), five addresses: each repeater can choose, lose, and choose again |

`NoRing` does not follow from `LevelsGrow`, which has an exception: a weak link to
an access point whose level is the highest value counts as level zero. It holds since
every choice draws a new address, and an uplink is a particular address. A deeper
chain than two repeaters is not in the bounds of the run, but the theorems of
`AutomeshProofs` cover any number of them, and a level byte of any size. Nothing is said of progress: a
repeater whose uplink is found by every scan and refuses every connection tries for
ever, as it should.

### The configuration

`Device` holds `config` (`cfg`), what RAM keeps beside it (`live`: routes, the lists
of rules as empty or not, port mappings, counters, interface mode) and the two
sectors (`rom`). A save is a sequence of writes of sectors; `Persist` either does all of
them, or stops after any erase or write and is down. The start loads or makes defaults
(`BootLoaded`, `BootDefault`), and derives what automesh, the interfaces and the
servers need. Each family of `set` is an operator; settings that are only stored are
together in `Plain`. The web form is a sequence of keys, some of which go through
the commands and are refused when locked, then a save in any case, then a
restart, which is a command as well. The timer counts watchdogs every second time it
runs, and samples the reset pin every time, 900 and 100 ms apart.

Values are small numbers and a name or password is 0 (none) or 1. `excuse` remembers how
the two sectors came to disagree: power lost in between, or a save of the configuration
alone after a save with another size of the table.

| Run | Question | Bounds |
|---|---|---|
| `device` | `TypeOK`, `PortmapsAreOurs`, `LockIsSaved`, `WatchdogsExact`, `HeldLongEnough` | three commands or requests between any number of packets, ticks, restarts and losses of power; a table of 1 to 3 entries or none (`set max_portmap 0`), watchdogs of 2 s, seven low samples |

Three commands are what it takes to change the size, add an entry and save; the
locks need two. `WatchdogsExact` is an equation between the counter of the code and
the time since the last packet of that side, for both sides, through every command,
restart and tick. The factory reset keeps static routes and is below.

### The console

`Console` keeps text as pieces with their length, since what a ring drops it drops
from the oldest. `rx` and `tx` are the rings all parties share, `queue` the two
signals that the task may have waiting; a third post is lost. A party is a telnet
client, the web page, or the serial line, with which MQTT shares the null pointer.
`Handle` is `console_handle_command`: it takes all the ring holds, whosever it is,
and the first word of it decides. `asks` are requests to the SDK: their answers come
later, in any order, to `currentconn`. An answer is its length, from the texts of the
code; the tables among them may be empty or long. An update tells what it meets by
signals (`update_tells`), but ends with a text that has none (`OtaUpdate_CallBack`), or
with a restart; `reset` is a restart as well (`Restarted`).

The interrupt of the UART writes `rx` from under the handlers that use it. Between
handlers it is an input like others (`SerialIn`). Inside one that writes the ring
(`Collision`) two copies move the same head: the texts may be garbled or, where one
of them overflows, the ring may look empty. Inside `console_handle_command`
(`TaskRxInterrupted`, `WebInterrupted`), what is typed may come after the command was
taken out, or its overflow moves the tail that is being read: the command is
garbled, and what is left in the ring with it, or the tail leaves the ring and the
device restarts. A ring may hold a text of which nothing is known but its length
(`Garbled`).

| Run | Question | Bounds |
|---|---|---|
| `console` | `NothingStranded`, `AnswersReachAsker`, `QuitReachesAsker` | three inputs or connections of five parties, every kind of command, lines that are too long, the interrupt inside any handler, tables of 0 and 30 entries, pings of one echo, updates of one text; it may come to rest, so deadlock is not checked |

Three inputs fill a queue of two. The properties name what may go wrong with one
party after another: a signal that was lost (`lost`), another party that came in
between (`user`, `quitter` are `"many"`). With one user, nothing is lost or misled.
`NothingStranded` names one exception: the text of a failed update has no signal, and
stays in the ring until something else is answered.

### GPIO

`Gpio` separates what may come between: edges from outside at any time, the
interrupt handler, which collects all pins that have an edge and switches their
interrupts off, one timer for each run of that handler, and in it, pin by pin, the
reading and the enabling. Commands and expiring durations run to their end. The
configuration with which the device starts is any that can have been saved. The handler
asks for the memory of its timer and uses it unlooked at (user_main.c:1065): without
memory the processor restarts (`Crashed`), and `Start` reads the configuration again.

| Run | Question | Bounds |
|---|---|---|
| `gpio` | `LevelSeen`, `TimerReverts`, `SwitchShows` | two inputs linked to one output in four ways, two commands, two edges, from every configuration, and crashes at any edge; it comes to rest when these are used up, so deadlock is not checked |

An edge between reading a pin and enabling its interrupt again is lost: the pin is
`blind` until the next one. `LevelSeen` says that this is the only way to lose one.
`TimerReverts` says that a timer that runs will change its output: an older timer that
is left over from a setting to the other value breaks it, one from a setting to the value
the output has again cannot be told from the newer setting's own.
Pin 16, which has no interrupt, the LED and the reset pin are not here.

## What the runs found

`bridge_reinit`: `bridge_init` is called on every GOT_IP (bridge.h says once).
The second time, unless the SDK has made the netif anew, it saves its own hooks
as the originals, and the next frame that is handed on never returns.

Also met while modelling. What is said here of steps and state is in the models as the
code does it, unless the item says otherwise, and where a property would say otherwise it
excuses the case by name; none has a run.

*Bridge.* The answer to a unicast renewal of the repeater's own lease is forwarded to
the soft-AP and not to the local stack (bridge.c:643; Bridging.md says such frames fall
through). The transaction that a full map gives up is chosen by the expiry times of the
other table (bridge.c:191). The lease time of DHCP option 51 is parsed and not used as
the lifetime of an entry (Bridging.md:248 says it is).

*MQTT.* `MQTT_Connect`, and the task after Wi-Fi was lost, free `pCon` while a lookup is
under way; the answer then reads `pConn->reverse` of freed memory and writes through
it (mqtt.c:69-70, :76, :88). With a broker configured by name, a reconnect while the resolver still knows the
address never connects, and no timeout ends it (mqtt.c:937). A lookup or a connect that
the library refuses for want of memory leaves the client waiting in `TCP_CONNECTING` until
the next Wi-Fi event. A message that is taken out of the queue and refused by
`espconn_send` is lost. When a connection breaks (`recon_cb`) the application is not told,
so `show mqtt` keeps saying "connected".

*ACL and monitor.* Clearing an ACL forgets the function that reports denied packets until
the next restart (README.md:283 promises the report while `acl_debug` is set). When the
monitor's connection breaks rather than closes, recording goes on without a reader until
the ring is full, and then every packet of the soft-AP is dropped until a client connects or
the monitor is stopped (user_main.c:399). Bytes the monitor took out of its ring for a send
that fails are missing from the stream. If the pcap file header cannot be sent,
`monitoring_send_ongoing` stays set and nothing is sent to that client. Above some
37 Mbit/s the product in the refill of the token buckets overflows within a second and the
rate is lower than set.

*Update.* A segment that ends within the header disarms the timer and arms none
(rboot-ota.c:95, :147), while rboot-ota.h gives a timeout for "each recv": a server that
stops there is waited for as long as it stays connected. `rboot_write_end` is never
called: the update ends with the last segment (rboot-ota.c:164-167), while rboot-api.h:77-83
says "Call at the completion of flash writing. This ensures any outstanding bytes are
written"; of an image whose length is no multiple of 4 the last bytes are never written,
and the rom is switched to it. The result of erasing a sector is not looked at
(rboot-api.c:153). Only `upgrade_disconcb` asks whose callback it is: a connect error or a
failed lookup of an earlier attempt (rboot-ota.c:273-293), and its late connect when there is
no memory for the request (rboot-ota.c:219-223), end the update of now. A resolver error frees the update and
leaves the update flag set (rboot-ota.c:375): no other update can start until a restart. The
text of a failed update is put into the ring without a signal (user_main.c:953). Callbacks
of an attempt that is over follow the null pointer, so that a late error or timeout
restarts the device. The sector of the configuration lies between rom 0 and rom 1, and the
length of an image is not compared with the room there is.

*Configuration.* A factory reset writes the static routes of RAM into the defaults
(user_main.c:3686-3688, config_flash.c:220; README.md:190 says "default config"). After a save
with another `max_portmap`, another saving command before the restart writes the old size
beside the new table, or the reverse. `set automesh 0` when it is off turns learning on
(user_main.c:2496). Choosing another pin with `set hw_reset` keeps the count of low samples.
`set ota_host` ends its copy at byte 63 of `mqtt_host`, which is another, shorter, field.
`set tcp_timeout 0` reaches NAPT at once, where the start would not pass it on.

*Console.* "Firmware update failed!" is put into the ring without a signal
(user_main.c:953), and is seen with the next answer. The interrupt of the UART and the
handlers move the same positions of one ring without excluding each other
(new_uart.c:314, user_main.c:1138-1139): texts mix or are lost, and the tail may leave
the ring. The answer to `nslookup` goes to whoever asked last for a scan, a ping or an
update. `quit` with another answer ahead of its own, or whose signal is lost, ends the
session of whoever is answered next. A new connection throws away what others typed.
`start_monitor` does not look whether its ring could be allocated (user_main.c:423);
this is not in the model, which always gives it one.

*GPIO.* The interrupt handler writes through the result of `os_malloc` without a look
(user_main.c:1065-1068). The value of an output is unknown (255) after the start, so the first press of a
monostable button switches it off. `gpio n mode in` does not read the pin. `gpio n mode
out` while a debounce timer is pending leaves the interrupt enabled.

## What is proved

All proofs are checked by TLAPS, for every value of the constants that satisfies
the assumptions named in the modules (sizes and lifetimes are positive, the
transaction map is not larger than the forwarding database, address sets are
finite and disjoint; what else a module assumes is said with its proofs below). Beyond these
nothing is assumed.

`BridgeProofs`. The invariant `IInv` adds to the properties what makes them
inductive: `OneSlotEach` (no address or transaction has two slots, so the
first hit is the only one: this is what the order of the scan's three tests
buys), `SlotsCurrent` and `XidsCurrent` (every slot in use holds the last
sighting, or user, and expires a lifetime after it) and `LiveSlots` (what is
evicted was not observed later than what stays). One lemma per operation shows
that it keeps the tables (`InsertKeepsFdb`, `InsertKeepsXid`) and what it
sends (`ApSentFacts`, `DownstreamFacts`, `ReplyChaddrIsAsker`), `InvStep` puts
them together. From it: `TypeCorrect`, `SelfIpGuard`, `DatabaseSound`,
`OneMacUpstream`, `RepliesReachTheAsker`. `DatabaseComplete` needs a second invariant,
`CInv`, on top of it: an address seen within its lifetime has a slot, live or not, or
the addresses seen at least as late (`Since`) outnumber the slots (`Remembered`). The
step that matters is an eviction (`EvictedIsOldest`): every slot then holds another live
address, none of them seen before the one that goes, so that with the newcomer they
are `FDB_SIZE` others; the proof counts them by an injection of the slots. That set
only grows until the address is seen again (`SinceGrows`).

`MqttProofs`, first part. `IInv` adds three parts: `DueTick` (in a session that is not
due to ping, the counter has not passed its limit: `TypeOK` needs it), `Asking` (an
attempt that waits for the resolver, with Wi-Fi and undisturbed by a stray answer, is in
`TCP_CONNECTING` with its `pCon` in place) and `LeavingWithWifi` (the states on the
way to freeing `pCon` for good belong to a lost Wi-Fi, so that an address obtained since
has left them). `InvStep` has a
step for each action. From it: `TypeCorrect`, `SendsInSessionOnly`, `ConnackExpected`,
`DisconnectedReport` and the action property `LookupKeepsItsPCon`: of the actions only
three free a `pCon`, and in `TCP_CONNECTING` only the Wi-Fi event does.

`MqttProofs`, second part, about the queue. `QueueInv` says that the ring is `Framed`:
every end mark in it closes the whole frame of a packet that was queued, and after an
end mark, as at the start, comes a begin mark. Remains of refused packets hold no end
mark, so that they stay before the next begin mark or at the end of the ring
(`PutKeepsFramed`); a frame that closes behind an end mark also begins behind it
(`FrameMoves`), so that reading up to one cuts no other frame (`TakeKeepsFramed`).
`Decode` is the heart of it: however the parser was left, and whatever is in the ring
before, the bytes of a frame make it exactly the packet, byte by byte (`PlainByte`,
`EscapedByte`). With it the packets in a ring are not changed by what follows them
(`PacketsStay`), a packet that fits comes last and one that does not is not among them
(`PacketsPut`), and what is taken out is the first of them (`PacketsTaken`). A round of
the loop that makes room takes a packet out or gives up (`RoundIs`), and there are no more packets than
bytes, so that the loop ends with room (`ForcedIs`). What the recursive functions
compute is an induction over numbers; no theorem of the library with an operator as
its parameter can be used, so `UpTo` and `Recursion` have a set and a function in its
place. From it: `QueueInvariant`, `QueueTyped`, `ReadingStartsAtFrame` and the
refinement `RingImplementsFifo`.

`PacketPathProofs` begins with the ring and the monitor, for every capacity: the fill
level (`FreeRange`, `TakeFrees`, `PutFits`) and the contents (`PutAppends`: what is
copied in comes behind what is there, wherever it wraps; `TakeDropsFront`).
`MInv` adds `ListeningHasPort` to the monitor's properties (a connection can
come up only while a port is set, without which `BufferWhileOn` is not
inductive); `MirrorStep` and `MonitorStep` keep it and map each step to one of
`ByteStream`.

Then the limits: `RateInv` makes `RateLimit` inductive: tokens are allowance
that was not used, so tokens and excess together never exceed a bucket.
`ShapeStep` moves from one to the other, `TimerStep` adds to both sides no more
than rate times time (`RefillBound`: an overflow only makes the refill smaller).
`PathStep` puts ACL, monitor and limits together for each action. From it:
`PathTypeCorrect` (tokens, unsigned in C, never go below zero),
`RateIsLimited`, `DayIsLimited`, `RecordsHaveABuffer`, `IdleMonitorHasRoom` and
the refinement `RingImplementsStream`. The assumptions: a tight ring has room
for the longest packet, a cut packet fits one send, one send fits the ring.

`HitsAreCounted` speaks of sums over lists of rules of any length. The library has no
theorem about `SumFunction`, so the module proves those that are needed for finite sets:
the sum exists (`SumsExist`), does not depend on the order in which it is taken
(`SumAnyOrder`) and changes with its terms (`SumWithout`, `SumBump`). These are
inductions over the size of a set, each put as the search for a smallest set that
contradicts it (`SmallestSet`). With them, a packet adds one hit and one to the count of
the same kind (`OneHitCounts`), a rule added keeps the hits and `clear` takes them with
the rules (`AddKeepsHits`, `ClearTakesHits`). `DeniedIsDropped` is an action property: if
no rule that matches allows, neither does the first one (`AppliedIsFirst`), and each hook
that finds its list denying drops the packet, monitored or not.

`AutomeshProofs`. `IInv` adds `AllSound` to the properties: in RAM and in flash, the
uplink of an operational node has a BSSID that was used before the node's own, and lies
below it unless its level byte has the highest value (`Below`), and the tries of an
operational node are not used up. Flash is part of it because any node may restart into
what it saved. `StartKeeps` says that a start with a sound configuration keeps the
invariant, `SaveKeeps` that a save and restart does, whether or not power is lost
inside; with them each handler has a lemma of its own (`ScanFindsKeeps`,
`DisconnectedKeeps`, ...), which shows that the configuration it saves is sound
(`ChosenSound`, `GiveUpSound`). From it: `TypeCorrect`, `LevelsGrowAlongUplinks`,
`PowerLossLosesOnlyTries` (from `FlashIsCurrent`, the part of `IInv` that compares flash
with RAM), `ProvenKeepsTrying` and `UplinksFormNoRing`: of the nodes of a ring,
the one with the lowest BSSID (there is one, as < is well-founded) would have its
uplink below it. That the random bytes of a BSSID are never drawn twice is part of the
model, and the proof rests on it.

`OtaProofs`. `IInv` is `TypeOK` with two parts. `Running`: the update that runs owns
the flag and an open attempt, writes the rom that does not boot, has every whole word
of the download in its place (`Written`) unless a sector was not erased, and its length
is what was programmed and what waits for its word. `Safe`: as long as nothing is excused, the rom that boots
holds its image and the write position has not left the other rom. Without the position
of the writer relative to sectors (`Positioned`: what lies before it is in sectors that
were erased, so that no later erase reaches back), `WrittenInOrder` is not inductive.
`WriteContinues` says that a call of the writer continues the download, or fails or is
cut without touching the other rom, for words and sectors of any size; the lemmas about quotients and products they need
(`SectorAtLeast`, `QuotientIs`, ...) are proved as well. From it: `TypeCorrect`,
`DownloadInOrder`, `BootIsWhole` (both with the excuses of their properties), and the
action property `UpdateNotDisturbed`, with a step for each callback. The assumptions: both roms lie in flash, do not overlap, and
differ (`RomSector`; rboot.h:150-151 puts the second one at half of the flash).

`DeviceProofs`. `IInv` has one part for each property and the shape of RAM, flash and
history (`Shape`). `Watched`: each watchdog's counter and the time since the last
packet add up to the configured time, which is `WatchdogsExact` with what it needs of
a counter that is off. `Mappings`: unless excused, the sector holds as many written
entries as the configuration *in flash* says, and the table in RAM as many as the one
in RAM says; `PortmapsAreOurs`, which speaks of RAM only, is not inductive over a
restart. `Sampled`: the count of low samples and the time they span agree up to the
phase of the timer. Commands, requests and timer fall into three kinds of step, with
a lemma each: changes of RAM that the guarded fields do not see (`Tame`), writes of one
or two sectors that go through or are cut (`PersistOneKeeps`, `CutKeeps`), and
going down (`DownKeeps`). The web form is a recursive function of its keys; `FormNear`
holds for requests of any length, by the least number of keys after which it would
not. From it: `TypeCorrect`, `EntriesAreOurs`, `LockSaved`, `WatchdogsCountExactly` and
the action property `PinHeld`. The assumptions: a factory reset takes an even number of
samples and the time it is documented with is at most half as many seconds
(`HoldTicks`, `HoldMs`: 6 and 3000), and sizes that are set for the table are bounded
by the number of entries that are modelled.

`GpioProofs`. `IInv` adds `Attended` (an input whose interrupt is off is in the mask of
a timer that will read it and switch it on again: without it, an edge that raises no
interrupt might have nobody waiting for it), and states `TimerReverts` and
`SwitchShows` for one pin, or one pair, at a time (`Reverts`, `Shows`): an output shows
what was *last read* of its switch, which together with `LevelSeen` is what the level
says. A setting of a pin may set another by its trigger; `HandleFacts` says what it
leaves alone, `KeptKeeps` that whatever sets or reads one pin keeps the invariant,
`FreedKeeps` the same of the commands that take a pin out of its links. The start reads
the inputs one by one (`BootedFacts`), from pins of which none is in use
(`PowerUpFacts`); a crash leaves nothing to keep. From it: `TypeCorrect`, `EdgesAreSeen`,
`TimersRevert`, `OutputShowsSwitch`.

`ConsoleProofs`. First what `Into` does to a ring, whatever the lengths of its texts
(sums of lengths stay unexpanded; how many pieces go is a number between none and all):
what is in the ring afterwards was there before or is the new piece (`IntoIs`), and the
youngest piece is the new one (`IntoLast`). Then the queue of signals: posting one and
taking one leave the first answer that waits where it is (`PostedKeeps`, `TailKeeps`).
`IInv` restates the three properties so that each is inductive: `OneUser` adds that
requests the SDK has yet to answer, but for `nslookup`, belong to `currentconn`, and
speaks of all signals rather than of answers, because a command answers whoever its own
signal names; `HelpWhole` says that the *youngest* text is not a help that was cut,
without which a later text could uncover one. `HandleKeeps` is the lemma about
`console_handle_command`, used by the task and by the web form alike, interrupted
or not. `TxTold` has the exception of `NothingStranded`: a text that is not that of a
failed update has its signal, or one was lost. From it:
`NobodyIsStranded`, `AnswersReach`, `QuitReaches`.

Only model-checked: the liveness properties `Reconnects` and `QueueWorkedOff` of
`mqtt_client`, since liveness under fairness is out of the prover's reach; every other
property of a passing run is a theorem. No run checks the `TypeOK` of `Bridge`, `MqttClient`, `Automesh`, `Ota` and `Gpio`: they are
theorems.

## Hazards

`PROJECT.json` lists what in this code a test would hardly reach, at its line, with the
properties that would see it go wrong. A note says where the property covers a hazard only
in part, or excuses what the code does by name. Three have no property, because there the code
does go wrong in the way described (see *Also met*): the transaction map's choice
(bridge.c:191), the lease of the repeater itself (bridge.c:643), and the monitor whose
connection breaks (user_main.c:399).

## Plan

Done: every component of the inventory but those under *Not modelled*. Left, in this
order:

1. The text ring of `Console` byte by byte, over `RingBuf`, as `Monitor` is.

## Not modelled

- *MQTT message codec* (`mqtt/mqtt_msg.c`, `utils.c`): builds and reads packets in a
  buffer of its caller, without state of its own; its content is formatting. What
  reading several packets from one segment may do is part of the receive callback,
  which `MqttClient` has for one packet a segment only.
- *System time* (`sys_time.c`): extends a 32-bit counter at each reading, at least
  once a second against a wrap in 71 minutes.
- *Drivers* (`driver/`): registers. What the receive interrupt of the UART does to the
  console's ring is in `Console`. The SPI driver and the Ethernet chip it serves are not built in.
- *NAPT, lwIP, SDK*: libraries, of which the repository has headers and options; modelled
  from their use.
- In `user_main.c`: the text of answers and pages, the status LED, status topics of MQTT,
  packet statistics, and `patch_netif`, whose guard is the one that `bridge_init` lacks.

## Running

    tlc -config MCBridgePath.cfg MCBridge.tla
    tlapm BridgeProofs.tla

The configurations whose names begin with the name of an MC module belong to it.
The longest run, `gpio`, takes about two minutes.
