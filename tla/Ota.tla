-------------------------------- MODULE Ota --------------------------------
(* The over-the-air update: rboot-ota.c (one download over HTTP, driven by  *)
(* the callbacks of espconn and by one timer), the flash writer and the     *)
(* boot configuration of rboot-api.c, and the callers in user_main.c.       *)
(*                                                                          *)
(* Every callback runs to its end before the next one (the SDK does not     *)
(* preempt), but power may fail inside one: the actions that touch the      *)
(* flash have outcomes for that.  Attempts are numbered; the espconn of an  *)
(* attempt is known by that number, and its callbacks may come after the    *)
(* attempt is over.  Flash is a function from words to what they hold:      *)
(* <<a, i>> is word i of the body downloaded by attempt a.                  *)
EXTENDS Integers, FiniteSets

CONSTANTS
  MaxStarts,      \* bound: update attempts
  MaxBytes,       \* bound: body bytes received by one attempt
  Lens,           \* Content-Length values a server may announce
  Chunks,         \* body bytes in one segment
  WordBytes,      \* bytes of a flash word (4)
  SectorWords,    \* words of a sector (1024)
  RomSector,      \* first sector of each rom
  RomSectors,     \* sectors between the rom and what lies behind it
  Sectors         \* sectors of the flash that the model keeps

Slots    == 0..1
Attempts == 1..MaxStarts

ASSUME OtaAssumption ==
  /\ MaxStarts \in Nat /\ MaxBytes \in Nat
  /\ Lens \subseteq Nat /\ Chunks \subseteq Nat
  /\ WordBytes \in Nat \ {0} /\ SectorWords \in Nat \ {0}
  /\ RomSector \in [Slots -> Nat \ {0}]
  /\ RomSectors \in Nat /\ Sectors \in Nat
  /\ \A s \in Slots : RomSector[s] + RomSectors <= Sectors
  /\ \A s, t \in Slots : RomSector[s] < RomSector[t] =>
                           RomSector[s] + RomSectors <= RomSector[t]
  /\ RomSector[0] # RomSector[1]

VARIABLES
  flash,     \* word -> what it holds
  boot,      \* rboot_config.current_rom, or Blank: the sector is erased
  upgrade,   \* the attempt *upgrade belongs to, NoUpgrade (0) or Freed
  status,    \* *upgrade
  flag,      \* system_upgrade_flag
  timer,     \* what ota_timer will call
  conns,     \* attempt -> its espconn
  dns,       \* attempts whose name lookup has not answered
  done,      \* history: the image each rom was last completed with
  excuse     \* history: what the code does not guard against

otaVars == <<flash, boot, upgrade, status, flag, timer, conns, dns, done,
             excuse>>

Blank     == 2
NoUpgrade == 0
Freed     == -1
Old       == <<0, 0>>
Erased    == <<-1, 0>>
Garbled   == <<-2, 0>>
Words     == 0..(Sectors * SectorWords - 1)
Base(s)   == RomSector[s] * SectorWords
SectorOf(w) == w \div SectorWords
RomWords  == RomSectors * SectorWords

\* rboot_write_init: nothing of the rom is erased yet.
WriteInit_mutant(s) ==       \* takes the first sector for erased
  [addr |-> Base(s), erased |-> RomSector[s], extra |-> 0]
WriteInit(s) ==
  [addr |-> Base(s), erased |-> RomSector[s] - 1, extra |-> 0]

NewStatus(s) ==
  [rom_slot |-> s, ok |-> FALSE, total_len |-> 0, content_len |-> 0,
   ws |-> WriteInit(s)]

OtherRom == IF boot = 0 THEN 1 ELSE 0

OtaInit ==
  /\ flash = [w \in Words |-> Old]
  /\ boot \in Slots
  /\ upgrade = NoUpgrade /\ status = NewStatus(0)
  /\ flag = "idle" /\ timer = "off"
  /\ conns = [a \in Attempts |-> "none"] /\ dns = {}
  /\ done = [s \in Slots |-> [att |-> 0, len |-> RomWords * WordBytes]]
  /\ excuse = {}

----------------------------------------------------------------------------
(* The flash writer.                                                        *)

\* The words of the buffer (what was left over and the new bytes) that can be
\* written, and the bytes that stay for the next call.
Whole(ws, n) == (n + ws.extra) \div WordBytes
Rest(ws, n)  == (n + ws.extra) % WordBytes

LastSector(ws, n) == SectorOf(ws.addr + Whole(ws, n) - 1)

ToErase(ws, last) == (ws.erased + 1)..last

EraseTo(fl, ws, last) ==
  [w \in Words |->
     IF SectorOf(w) > ws.erased /\ SectorOf(w) <= last THEN Erased ELSE fl[w]]

\* The result of an erase is not looked at: the sector may be as it was.
EraseOnly(fl, sectors) ==
  [w \in Words |-> IF SectorOf(w) \in sectors THEN Erased ELSE fl[w]]

\* Flash bits can only be cleared: a word that was not erased is garbled.
Program(fl, ws, n, a) ==
  [w \in Words |->
     IF w < ws.addr \/ w >= ws.addr + n THEN fl[w]
     ELSE IF fl[w] = Erased THEN <<a, w - Base(status.rom_slot)>>
     ELSE Garbled]

MaxOf(x, y) == IF x < y THEN y ELSE x

\* rboot_write_flash: everything a call with n bytes can come to.  "cut" is
\* power lost between the first erase and the last word; "fault" is what went
\* wrong and is not noticed.
WriteFlash(fl, ws, n, a) ==
  LET last  == LastSector(ws, n)
      clean == EraseTo(fl, ws, last)
      next  == [addr |-> ws.addr, erased |-> MaxOf(ws.erased, last),
                extra |-> Rest(ws, n)]
      moved == [next EXCEPT !.addr = ws.addr + Whole(ws, n)]
  IN IF n = 0 THEN {[res |-> "ok", flash |-> fl, ws |-> ws, fault |-> {}]}
     ELSE {[res |-> "fail", flash |-> fl, ws |-> ws, fault |-> {}],
           [res |-> "fail", flash |-> clean, ws |-> next, fault |-> {}],
           [res |-> "ok", flash |-> Program(clean, ws, Whole(ws, n), a),
            ws |-> moved, fault |-> {}]}
          \cup {[res |-> "cut", flash |-> EraseTo(fl, ws, s), ws |-> ws,
                 fault |-> {}] : s \in RomSector[status.rom_slot]..last}
          \cup {[res |-> "cut", flash |-> Program(clean, ws, i, a),
                 ws |-> ws, fault |-> {}] : i \in 0..Whole(ws, n)}
          \cup {[res |-> "ok", ws |-> moved, fault |-> {"erase"},
                 flash |-> Program(EraseOnly(fl, good), ws, Whole(ws, n), a)] :
                   good \in SUBSET ToErase(ws, last) \ {ToErase(ws, last)}}

Overrun(ws, n) ==
  IF ws.addr + Whole(ws, n) > Base(status.rom_slot) + RomWords
  THEN {"overrun"} ELSE {}

----------------------------------------------------------------------------
(* The end of an update, and of the program.                                *)

\* A restart loses RAM; a boot loader that finds no configuration writes one
\* that boots rom 0.
Reboot(cfg) ==
  /\ boot' = IF cfg = Blank THEN 0 ELSE cfg
  /\ upgrade' = NoUpgrade /\ status' = NewStatus(0)
  /\ flag' = "idle" /\ timer' = "off" /\ dns' = {}
  /\ conns' = [a \in Attempts |->
                 IF conns[a] = "none" THEN "none" ELSE "gone"]

\* A callback that follows a null pointer ends in an exception.
Exception == Reboot(boot) /\ UNCHANGED <<flash, done, excuse>>

PowerFails == Reboot(boot) /\ UNCHANGED <<flash, done, excuse>>

\* rboot_set_current_rom and system_restart: no memory, done, or power lost
\* when the sector is erased.
SetRomAndRestart(s) == \E cfg \in {boot, s, Blank} : Reboot(cfg)

\* rboot_ota_deinit of an update that is not finished; the callback only
\* prints.  An espconn that is not connected yet is not closed by a disconnect.
Ended(c) == CASE c = "open" -> "closing" [] c = "connecting" -> "late"
              [] OTHER -> c

Deinit ==
  /\ timer' = "off" /\ flag' = "idle"
  /\ upgrade' = NoUpgrade /\ status' = NewStatus(0)
  /\ conns' = [conns EXCEPT ![upgrade] = Ended(@)]
  /\ UNCHANGED <<boot, dns, done>>

\* upgrade_disconcb(upgrade->conn) from a callback that is not the connection's
\* own: the structure is freed, what espconn knows of it is not.
DropOwn(cs) ==
  /\ timer' = "off" /\ flag' = "idle"
  /\ upgrade' = NoUpgrade /\ status' = NewStatus(0)
  /\ conns' = [cs EXCEPT ![upgrade] =
                 IF @ \in {"connecting", "open"} THEN "late" ELSE "gone"]
  /\ UNCHANGED <<flash, boot, done, excuse>>

\* rboot_ota_deinit of a complete download, and OtaUpdate_CallBack.  Nobody
\* calls rboot_write_end: bytes that make no whole word are not written.
Finish(slot, len) ==
  /\ done' = IF len = 0 THEN done
             ELSE [done EXCEPT ![slot] = [att |-> upgrade, len |-> len]]
  /\ SetRomAndRestart(slot)

----------------------------------------------------------------------------
(* "ota update" and "ota switch".                                           *)

Idle == flag # "start"

NextAttempt(a) == conns[a] = "none" /\ \A b \in 1..(a - 1) : conns[b] # "none"

\* rboot_ota_start with no memory: the structure may be freed and still be
\* pointed to.
StartNoMemory ==
  /\ Idle
  /\ upgrade' \in {NoUpgrade, Freed}
  /\ UNCHANGED <<flash, boot, status, flag, timer, conns, dns, done, excuse>>

\* rboot_ota_start: the name is known, is looked up, or cannot be looked up.
Start(a) ==
  /\ Idle /\ NextAttempt(a)
  /\ flag' = "start"
  /\ \/ /\ upgrade' = a /\ status' = NewStatus(OtherRom)
        /\ conns' = [conns EXCEPT ![a] = "connecting"]
        /\ timer' = "connect" /\ UNCHANGED dns
     \/ /\ upgrade' = a /\ status' = NewStatus(OtherRom)
        /\ conns' = [conns EXCEPT ![a] = "new"]
        /\ dns' = dns \cup {a} /\ UNCHANGED timer
     \/ /\ upgrade' = Freed
        /\ conns' = [conns EXCEPT ![a] = "gone"]
        /\ UNCHANGED <<status, timer, dns>>
  /\ UNCHANGED <<flash, boot, done, excuse>>

\* Switch: the other rom, whatever it holds.
Switch ==
  /\ SetRomAndRestart(OtherRom)
  /\ excuse' = excuse \cup {"switch"}
  /\ UNCHANGED <<flash, done>>

----------------------------------------------------------------------------
(* The callbacks.                                                           *)

\* upgrade_resolved works on the current upgrade, whoever asked.
Resolved(a) ==
  /\ a \in dns
  /\ \/ /\ upgrade <= 0 /\ Exception
     \/ /\ upgrade > 0 /\ dns' = dns \ {a}
        /\ \/ DropOwn(conns)
           \/ /\ conns' = [conns EXCEPT ![upgrade] =
                             IF @ = "new" THEN "connecting" ELSE @]
              /\ timer' = "connect"
              /\ UNCHANGED <<flash, boot, upgrade, status, flag, done, excuse>>

\* A connection that was given up has no callbacks but those it had.
Opened(a) == [conns EXCEPT ![a] = IF @ = "connecting" THEN "open" ELSE "gone"]

\* upgrade_connect_cb: registers the other callbacks and sends the request, or
\* has no memory for it and ends the update of now, whoever connected.
Connected(a) ==
  /\ conns[a] \in {"connecting", "late"}
  /\ \/ /\ upgrade <= 0 /\ Exception
     \/ /\ upgrade > 0
        /\ conns' = Opened(a) /\ timer' = "deinit"
        /\ UNCHANGED <<flash, boot, upgrade, status, flag, dns, done, excuse>>
     \/ /\ upgrade > 0
        /\ conns' = [Opened(a) EXCEPT ![upgrade] = Ended(@)]
        /\ timer' = "off" /\ flag' = "idle"
        /\ upgrade' = NoUpgrade /\ status' = NewStatus(0)
        /\ UNCHANGED <<flash, boot, dns, done, excuse>>

\* upgrade_recon_cb: an error of any attempt's connection.
ConnectionError(a) ==
  /\ conns[a] \in {"connecting", "open", "late"}
  /\ \/ /\ upgrade <= 0 /\ Exception
     \/ /\ upgrade > 0
        /\ DropOwn([conns EXCEPT ![a] = "gone"]) /\ UNCHANGED dns

\* upgrade_disconcb as the connection's own callback: the timer goes before
\* the code looks whose connection it was.
Disconnected_mutant(a) ==    \* ends the update, whosever connection it was
  /\ conns[a] \in {"open", "closing"}
  /\ conns' = [conns EXCEPT ![a] = "gone"]
  /\ timer' = "off"
  /\ flag' = "idle" /\ upgrade' = NoUpgrade /\ status' = NewStatus(0)
  /\ UNCHANGED <<flash, boot, dns, done, excuse>>
Disconnected(a) ==
  /\ conns[a] \in {"open", "closing"}
  /\ conns' = [conns EXCEPT ![a] = "gone"]
  /\ timer' = "off"
  /\ IF upgrade = a
     THEN flag' = "idle" /\ upgrade' = NoUpgrade /\ status' = NewStatus(0)
     ELSE UNCHANGED <<flag, upgrade, status>>
  /\ UNCHANGED <<flash, boot, dns, done, excuse>>

ConnectTimeout ==
  /\ timer = "connect"
  /\ \/ upgrade <= 0 /\ Exception
     \/ upgrade > 0 /\ DropOwn(conns) /\ UNCHANGED dns

ReceiveTimeout ==
  /\ timer = "deinit"
  /\ \/ upgrade <= 0 /\ Exception
     \/ upgrade > 0 /\ Deinit /\ UNCHANGED <<flash, excuse>>

----------------------------------------------------------------------------
(* upgrade_recvcb.                                                          *)

InHeader == status.content_len = 0

\* Too short, or not "200".
BadResponse(a) ==
  /\ upgrade = a /\ conns[a] = "open" /\ ~status.ok
  /\ Deinit /\ UNCHANGED <<flash, excuse>>

\* Part of a header: no timer is set for the rest.
HeaderContinues(a) ==
  /\ upgrade = a /\ conns[a] = "open" /\ InHeader
  /\ status' = [status EXCEPT !.ok = TRUE]
  /\ timer' = "off"
  /\ UNCHANGED <<flash, boot, upgrade, flag, conns, dns, done, excuse>>

Complete_mutant(total, content) == total + WordBytes >= content  \* a word too early
Complete(total, content) == total = content

\* What follows a write: the image is complete, the connection is over, or
\* the timer waits for the next segment.
AfterWrite(a, n, clen, w) ==
  LET total == status.total_len + n
  IN CASE w.res = "fail" -> Deinit
       [] w.res = "cut" -> Reboot(boot) /\ UNCHANGED done
       [] w.res = "ok" /\ Complete(total, clen) ->
            Finish(status.rom_slot, clen)
       [] OTHER ->
            \/ Deinit
            \/ /\ status' = [status EXCEPT !.ok = TRUE, !.total_len = total,
                                           !.content_len = clen, !.ws = w.ws]
               /\ timer' = "deinit"
               /\ UNCHANGED <<boot, upgrade, flag, conns, dns, done>>

\* Bytes of a complete download that are in no word of the flash.
Tail(total, clen, w) ==
  IF w.res = "ok" /\ Complete(total, clen) /\ w.ws.extra # 0 THEN {"tail"} ELSE {}

Segment(a, n, clen) ==
  /\ upgrade = a /\ conns[a] = "open"
  /\ status.total_len + n <= MaxBytes
  /\ \E w \in WriteFlash(flash, status.ws, n, a) :
       /\ flash' = w.flash
       /\ excuse' = excuse \cup w.fault \cup Overrun(status.ws, n)
                    \cup Tail(status.total_len + n, clen, w)
                    \cup (IF clen = 0 THEN {"empty"} ELSE {})
       /\ AfterWrite(a, n, clen, w)

\* The end of the header and the first bytes of the image.
HeaderEnds(a, clen, n) == InHeader /\ Segment(a, n, clen)

Body(a, n) == ~InHeader /\ n > 0 /\ Segment(a, n, status.content_len)

OtaNext ==
  \/ PowerFails \/ StartNoMemory \/ Switch
  \/ ConnectTimeout \/ ReceiveTimeout
  \/ \E a \in Attempts :
       \/ Start(a) \/ Resolved(a) \/ Connected(a)
       \/ ConnectionError(a) \/ Disconnected(a)
       \/ BadResponse(a) \/ HeaderContinues(a)
       \/ \E n \in Chunks : Body(a, n)
       \/ \E n \in Chunks, clen \in Lens : HeaderEnds(a, clen, n)

OtaSpec == OtaInit /\ [][OtaNext]_otaVars

----------------------------------------------------------------------------
(* Properties.                                                              *)

Cells == {Old, Erased, Garbled} \cup (Attempts \X Nat)

TypeOK ==
  /\ flash \in [Words -> Cells]
  /\ boot \in Slots
  /\ upgrade \in Attempts \cup {NoUpgrade, Freed}
  /\ status \in [rom_slot : Slots, ok : BOOLEAN, total_len : Nat,
                 content_len : Nat,
                 ws : [addr : Nat, erased : Nat, extra : 0..(WordBytes - 1)]]
  /\ flag \in {"idle", "start"}
  /\ timer \in {"off", "connect", "deinit"}
  /\ conns \in [Attempts -> {"none", "new", "connecting", "open", "closing",
                             "late", "gone"}]
  /\ dns \subseteq Attempts
  /\ done \in [Slots -> [att : Attempts \cup {0}, len : Nat]]
  /\ excuse \subseteq {"switch", "overrun", "empty", "erase", "tail"}

\* While an update runs, the flash behind the start of its rom holds the words
\* of this download, each at its place and none programmed over another, up to
\* the write position, and erased words from there to the end of the last sector
\* that was erased; the bytes received and not written are less than a word.
\* (rboot_write_flash, over segments of any length, as long as the sectors
\* are erased when the flash is told to.)
WrittenInOrder ==
  upgrade > 0 /\ "erase" \notin excuse =>
    LET ws == status.ws
        b  == Base(status.rom_slot)
    IN /\ \A w \in Words : w >= b /\ w < ws.addr => flash[w] = <<upgrade, w - b>>
       /\ \A w \in Words : w >= ws.addr /\ SectorOf(w) <= ws.erased =>
                              flash[w] = Erased
       /\ status.total_len = (ws.addr - b) * WordBytes + ws.extra

\* Words of an image, with the last one that it does not fill.
WordsOf(len) == (len + WordBytes - 1) \div WordBytes

HoldsImage(s) ==
  \A i \in 0..(WordsOf(done[s].len) - 1) :
     flash[Base(s) + i] = IF done[s].att = 0 THEN Old ELSE <<done[s].att, i>>

\* At any moment power may fail, and the device boots a complete image: the rom
\* it would boot holds every word of the last image that was completed for it,
\* however an update ended and wherever in it the power was lost.  Excused, by
\* name, is what the code does not look at: an image longer than its rom
\* ("overrun"), an empty one ("empty"), "ota switch" ("switch"), a sector that
\* was not erased ("erase"), and the last bytes of an image that do not fill a
\* word ("tail"), which nobody writes.
BootsWholeImage == excuse = {} => HoldsImage(boot)

\* An update that runs is not replaced by another one, and not ended by the
\* disconnect of another attempt's connection (the comment of upgrade_disconcb).
UpdateUndisturbed ==
  [][ upgrade > 0 /\ upgrade' # upgrade =>
        /\ upgrade' = NoUpgrade
        /\ \A a \in Attempts \ {upgrade} :
              conns[a] \in {"open", "closing"} =>
                conns' # [conns EXCEPT ![a] = "gone"] ]_otaVars
=============================================================================
