------------------------------ MODULE Automesh ------------------------------
(* Automesh: repeaters that choose their uplink by scanning, store it in    *)
(* flash and restart into it (automesh_scan_done, the Wi-Fi events and the  *)
(* start of user_main.c, with config_save and config_load).                 *)
(*                                                                          *)
(* An access point is known by its BSSID, which for a repeater is           *)
(* 24:24:level:random; the random bytes are modelled by a number that is    *)
(* never used twice, and any other BSSID is the original network's.         *)
(* Visibility and quality of radio are any at any time.                     *)
EXTENDS Integers, FiniteSets

CONSTANTS
  Nodes,       \* the repeaters
  LevelMod,    \* values of the level byte (256)
  MaxIds       \* bound: BSSIDs ever used

ASSUME AutomeshAssumption ==
  /\ LevelMod \in Nat /\ LevelMod >= 2
  /\ MaxIds \in Nat /\ MaxIds >= 1

VARIABLES
  flash,       \* node -> the saved configuration
  config,      \* node -> the configuration in RAM
  apOn,        \* node -> its access point is on the air
  link,        \* node -> "idle", "associated" or "ip"
  ids,         \* BSSIDs used so far
  proven       \* history: node -> got an address since it was configured

meshVars == <<flash, config, apOn, link, ids, proven>>

None    == [id |-> 0, level |-> 0]
RootAp  == [id |-> 1, level |-> 0]
Sentinel == LevelMod - 1          \* 0xff: nothing found
MAX_TRIES == 3

\* config_load_default, as far as automesh reads it.
Default ==
  [mode |-> "off", checked |-> FALSE, tries |-> 0, bssid |-> None, mac |-> None]

MeshInit ==
  /\ flash = [n \in Nodes |-> [Default EXCEPT !.mode = "learning"]]
  /\ config = flash
  /\ apOn = [n \in Nodes |-> FALSE] /\ link = [n \in Nodes |-> "idle"]
  /\ ids = 1
  /\ proven = [n \in Nodes |-> FALSE]

----------------------------------------------------------------------------
(* Restarts and the flash.                                                  *)

\* config_load and the automesh part of user_init: the access point of a node
\* that still looks for its uplink is off.
Start(n, saved) ==
  /\ config' = [config EXCEPT ![n] = saved]
  /\ flash' = [flash EXCEPT ![n] = saved]
  /\ apOn' = [apOn EXCEPT ![n] = saved.mode = "operational"]
  /\ link' = [link EXCEPT ![n] = "idle"]

\* config_save and system_restart.  Power may fail when the sector is erased:
\* the start then finds no configuration and saves the defaults.  (The write of
\* the sector is one step.)
SaveAndRestart(n, c, proof) ==
  \/ Start(n, c) /\ proven' = [proven EXCEPT ![n] = proof]
  \/ Start(n, Default) /\ proven' = [proven EXCEPT ![n] = FALSE]

\* The power supply fails outside a save, or the node slept (am_scan_time, am_sleep_time).
Restart(n) == Start(n, flash[n]) /\ UNCHANGED <<ids, proven>>

\* The web page: "am", or another "ssid".
Configured(c, on) ==
  IF on THEN [c EXCEPT !.mode = "learning", !.checked = FALSE]
  ELSE [c EXCEPT !.mode = "off"]

Configure(n, on) ==
  /\ SaveAndRestart(n, Configured(config[n], on), FALSE)
  /\ UNCHANGED ids

----------------------------------------------------------------------------
(* The scan.                                                                *)

OnAir(n) == {RootAp} \cup {config[m].mac : m \in {m \in Nodes \ {n} : apOn[m]}}

\* A link below automesh_threshold counts as one level more, in one byte.
Handicapped_mutant(ap, weak) ==     \* the wrong sign
  IF ap \in weak THEN (ap.level - 1) % LevelMod ELSE ap.level
Handicapped(ap, weak) ==
  IF ap \in weak THEN (ap.level + 1) % LevelMod ELSE ap.level

\* The lowest level; the signal decides between equals.
Best(found, weak) ==
  {ap \in found :
     \A other \in found : Handicapped(ap, weak) <= Handicapped(other, weak)}

\* The BSSID of a node that takes ap for its uplink.
NewMac_mutant(n, ap, weak) ==       \* keeps the random bytes it once chose
  [id |-> IF config[n].mac = None THEN ids + 1 ELSE config[n].mac.id,
   level |-> Handicapped(ap, weak) + 1]
NewMac(n, ap, weak) == [id |-> ids + 1, level |-> Handicapped(ap, weak) + 1]

ScanFinds(n) ==
  /\ config[n].mode = "learning"
  /\ ids < MaxIds
  /\ \E found \in SUBSET OnAir(n) : \E weak \in SUBSET found :
       \E ap \in Best(found, weak) :
         /\ Handicapped(ap, weak) < Sentinel
         /\ SaveAndRestart(n,
              [config[n] EXCEPT !.mode = "operational", !.tries = 0,
                                !.bssid = ap, !.mac = NewMac(n, ap, weak)],
              proven[n])
  /\ ids' = ids + 1

\* Nothing, or nothing below the sentinel: what was found last stays noted in
\* RAM, and the scan starts again.
ScanFindsNothing(n) ==
  /\ config[n].mode = "learning"
  /\ \E found \in SUBSET OnAir(n) : \E weak \in SUBSET found :
       /\ \A ap \in found : Handicapped(ap, weak) >= Sentinel
       /\ \E b \in found \cup {config[n].bssid} :
            config' = [config EXCEPT ![n].bssid = b]
  /\ UNCHANGED <<flash, apOn, link, ids, proven>>

----------------------------------------------------------------------------
(* The Wi-Fi events.                                                        *)

\* EVENT_STAMODE_CONNECTED, to the BSSID that is configured or another.
Connected(n, ap) ==
  /\ config[n].mode = "operational" /\ link[n] = "idle"
  /\ ap \in OnAir(n)
  /\ IF config[n].bssid \notin {None, ap}
     THEN SaveAndRestart(n, [config[n] EXCEPT !.mode = "learning"], proven[n])
     ELSE /\ link' = [link EXCEPT ![n] = "associated"]
          /\ UNCHANGED <<flash, config, apOn, proven>>
  /\ UNCHANGED ids

\* EVENT_STAMODE_GOT_IP: the first time, this is noted in flash.
MarkChecked(c) == [c EXCEPT !.checked = TRUE]

NoteChecked_mutant(n) ==            \* forgets to save
  config' = [config EXCEPT ![n] = MarkChecked(@)] /\ UNCHANGED flash
NoteChecked(n) ==
  /\ config' = [config EXCEPT ![n] = MarkChecked(@)]
  /\ flash' = [flash EXCEPT ![n] = MarkChecked(config[n])]

GotIp(n) ==
  /\ config[n].mode = "operational" /\ link[n] = "associated"
  /\ \/ /\ link' = [link EXCEPT ![n] = "ip"]
        /\ apOn' = [apOn EXCEPT ![n] = TRUE]
        /\ proven' = [proven EXCEPT ![n] = TRUE]
        /\ IF config[n].checked THEN UNCHANGED <<flash, config>>
           ELSE NoteChecked(n)
     \/ /\ ~config[n].checked
        /\ Start(n, Default) /\ proven' = [proven EXCEPT ![n] = FALSE]
  /\ UNCHANGED ids

\* EVENT_STAMODE_DISCONNECTED, also of an attempt that failed.
GiveUp_mutant(c, tries) ==          \* whether it once worked is not asked
  IF tries > MAX_TRIES THEN Default ELSE [c EXCEPT !.tries = tries]
GiveUp(c, tries) ==
  IF c.checked
  THEN [c EXCEPT !.tries = tries, !.mode = "learning", !.bssid = None]
  ELSE IF tries > MAX_TRIES THEN Default
  ELSE [c EXCEPT !.tries = tries]

Disconnected(n, noApFound) ==
  /\ config[n].mode = "operational"
  /\ LET tries == config[n].tries + 1
     IN IF config[n].checked /\ tries <= MAX_TRIES
        THEN /\ config' = [config EXCEPT ![n].tries = tries]
             /\ link' = [link EXCEPT ![n] = "idle"]
             /\ apOn' = [apOn EXCEPT ![n] = @ /\ ~noApFound]
             /\ UNCHANGED <<flash, proven>>
        ELSE SaveAndRestart(n, GiveUp(config[n], tries), proven[n])
  /\ UNCHANGED ids

MeshNext ==
  \E n \in Nodes :
    \/ Restart(n)
    \/ \E on \in BOOLEAN : Configure(n, on)
    \/ ScanFinds(n) \/ ScanFindsNothing(n)
    \/ \E ap \in OnAir(n) : Connected(n, ap)
    \/ GotIp(n)
    \/ \E noApFound \in BOOLEAN : Disconnected(n, noApFound)

MeshSpec == MeshInit /\ [][MeshNext]_meshVars

----------------------------------------------------------------------------
(* Properties.                                                              *)

Aps == [id : 0..MaxIds, level : 0..(LevelMod - 1)]
Configs == [mode : {"off", "learning", "operational"}, checked : BOOLEAN,
            tries : 0..(MAX_TRIES + 1), bssid : Aps, mac : Aps]

TypeOK ==
  /\ flash \in [Nodes -> Configs] /\ config \in [Nodes -> Configs]
  /\ apOn \in [Nodes -> BOOLEAN]
  /\ link \in [Nodes -> {"idle", "associated", "ip"}]
  /\ ids \in 1..MaxIds
  /\ proven \in [Nodes -> BOOLEAN]

\* n is configured to use the access point that m offers now.
Uplink(n, m) ==
  /\ config[n].mode = "operational"
  /\ config[n].bssid = config[m].mac
  /\ config[m].mac # None

\* Repeaters never form a ring of uplinks, however often they lose each other,
\* scan, restart and choose again: every way up ends at the original network or
\* at a BSSID that is gone.  (S: the nodes of a ring.)
NoRing ==
  ~ \E S \in (SUBSET Nodes) \ {{}} : \A n \in S : \E m \in S : Uplink(n, m)

\* Along an uplink the level grows, unless the level byte of the one above has
\* its highest value: a weak link to that one is taken for the root.
LevelsGrow ==
  \A n, m \in Nodes :
    Uplink(n, m) /\ config[m].mac.level # Sentinel =>
      config[n].mac.level > config[m].mac.level

\* A configuration that differs at most in the count of tries and, while a scan
\* looks for a new one, in the uplink.
SameButTries(c, d) ==
  /\ c.mode = d.mode /\ c.checked = d.checked /\ c.mac = d.mac
  /\ c.mode # "learning" => c.bssid = d.bssid

\* Power that fails between two handlers, however many events, failures and new
\* uplinks came before, costs a repeater nothing but the count of tries: it
\* starts with the mode, the uplink, the BSSID and the proof of success that it
\* had in RAM.  (Nothing of the kind holds of power lost inside a save, where
\* the sector is erased before it is written: SaveAndRestart and GotIp then
\* start with the defaults.)
PowerLossKeepsConfig ==
  [][\A n \in Nodes :
       Restart(n) => SameButTries(config'[n], config[n])]_meshVars

\* "After it had connected successfully once, it will assume config is correct
\* and keep on trying after connection loss or reset": no number of failures,
\* restarts and new uplinks brings a repeater that got an address back to the
\* defaults; only a new configuration does, and power lost inside a save.
KeepsTrying ==
  \A n \in Nodes : proven[n] => config[n].mode # "off" /\ config[n].checked
=============================================================================
