--------------------------- MODULE AutomeshProofs ---------------------------
(* Proofs about Automesh.  Every BSSID a repeater takes is new, so it is    *)
(* higher than that of the uplink it was made for: the lowest BSSID of a    *)
(* ring would have none below it.                                           *)
EXTENDS Automesh, TLAPS, WellFoundedInduction

Modes == {"off", "learning", "operational"}

\* The uplink of an operational node came before its own BSSID, and lies below
\* it unless its level byte has the highest value.
Below(c) ==
  /\ c.bssid.id < c.mac.id
  /\ c.bssid.level # Sentinel => c.mac.level > c.bssid.level

\* A configuration that can be in RAM or in flash when top BSSIDs were used.
Sound(c, top) ==
  /\ c \in Configs
  /\ c.mac.id <= top
  /\ c.mode = "operational" => Below(c) /\ c.tries <= MAX_TRIES

AllSound == \A n \in Nodes : Sound(config[n], ids) /\ Sound(flash[n], ids)

\* In every state that the handlers leave, flash holds what RAM holds, but for
\* the tries.
FlashIsCurrent == \A n \in Nodes : SameButTries(flash[n], config[n])

IInv == TypeOK /\ AllSound /\ FlashIsCurrent /\ KeepsTrying

----------------------------------------------------------------------------
(* Access points and configurations.                                        *)

(* A weak link counts as one level more, in one byte: the sum stays a byte, *)
(* and is only lower than the level when that was the highest.              *)
LEMMA HandicapRange ==
  ASSUME NEW ap \in Aps, NEW weak
  PROVE  /\ Handicapped(ap, weak) \in 0..Sentinel
         /\ ap.level # Sentinel => Handicapped(ap, weak) >= ap.level
<1>1. ap.level \in 0..(LevelMod - 1) /\ LevelMod \in Nat /\ LevelMod >= 2
  BY AutomeshAssumption DEF Aps
<1>2. CASE ap.level = LevelMod - 1
  <2>1. (ap.level + 1) % LevelMod = 0
    BY <1>1, <1>2
  <2>2. QED
    BY <1>1, <1>2, <2>1 DEF Handicapped, Sentinel
<1>3. CASE ap.level # LevelMod - 1
  <2>1. (ap.level + 1) % LevelMod = ap.level + 1
    BY <1>1, <1>3
  <2>2. QED
    BY <1>1, <1>3, <2>1 DEF Handicapped, Sentinel
<1>4. QED
  BY <1>2, <1>3

(* What a scan can find has a BSSID that was used already.                  *)
LEMMA OnAirKnown ==
  ASSUME TypeOK, AllSound, NEW n \in Nodes, NEW ap \in OnAir(n)
  PROVE  ap \in Aps /\ ap.id <= ids
<1>1. ids \in 1..MaxIds /\ LevelMod \in Nat /\ LevelMod >= 2 /\ MaxIds \in Nat
  BY AutomeshAssumption DEF TypeOK
<1>2. CASE ap = RootAp
  BY <1>1, <1>2 DEF RootAp, Aps
<1>3. CASE \E m \in Nodes : ap = config[m].mac
  BY <1>1, <1>3 DEF AllSound, Sound, Configs
<1>4. QED
  BY <1>2, <1>3 DEF OnAir

(* The defaults of config_load_default are sound.                           *)
LEMMA DefaultSound ==
  ASSUME NEW top \in Nat
  PROVE  Sound(Default, top)
BY AutomeshAssumption DEF Sound, Default, None, Configs, Aps, MAX_TRIES

(* A sound configuration stays sound when later BSSIDs are used.            *)
LEMMA SoundLater ==
  ASSUME NEW c, NEW top \in Nat, NEW later \in Nat, top <= later, Sound(c, top)
  PROVE  Sound(c, later)
BY DEF Sound, Configs, Aps

(* A configuration that is not operational needs only its type.             *)
LEMMA IdleSound ==
  ASSUME NEW c, NEW top \in Nat, Sound(c, top),
         NEW d \in Configs, d.mac = c.mac, d.mode # "operational"
  PROVE  Sound(d, top)
BY DEF Sound

(* Taking an uplink keeps a configuration's type.                           *)
LEMMA UplinkTyped ==
  ASSUME NEW c \in Configs, NEW ap \in Aps, NEW mac \in Aps
  PROVE  [c EXCEPT !.mode = "operational", !.tries = 0, !.bssid = ap, !.mac = mac]
           \in Configs
<1>1. 0 \in 0..(MAX_TRIES + 1)
  BY DEF MAX_TRIES
<1> DEFINE Tries == 0..(MAX_TRIES + 1)
<1>2. c \in [mode : Modes, checked : BOOLEAN, tries : Tries, bssid : Aps, mac : Aps]
  BY DEF Configs, Modes
<1>3. "operational" \in Modes /\ 0 \in Tries
  BY <1>1 DEF Modes
<1>4. Configs = [mode : Modes, checked : BOOLEAN, tries : Tries, bssid : Aps, mac : Aps]
  BY DEF Configs, Modes
<1> HIDE DEF Tries
<1>5. [c EXCEPT !.mode = "operational", !.tries = 0, !.bssid = ap, !.mac = mac]
        \in [mode : Modes, checked : BOOLEAN, tries : Tries, bssid : Aps, mac : Aps]
  BY <1>2, <1>3
<1>6. QED
  BY <1>4, <1>5

(* The configuration automesh_scan_done makes of the access point it chose. *)
LEMMA ChosenSound ==
  ASSUME TypeOK, AllSound, ids < MaxIds,
         NEW n \in Nodes, NEW weak, NEW ap \in OnAir(n),
         Handicapped(ap, weak) < Sentinel
  PROVE  Sound([config[n] EXCEPT !.mode = "operational", !.tries = 0,
                                 !.bssid = ap, !.mac = NewMac(n, ap, weak)],
               ids + 1)
<1> DEFINE h == Handicapped(ap, weak)
           c == [config[n] EXCEPT !.mode = "operational", !.tries = 0,
                                  !.bssid = ap, !.mac = NewMac(n, ap, weak)]
<1>1. ap \in Aps /\ ap.id <= ids
  BY OnAirKnown
<1>2. h \in 0..Sentinel /\ h < Sentinel /\ (ap.level # Sentinel => h >= ap.level)
  BY <1>1, HandicapRange
<1>3. ids \in 1..MaxIds /\ LevelMod \in Nat /\ MaxIds \in Nat /\ ids < MaxIds
  BY AutomeshAssumption DEF TypeOK
<1>4. config[n] \in Configs
  BY DEF TypeOK
<1>5. NewMac(n, ap, weak) = [id |-> ids + 1, level |-> h + 1]
  BY DEF NewMac
<1> HIDE DEF h
<1>6. NewMac(n, ap, weak) \in Aps
  BY <1>2, <1>3, <1>5 DEF Aps, Sentinel
<1>7. /\ c.mode = "operational" /\ c.tries = 0 /\ c.bssid = ap
      /\ c.mac = NewMac(n, ap, weak)
  BY <1>4 DEF Configs
<1>8. c \in Configs
  BY <1>1, <1>4, <1>6, UplinkTyped
<1>9. c.mac.id = ids + 1 /\ c.mac.level = h + 1
  BY <1>5, <1>7
<1>10. ap.id \in Nat /\ ap.level \in Nat /\ h \in Nat /\ ids \in Nat
  BY <1>1, <1>2, <1>3 DEF Aps
<1> HIDE DEF c
<1>11. Below(c)
  BY <1>1, <1>2, <1>7, <1>9, <1>10 DEF Below
<1>12. Sound(c, ids + 1)
  BY <1>7, <1>8, <1>9, <1>10, <1>11 DEF Sound, MAX_TRIES
<1>13. QED
  BY <1>12 DEF c

----------------------------------------------------------------------------
(* Restarts.                                                                *)

(* A node that starts with a sound configuration in flash keeps the         *)
(* invariant, if it only counts as proven when that configuration is.       *)
LEMMA StartKeeps ==
  ASSUME IInv, NEW n \in Nodes, NEW c, Start(n, c), Sound(c, ids'),
         ids' \in 1..MaxIds, ids <= ids',
         NEW proof \in BOOLEAN, proven' = [proven EXCEPT ![n] = proof],
         proof => c.mode # "off" /\ c.checked
  PROVE  IInv'
<1>1. /\ config' = [config EXCEPT ![n] = c] /\ flash' = [flash EXCEPT ![n] = c]
      /\ apOn' = [apOn EXCEPT ![n] = c.mode = "operational"]
      /\ link' = [link EXCEPT ![n] = "idle"]
  BY DEF Start
<1>2. c \in Configs
  BY DEF Sound
<1>3. TypeOK
  BY DEF IInv
<1>4. TypeOK'
  BY <1>1, <1>2, <1>3 DEF TypeOK
<1>5. ASSUME NEW m \in Nodes
      PROVE  /\ config'[m] = IF m = n THEN c ELSE config[m]
             /\ flash'[m] = IF m = n THEN c ELSE flash[m]
             /\ proven'[m] = IF m = n THEN proof ELSE proven[m]
  BY <1>1, <1>3 DEF TypeOK
<1>6. AllSound'
  <2>1. ids \in Nat /\ ids' \in Nat
    BY <1>3, AutomeshAssumption DEF TypeOK
  <2>2. ASSUME NEW m \in Nodes
        PROVE  Sound(config[m], ids') /\ Sound(flash[m], ids')
    BY <2>1, SoundLater DEF IInv, AllSound
  <2>3. QED
    BY <1>5, <2>2 DEF AllSound
<1>7. FlashIsCurrent'
  BY <1>5 DEF IInv, FlashIsCurrent, SameButTries
<1>8. KeepsTrying'
  BY <1>5 DEF IInv, KeepsTrying
<1>9. QED
  BY <1>4, <1>6, <1>7, <1>8 DEF IInv

(* config_save and system_restart, whether or not power fails in between.   *)
LEMMA SaveKeeps ==
  ASSUME IInv, NEW n \in Nodes, NEW c, NEW proof \in BOOLEAN,
         SaveAndRestart(n, c, proof), Sound(c, ids'),
         ids' \in 1..MaxIds, ids <= ids',
         proof => c.mode # "off" /\ c.checked
  PROVE  IInv'
<1>1. Sound(Default, ids')
  BY DefaultSound, AutomeshAssumption
<1>2. CASE Start(n, c) /\ proven' = [proven EXCEPT ![n] = proof]
  BY <1>2, StartKeeps
<1>3. CASE Start(n, Default) /\ proven' = [proven EXCEPT ![n] = FALSE]
  BY <1>1, <1>3, StartKeeps
<1>4. QED
  BY <1>2, <1>3 DEF SaveAndRestart

(* A power failure or a wake-up from sleep: the flash is sound, and keeps   *)
(* what the node had proven.                                                *)
LEMMA RestartKeeps ==
  ASSUME IInv, NEW n \in Nodes, Restart(n)
  PROVE  IInv'
<1>1. ids' = ids /\ proven' = proven /\ Start(n, flash[n])
  BY DEF Restart
<1>2. ids \in 1..MaxIds /\ ids <= ids
  BY AutomeshAssumption DEF IInv, TypeOK
<1>3. Sound(flash[n], ids')
  BY <1>1 DEF IInv, AllSound
<1>4. proven[n] \in BOOLEAN /\ proven' = [proven EXCEPT ![n] = proven[n]]
  BY <1>1 DEF IInv, TypeOK
<1>5. proven[n] => flash[n].mode # "off" /\ flash[n].checked
  BY DEF IInv, FlashIsCurrent, SameButTries, KeepsTrying
<1>6. QED
  BY <1>1, <1>2, <1>3, <1>4, <1>5, StartKeeps

(* "am" and "ssid" of the web page.                                         *)
LEMMA ConfigureKeeps ==
  ASSUME IInv, NEW n \in Nodes, NEW on \in BOOLEAN, Configure(n, on)
  PROVE  IInv'
<1> DEFINE c == Configured(config[n], on)
<1>1. ids' = ids /\ SaveAndRestart(n, c, FALSE)
  BY DEF Configure
<1>2. ids \in 1..MaxIds /\ ids <= ids /\ ids \in Nat
  BY AutomeshAssumption DEF IInv, TypeOK
<1>3. Sound(config[n], ids) /\ config[n] \in Configs
  BY DEF IInv, AllSound, Sound
<1>4. c \in Configs /\ c.mac = config[n].mac /\ c.mode # "operational"
  BY <1>3 DEF Configured, Configs
<1> HIDE DEF c
<1>5. Sound(c, ids')
  BY <1>1, <1>2, <1>3, <1>4, IdleSound
<1>6. QED
  BY <1>1, <1>2, <1>5, SaveKeeps

(* A scan that ends with an uplink and a new BSSID.                         *)
LEMMA ScanFindsKeeps ==
  ASSUME IInv, NEW n \in Nodes, ScanFinds(n)
  PROVE  IInv'
<1>1. /\ ids' = ids + 1 /\ ids < MaxIds
      /\ config[n].mode = "learning"
  BY DEF ScanFinds
<1>2. ids \in 1..MaxIds /\ MaxIds \in Nat
  BY AutomeshAssumption DEF IInv, TypeOK
<1>3. ids' \in 1..MaxIds /\ ids <= ids'
  BY <1>1, <1>2
<1>4. PICK found \in SUBSET OnAir(n) : \E weak \in SUBSET found :
        \E ap \in Best(found, weak) :
          /\ Handicapped(ap, weak) < Sentinel
          /\ SaveAndRestart(n,
               [config[n] EXCEPT !.mode = "operational", !.tries = 0,
                                 !.bssid = ap, !.mac = NewMac(n, ap, weak)],
               proven[n])
  BY DEF ScanFinds
<1>5. PICK weak \in SUBSET found, ap \in OnAir(n) :
        /\ Handicapped(ap, weak) < Sentinel
        /\ SaveAndRestart(n,
             [config[n] EXCEPT !.mode = "operational", !.tries = 0,
                               !.bssid = ap, !.mac = NewMac(n, ap, weak)],
             proven[n])
  BY <1>4 DEF Best
<1> DEFINE c == [config[n] EXCEPT !.mode = "operational", !.tries = 0,
                                  !.bssid = ap, !.mac = NewMac(n, ap, weak)]
<1>6. Sound(c, ids')
  BY <1>1, <1>5, ChosenSound DEF IInv
<1>7. c.mode = "operational" /\ c.checked = config[n].checked
  BY DEF IInv, TypeOK, Configs
<1>8. proven[n] \in BOOLEAN /\ (proven[n] => config[n].checked)
  BY DEF IInv, TypeOK, KeepsTrying
<1>9. SaveAndRestart(n, c, proven[n])
  BY <1>5
<1> HIDE DEF c
<1>10. QED
  BY <1>3, <1>6, <1>7, <1>8, <1>9, SaveKeeps

(* A scan that ends without one only notes a BSSID in RAM.                  *)
LEMMA ScanFindsNothingKeeps ==
  ASSUME IInv, NEW n \in Nodes, ScanFindsNothing(n)
  PROVE  IInv'
<1>1. PICK b \in OnAir(n) \cup {config[n].bssid} :
        config' = [config EXCEPT ![n].bssid = b]
  BY DEF ScanFindsNothing
<1>2. /\ config[n].mode = "learning"
      /\ flash' = flash /\ apOn' = apOn /\ link' = link /\ ids' = ids /\ proven' = proven
  BY DEF ScanFindsNothing
<1>3. TypeOK /\ AllSound
  BY DEF IInv
<1>4. b \in Aps
  <2>1. CASE b \in OnAir(n)
    BY <1>3, <2>1, OnAirKnown
  <2>2. CASE b = config[n].bssid
    BY <1>3, <2>2 DEF TypeOK, Configs
  <2>3. QED
    BY <1>1, <2>1, <2>2
<1> DEFINE c == [config[n] EXCEPT !.bssid = b]
<1>5. config[n] \in Configs /\ config' = [config EXCEPT ![n] = c]
  BY <1>1, <1>3 DEF TypeOK
<1>6. /\ c \in Configs /\ c.mode = "learning" /\ c.mac = config[n].mac
      /\ c.checked = config[n].checked
  BY <1>2, <1>4, <1>5 DEF Configs
<1> HIDE DEF c
<1>7. ASSUME NEW m \in Nodes
      PROVE  config'[m] = IF m = n THEN c ELSE config[m]
  BY <1>3, <1>5 DEF TypeOK
<1>8. Sound(c, ids)
  BY <1>3, <1>6, <1>7, AutomeshAssumption, IdleSound DEF AllSound, TypeOK
<1>9. TypeOK'
  BY <1>2, <1>3, <1>5, <1>6 DEF TypeOK
<1>10. AllSound'
  BY <1>2, <1>3, <1>7, <1>8 DEF AllSound
<1>11. FlashIsCurrent'
  BY <1>2, <1>6, <1>7 DEF IInv, FlashIsCurrent, SameButTries
<1>12. KeepsTrying'
  BY <1>2, <1>6, <1>7 DEF IInv, KeepsTrying
<1>13. QED
  BY <1>9, <1>10, <1>11, <1>12 DEF IInv

(* An association, with the right BSSID or the wrong one.                   *)
LEMMA ConnectedKeeps ==
  ASSUME IInv, NEW n \in Nodes, NEW ap, Connected(n, ap)
  PROVE  IInv'
<1>1. ids' = ids /\ config[n].mode = "operational"
  BY DEF Connected
<1>2. ids \in 1..MaxIds /\ ids <= ids /\ ids \in Nat
  BY AutomeshAssumption DEF IInv, TypeOK
<1>3. Sound(config[n], ids) /\ config[n] \in Configs
  BY DEF IInv, AllSound, Sound
<1> DEFINE c == [config[n] EXCEPT !.mode = "learning"]
<1>4. CASE SaveAndRestart(n, c, proven[n])
  <2>1. /\ c \in Configs /\ c.mac = config[n].mac /\ c.mode = "learning"
        /\ c.checked = config[n].checked
    BY <1>3 DEF Configs
  <2>2. proven[n] \in BOOLEAN /\ (proven[n] => config[n].checked)
    BY DEF IInv, TypeOK, KeepsTrying
  <2> HIDE DEF c
  <2>3. Sound(c, ids')
    BY <1>1, <1>2, <1>3, <2>1, IdleSound
  <2>4. QED
    BY <1>1, <1>2, <1>4, <2>1, <2>2, <2>3, SaveKeeps
<1>5. CASE /\ link' = [link EXCEPT ![n] = "associated"]
           /\ UNCHANGED <<flash, config, apOn, proven>>
  BY <1>1, <1>5 DEF IInv, TypeOK, AllSound, FlashIsCurrent, SameButTries, KeepsTrying
<1>6. QED
  BY <1>4, <1>5 DEF Connected

(* The first address is noted in RAM and in flash alike.                    *)
LEMMA NoteCheckedKeeps ==
  ASSUME IInv, NEW n \in Nodes, NoteChecked(n), config[n].mode = "operational",
         ids' = ids, apOn' \in [Nodes -> BOOLEAN],
         link' = [link EXCEPT ![n] = "ip"], proven' = [proven EXCEPT ![n] = TRUE]
  PROVE  IInv'
<1> DEFINE c == MarkChecked(config[n])
<1>1. TypeOK /\ config[n] \in Configs /\ Sound(config[n], ids)
  BY DEF IInv, AllSound, Sound
<1>2. config' = [config EXCEPT ![n] = c] /\ flash' = [flash EXCEPT ![n] = c]
  BY DEF NoteChecked
<1>3. /\ c \in Configs /\ c.checked = TRUE /\ c.mode = "operational"
      /\ c.mac = config[n].mac /\ c.bssid = config[n].bssid /\ c.tries = config[n].tries
  BY <1>1 DEF MarkChecked, Configs
<1> HIDE DEF c
<1>4. Sound(c, ids)
  BY <1>1, <1>3 DEF Sound, Below
<1>5. ASSUME NEW m \in Nodes
      PROVE  /\ config'[m] = IF m = n THEN c ELSE config[m]
             /\ flash'[m] = IF m = n THEN c ELSE flash[m]
             /\ proven'[m] = IF m = n THEN TRUE ELSE proven[m]
  BY <1>1, <1>2 DEF TypeOK
<1>6. TypeOK'
  BY <1>1, <1>2, <1>3 DEF TypeOK
<1>7. AllSound'
  BY <1>4, <1>5 DEF IInv, AllSound
<1>8. FlashIsCurrent'
  BY <1>5 DEF IInv, FlashIsCurrent, SameButTries
<1>9. KeepsTrying'
  BY <1>3, <1>5 DEF IInv, KeepsTrying
<1>10. QED
  BY <1>6, <1>7, <1>8, <1>9 DEF IInv

(* An address, also when power fails while it is noted.                     *)
LEMMA GotIpKeeps ==
  ASSUME IInv, NEW n \in Nodes, GotIp(n)
  PROVE  IInv'
<1>1. ids' = ids /\ config[n].mode = "operational"
  BY DEF GotIp
<1>2. TypeOK
  BY DEF IInv
<1>3. CASE /\ link' = [link EXCEPT ![n] = "ip"]
           /\ apOn' = [apOn EXCEPT ![n] = TRUE]
           /\ proven' = [proven EXCEPT ![n] = TRUE]
           /\ IF config[n].checked THEN UNCHANGED <<flash, config>>
              ELSE NoteChecked(n)
  <2>1. CASE config[n].checked
    <3>1. flash' = flash /\ config' = config
      BY <1>3, <2>1
    <3>2. TypeOK'
      BY <1>1, <1>2, <1>3, <3>1 DEF TypeOK
    <3>3. AllSound' /\ FlashIsCurrent'
      BY <1>1, <3>1 DEF IInv, AllSound, FlashIsCurrent, SameButTries
    <3>4. \A m \in Nodes : proven'[m] = IF m = n THEN TRUE ELSE proven[m]
      BY <1>2, <1>3 DEF TypeOK
    <3>5. KeepsTrying'
      BY <1>1, <2>1, <3>1, <3>4 DEF IInv, KeepsTrying
    <3>6. QED
      BY <3>2, <3>3, <3>5 DEF IInv
  <2>2. CASE ~config[n].checked
    <3>1. apOn' \in [Nodes -> BOOLEAN]
      BY <1>2, <1>3 DEF TypeOK
    <3>2. QED
      BY <1>1, <1>3, <2>2, <3>1, NoteCheckedKeeps
  <2>3. QED
    BY <2>1, <2>2
<1>4. CASE Start(n, Default) /\ proven' = [proven EXCEPT ![n] = FALSE]
  <2>1. ids \in 1..MaxIds /\ ids <= ids /\ ids \in Nat
    BY <1>2, AutomeshAssumption DEF TypeOK
  <2>2. Sound(Default, ids')
    BY <1>1, <2>1, DefaultSound
  <2>3. QED
    BY <1>1, <1>4, <2>1, <2>2, StartKeeps
<1>5. QED
  BY <1>3, <1>4 DEF GotIp

(* What a failed connection makes of the configuration: it scans again when *)
(* it once worked, gives up after the last try, and else tries once more.   *)
LEMMA GiveUpSound ==
  ASSUME NEW c, NEW top \in Nat, Sound(c, top), c.mode = "operational"
  PROVE  /\ Sound(GiveUp(c, c.tries + 1), top)
         /\ c.checked => /\ GiveUp(c, c.tries + 1).mode # "off"
                         /\ GiveUp(c, c.tries + 1).checked
<1> DEFINE tries == c.tries + 1
<1>1. c \in Configs /\ c.tries \in Nat /\ c.tries <= MAX_TRIES /\ MAX_TRIES = 3
  BY DEF Sound, Configs, MAX_TRIES
<1>2. tries \in 0..(MAX_TRIES + 1)
  BY <1>1
<1> HIDE DEF tries
<1>3. None \in Aps
  BY AutomeshAssumption DEF None, Aps
<1>4. CASE c.checked
  <2> DEFINE d == [c EXCEPT !.tries = tries, !.mode = "learning", !.bssid = None]
  <2>1. d \in Configs /\ d.mac = c.mac /\ d.mode = "learning" /\ d.checked = c.checked
    BY <1>1, <1>2, <1>3 DEF Configs
  <2>2. GiveUp(c, tries) = d
    BY <1>4 DEF GiveUp
  <2> HIDE DEF d
  <2>3. Sound(d, top)
    BY <2>1, IdleSound
  <2>4. QED
    BY <1>4, <2>1, <2>2, <2>3 DEF tries
<1>5. CASE ~c.checked /\ tries > MAX_TRIES
  <2>1. GiveUp(c, tries) = Default
    BY <1>5 DEF GiveUp
  <2>2. QED
    BY <1>5, <2>1, DefaultSound DEF tries
<1>6. CASE ~c.checked /\ ~(tries > MAX_TRIES)
  <2> DEFINE d == [c EXCEPT !.tries = tries]
  <2>1. GiveUp(c, tries) = d
    BY <1>6 DEF GiveUp
  <2>2. /\ d \in Configs /\ d.mac = c.mac /\ d.bssid = c.bssid /\ d.tries = tries
        /\ d.mode = c.mode
    BY <1>1, <1>2 DEF Configs
  <2>3. tries <= MAX_TRIES
    BY <1>1, <1>2, <1>6
  <2> HIDE DEF d
  <2>4. Sound(d, top)
    BY <2>2, <2>3 DEF Sound, Below
  <2>5. QED
    BY <1>6, <2>1, <2>4 DEF tries
<1>7. QED
  BY <1>4, <1>5, <1>6

(* A lost connection, or an attempt that failed.                            *)
LEMMA DisconnectedKeeps ==
  ASSUME IInv, NEW n \in Nodes, NEW noApFound \in BOOLEAN, Disconnected(n, noApFound)
  PROVE  IInv'
<1> DEFINE tries == config[n].tries + 1
<1>1. ids' = ids /\ config[n].mode = "operational"
  BY DEF Disconnected
<1>2. TypeOK /\ Sound(config[n], ids)
  BY DEF IInv, AllSound
<1>3. ids \in 1..MaxIds /\ ids <= ids /\ ids \in Nat
  BY <1>2, AutomeshAssumption DEF TypeOK
<1>4. CASE config[n].checked /\ tries <= MAX_TRIES
  <2> DEFINE c == [config[n] EXCEPT !.tries = tries]
  <2>1. /\ config' = [config EXCEPT ![n].tries = tries]
        /\ link' = [link EXCEPT ![n] = "idle"]
        /\ apOn' = [apOn EXCEPT ![n] = @ /\ ~noApFound]
        /\ flash' = flash /\ proven' = proven
    BY <1>4 DEF Disconnected
  <2>2. config[n] \in Configs /\ tries \in 0..(MAX_TRIES + 1) /\ tries <= MAX_TRIES
    BY <1>2, <1>4 DEF Sound, Configs, MAX_TRIES
  <2> HIDE DEF tries
  <2>3. config' = [config EXCEPT ![n] = c]
    BY <2>1
  <2>4. /\ c \in Configs /\ c.mac = config[n].mac /\ c.bssid = config[n].bssid
        /\ c.tries = tries /\ c.mode = config[n].mode /\ c.checked = config[n].checked
    BY <2>2 DEF Configs
  <2> HIDE DEF c
  <2>5. Sound(c, ids)
    BY <1>2, <2>2, <2>4 DEF Sound, Below
  <2>6. \A m \in Nodes : config'[m] = IF m = n THEN c ELSE config[m]
    BY <1>2, <2>3 DEF TypeOK
  <2>7. apOn' \in [Nodes -> BOOLEAN]
    BY <1>2, <2>1 DEF TypeOK
  <2>8. TypeOK'
    BY <1>1, <1>2, <2>1, <2>3, <2>4, <2>7 DEF TypeOK
  <2>9. AllSound'
    BY <1>1, <2>1, <2>5, <2>6 DEF IInv, AllSound
  <2>10. FlashIsCurrent'
    BY <2>1, <2>4, <2>6 DEF IInv, FlashIsCurrent, SameButTries
  <2>11. KeepsTrying'
    BY <2>1, <2>4, <2>6 DEF IInv, KeepsTrying
  <2>12. QED
    BY <2>8, <2>9, <2>10, <2>11 DEF IInv
<1>5. CASE ~(config[n].checked /\ tries <= MAX_TRIES)
  <2>1. SaveAndRestart(n, GiveUp(config[n], tries), proven[n])
    BY <1>5 DEF Disconnected
  <2>2. proven[n] \in BOOLEAN /\ (proven[n] => config[n].checked)
    BY DEF IInv, TypeOK, KeepsTrying
  <2>3. /\ Sound(GiveUp(config[n], tries), ids)
        /\ config[n].checked => /\ GiveUp(config[n], tries).mode # "off"
                                /\ GiveUp(config[n], tries).checked
    BY <1>1, <1>2, <1>3, GiveUpSound
  <2> HIDE DEF tries
  <2>4. QED
    BY <1>1, <1>3, <2>1, <2>2, <2>3, SaveKeeps
<1>6. QED
  BY <1>4, <1>5

----------------------------------------------------------------------------
(* The invariant.                                                           *)

LEMMA InvInit ==
  ASSUME MeshInit
  PROVE  IInv
<1> DEFINE c == [Default EXCEPT !.mode = "learning"]
<1>1. Sound(Default, ids) /\ ids = 1
  BY DefaultSound DEF MeshInit
<1>2. c \in Configs /\ c.mac = Default.mac /\ c.mode = "learning"
  BY <1>1 DEF Sound, Configs
<1>3. flash = [n \in Nodes |-> c] /\ config = flash
  BY DEF MeshInit
<1> HIDE DEF c
<1>4. Sound(c, ids)
  BY <1>1, <1>2, IdleSound
<1>5. TypeOK
  BY <1>1, <1>2, <1>3, AutomeshAssumption DEF MeshInit, TypeOK
<1>6. AllSound
  BY <1>3, <1>4 DEF AllSound
<1>7. FlashIsCurrent
  BY <1>3 DEF FlashIsCurrent, SameButTries
<1>8. KeepsTrying
  BY DEF MeshInit, KeepsTrying
<1>9. QED
  BY <1>5, <1>6, <1>7, <1>8 DEF IInv

LEMMA InvStep ==
  ASSUME IInv, [MeshNext]_meshVars
  PROVE  IInv'
<1>1. ASSUME NEW n \in Nodes, Restart(n) PROVE IInv'
  BY <1>1, RestartKeeps
<1>2. ASSUME NEW n \in Nodes, NEW on \in BOOLEAN, Configure(n, on) PROVE IInv'
  BY <1>2, ConfigureKeeps
<1>3. ASSUME NEW n \in Nodes, ScanFinds(n) PROVE IInv'
  BY <1>3, ScanFindsKeeps
<1>4. ASSUME NEW n \in Nodes, ScanFindsNothing(n) PROVE IInv'
  BY <1>4, ScanFindsNothingKeeps
<1>5. ASSUME NEW n \in Nodes, NEW ap \in OnAir(n), Connected(n, ap) PROVE IInv'
  BY <1>5, ConnectedKeeps
<1>6. ASSUME NEW n \in Nodes, GotIp(n) PROVE IInv'
  BY <1>6, GotIpKeeps
<1>7. ASSUME NEW n \in Nodes, NEW noApFound \in BOOLEAN, Disconnected(n, noApFound)
      PROVE  IInv'
  BY <1>7, DisconnectedKeeps
<1>8. CASE UNCHANGED meshVars
  BY <1>8 DEF meshVars, IInv, TypeOK, AllSound, FlashIsCurrent, SameButTries, KeepsTrying
<1>9. QED
  BY <1>1, <1>2, <1>3, <1>4, <1>5, <1>6, <1>7, <1>8 DEF MeshNext

(* The invariant holds in every state the repeaters reach.                  *)
THEOREM InvariantHolds == MeshSpec => []IInv
<1>1. MeshInit => IInv
  BY InvInit
<1>2. IInv /\ [MeshNext]_meshVars => IInv'
  BY InvStep
<1>3. QED
  BY <1>1, <1>2, PTL DEF MeshSpec

(* Configurations stay within their fields: the count of tries passes       *)
(* MAX_TRIES by one at most, and a level never leaves its byte.             *)
THEOREM TypeCorrect == MeshSpec => []TypeOK
<1>1. IInv => TypeOK
  BY DEF IInv
<1>2. QED
  BY <1>1, InvariantHolds, PTL

(* The uplinks automesh_scan_done chooses never form a ring: of the nodes   *)
(* of one, that with the lowest BSSID has its uplink below it.              *)
THEOREM UplinksFormNoRing == MeshSpec => []NoRing
<1>1. IInv => NoRing
  <2> SUFFICES ASSUME IInv, NEW S \in SUBSET Nodes, S # {},
                      \A n \in S : \E m \in S : Uplink(n, m)
               PROVE  FALSE
    BY DEF NoRing
  <2> DEFINE mac(n) == config[n].mac.id
             Macs == {mac(n) : n \in S}
  <2>1. \A n \in Nodes : config[n] \in Configs
    BY DEF IInv, TypeOK
  <2>2. Macs \subseteq Nat /\ Macs # {}
    BY <2>1, AutomeshAssumption DEF Configs, Aps
  <2>3. PICK low \in Macs : \A other \in Macs : ~(other < low)
    <3> HIDE DEF Macs
    <3>1. PICK low \in Macs : \A other \in Macs : ~(<<other, low>> \in OpToRel(<, Nat))
      BY <2>2, NatLessThanWellFounded, WFMin
    <3>2. \A other \in Macs : <<other, low>> \in OpToRel(<, Nat) <=> other < low
      BY <2>2 DEF OpToRel
    <3>3. QED
      BY <3>1, <3>2
  <2>4. PICK n \in S : mac(n) = low
    BY <2>3
  <2>5. PICK m \in S : Uplink(n, m)
    BY <2>4
  <2>6. mac(m) < mac(n)
    BY <2>5 DEF Uplink, IInv, AllSound, Sound, Below
  <2>7. QED
    BY <2>3, <2>4, <2>6
<1>2. QED
  BY <1>1, InvariantHolds, PTL

(* An uplink lies one level higher at least, unless the byte wrapped.       *)
THEOREM LevelsGrowAlongUplinks == MeshSpec => []LevelsGrow
<1>1. IInv => LevelsGrow
  BY DEF IInv, AllSound, Sound, Below, LevelsGrow, Uplink
<1>2. QED
  BY <1>1, InvariantHolds, PTL

(* Power lost outside a save costs a repeater its count of tries and nothing *)
(* else: what flash holds between two handlers is what RAM holds.            *)
THEOREM PowerLossLosesOnlyTries == MeshSpec => PowerLossKeepsConfig
<1>1. ASSUME IInv, NEW n \in Nodes, Restart(n)
      PROVE  SameButTries(config'[n], config[n])
  BY <1>1 DEF IInv, TypeOK, FlashIsCurrent, Restart, Start
<1>2. IInv /\ [MeshNext]_meshVars =>
        [\A n \in Nodes : Restart(n) => SameButTries(config'[n], config[n])]_meshVars
  BY <1>1
<1>3. QED
  BY <1>2, InvariantHolds, PTL DEF MeshSpec, PowerLossKeepsConfig

(* A repeater that had an address never falls back to the defaults by       *)
(* itself.                                                                  *)
THEOREM ProvenKeepsTrying == MeshSpec => []KeepsTrying
<1>1. IInv => KeepsTrying
  BY DEF IInv
<1>2. QED
  BY <1>1, InvariantHolds, PTL
=============================================================================
