-------------------------------- MODULE Gpio --------------------------------
(* The GPIO commands of user_main.c, over easygpio.c: pins that are read,     *)
(* pins that are set (for a while, too), and inputs linked to an output as    *)
(* a push button or a switch.                                                *)
(*                                                                          *)
(* An edge of an input raises an interrupt; its handler switches the pin's   *)
(* interrupts off and leaves the rest to a timer, which reads the pin and    *)
(* then switches them on again.  The interrupt and the outside world get in  *)
(* anywhere; all else runs to its end.  Pins are those that can interrupt    *)
(* (not 16), and what drives the status LED or resets the device is not here.*)
EXTENDS Integers, Sequences

CONSTANTS
  Pins,       \* pins, by number
  Links,      \* bound: the triggers that are configured, <<input, output, type>>
  Inputs,     \* bound: the pins that are ever inputs
  MaxCmds,    \* bound: commands
  MaxEdges    \* bound: level changes from outside

Modes == {"UNDEFINED", "OUT", "IN", "IN_PULLUP"}
Types == {"NONE", "MONOSTABLE_NC", "MONOSTABLE_NO", "BISTABLE_NC", "BISTABLE_NO"}

ASSUME GpioAssumption ==
  /\ Pins \subseteq 0 .. 16 /\ Inputs \subseteq Pins
  /\ Links \subseteq Pins \X Pins \X (Types \ {"NONE"})
  /\ MaxCmds \in Nat /\ MaxEdges \in Nat

Unread == 255      \* prev_values as it starts
Nobody == -1
NoLink == [pin |-> Unread, type |-> "NONE"]
Down == -2         \* of reading: the program does not run

VARIABLES
  mode, link,    \* config.gpiomode; config.gpio_trigger_pin and _type
  pins,          \* what the hardware and this module know of the pins, below
  status,        \* GPIO_STATUS: pins with an edge not yet handled
  debounce,      \* the pins of each timer of gpio_change_handler that runs
  reading,       \* the pin int_timerchange_func has read, Nobody, or Down
  cmds, edges

(* The fields of pins:
     out, level    the output register, and what reading the pin gives
     intr          its interrupt is enabled
     prev          prev_values
     timer         what duration_timer will set it to, or Nobody
     blind         history: its level may be another since it was read: it
                   changed between the reading and the enabling, or the pin
                   became an input by command
     setter        history: the input whose switch has set it last, or Nobody *)
gpioVars == <<mode, link, pins, status, debounce, reading, cmds, edges>>
-----------------------------------------------------------------------------
IsInput(p) == mode[p] \in {"IN", "IN_PULLUP"}

Not(v) == IF v = 0 THEN 1 ELSE 0

(* The pins of a mask are taken in order.                                    *)
First(mask) == CHOOSE p \in mask : \A q \in mask : p <= q

(* easygpio_outputSet, which does not make an input an output. *)
OutputSet(s, p, v) ==
  [s EXCEPT !.out[p] = v, !.level[p] = IF mode[p] = "OUT" THEN v ELSE @]

Read(s, p) == [s EXCEPT !.prev[p] = s.level[p], !.blind = @ \ {p}]

(* What the trigger of input p does to its output: nothing, or which value.  *)
Triggered_mutant(s, p) ==      \* takes every switch for a normally open one
  LET v == s.level[p]
  IN  CASE link[p].type = "MONOSTABLE_NC" /\ v = 1 -> {Not(s.prev[link[p].pin])}
        [] link[p].type = "MONOSTABLE_NO" /\ v = 0 -> {Not(s.prev[link[p].pin])}
        [] link[p].type \in {"BISTABLE_NO", "BISTABLE_NC"} -> {v}
        [] OTHER -> {}
Triggered(s, p) ==
  LET v == s.level[p]
  IN  CASE link[p].type = "MONOSTABLE_NC" /\ v = 1 -> {Not(s.prev[link[p].pin])}
        [] link[p].type = "MONOSTABLE_NO" /\ v = 0 -> {Not(s.prev[link[p].pin])}
        [] link[p].type = "BISTABLE_NO" -> {v}
        [] link[p].type = "BISTABLE_NC" -> {Not(v)}
        [] OTHER -> {}

(* do_outputSet of an output by input p's trigger. *)
SetByTrigger(s, q, v, p) ==
  LET set == Read(OutputSet(s, q, v), q)
  IN  [set EXCEPT !.timer[q] = Nobody, !.setter[q] = p]

(* handlePinValueChange.  The outputs it sets have no triggers of their own. *)
handlePinValueChange(s, p) ==
  LET seen == Read(s, p)
      q    == link[p].pin
  IN  IF s.level[p] # s.prev[p] /\ IsInput(p) /\ Triggered(s, p) # {} /\ mode[q] = "OUT"
        THEN SetByTrigger(seen, q, CHOOSE v \in Triggered(s, p) : TRUE, p)
        ELSE seen

(* do_outputSet by command or by timer.  next is what the timer will do.     *)
do_outputSet_mutant(s, p, v, next) ==      \* leaves an older timer armed
  LET set == handlePinValueChange(OutputSet(s, p, v), p)
  IN  [set EXCEPT !.timer[p] = IF next = Nobody THEN @ ELSE next, !.setter[p] = Nobody]
do_outputSet(s, p, v, next) ==
  LET set == handlePinValueChange(OutputSet(s, p, v), p)
  IN  [set EXCEPT !.timer[p] = next, !.setter[p] = Nobody]

(* The pins of s, and the edges that have come from levels that differ.      *)
Become(s) ==
  /\ pins' = s
  /\ status' = status \cup {p \in Pins : pins.intr[p] /\ s.level[p] # pins.level[p]}

Idle == reading = Nobody
-----------------------------------------------------------------------------
(* Power-up and crashes. *)

(* The pins at power-up.                                                     *)
PowerUp(levels) ==
  [out |-> [p \in Pins |-> 0],
   level |-> [p \in Pins |-> IF IsInput(p) THEN levels[p] ELSE 0],
   intr |-> [p \in Pins |-> IsInput(p)],
   prev |-> [p \in Pins |-> Unread], timer |-> [p \in Pins |-> Nobody],
   blind |-> {}, setter |-> [p \in Pins |-> Nobody]]

(* As user_init leaves them: outputs are not read, inputs are, one after the *)
(* other, and may trigger.                                                   *)
Boots(s, i) == IF i \in Pins /\ IsInput(i) THEN handlePinValueChange(s, i) ELSE s

Booted(s) ==
  LET booted[n \in 0 .. 17] == IF n = 0 THEN s ELSE Boots(booted[n - 1], n - 1)
  IN  booted[17]

(* The configurations that may have been saved: the links of some pins.      *)
SavedModes ==
  {m \in [Pins -> Modes] : \A p \in Pins \ Inputs : m[p] \notin {"IN", "IN_PULLUP"}}

SavedLinks ==
  {[p \in Pins |->
      IF \E l \in saved : l[1] = p
        THEN LET l == CHOOSE x \in saved : x[1] = p IN [pin |-> l[2], type |-> l[3]]
        ELSE NoLink]
   : saved \in {S \in SUBSET Links : \A l, k \in S : l[1] = k[1] => l = k}}

Start ==
  /\ reading = Down /\ reading' = Nobody
  /\ mode' \in SavedModes /\ link' \in SavedLinks
  /\ \E levels \in [Pins -> {0, 1}] : pins' = Booted(PowerUp(levels))'
  /\ status' = {} /\ debounce' = <<>>
  /\ UNCHANGED <<cmds, edges>>

(* What there is while the program does not run.                             *)
Off == [mode |-> [p \in Pins |-> "UNDEFINED"], link |-> [p \in Pins |-> NoLink],
        pins |-> [out |-> [p \in Pins |-> 0], level |-> [p \in Pins |-> 0],
                  intr |-> [p \in Pins |-> FALSE],
                  prev |-> [p \in Pins |-> Unread], timer |-> [p \in Pins |-> Nobody],
                  blind |-> {}, setter |-> [p \in Pins |-> Nobody]]]

(* An exception, and all that was in memory is gone.                         *)
Crashed ==
  /\ mode' = Off.mode /\ link' = Off.link /\ pins' = Off.pins
  /\ status' = {} /\ debounce' = <<>> /\ reading' = Down
  /\ UNCHANGED <<cmds, edges>>
-----------------------------------------------------------------------------
(* Edges, and what is done about them. *)

(* The outside world changes an input. *)
Edge(p) ==
  /\ IsInput(p) /\ edges < MaxEdges /\ edges' = edges + 1
  /\ Become([pins EXCEPT !.level[p] = Not(@),
                         !.blind = IF reading = p THEN @ \cup {p} ELSE @])
  /\ UNCHANGED <<mode, link, debounce, reading, cmds>>

(* The interrupt handler: what is done later is for the pins of mask.  It    *)
(* does not look whether it gets the memory for that, and writes to it.      *)
Deferred(mask) ==
  /\ pins' = [pins EXCEPT !.intr = [p \in Pins |-> @[p] /\ p \notin status]]
  /\ debounce' = Append(debounce, mask)
  /\ status' = {}
  /\ UNCHANGED <<mode, link, reading, cmds, edges>>

gpio_change_handler_mutant ==      \* remembers one of the pins
  status # {} /\ (Deferred({First(status)}) \/ Crashed)
gpio_change_handler ==
  status # {} /\ (Deferred(status) \/ Crashed)

(* int_timerchange_func, pin by pin: the pin is read ...                     *)
TimerRead ==
  /\ Idle /\ debounce # <<>> /\ debounce[1] # {}
  /\ LET p == First(debounce[1])
     IN  Become(handlePinValueChange(pins, p)) /\ reading' = p
  /\ UNCHANGED <<mode, link, debounce, cmds, edges>>

(* ... and its interrupt enabled again.  (What changed before is not seen.)   *)
TimerEnable ==
  /\ reading \in Pins
  /\ pins' = [pins EXCEPT !.intr[reading] = TRUE]
  /\ LET left == debounce[1] \ {reading}
     IN  debounce' = IF left = {} THEN Tail(debounce) ELSE [debounce EXCEPT ![1] = left]
  /\ reading' = Nobody
  /\ UNCHANGED <<mode, link, status, cmds, edges>>

(* set_high and set_low, by the timer of a pin that was set for a while. *)
DurationOver(p) ==
  /\ Idle /\ pins.timer[p] # Nobody
  /\ Become(do_outputSet(pins, p, pins.timer[p], Nobody))
  /\ UNCHANGED <<mode, link, debounce, reading, cmds, edges>>
-----------------------------------------------------------------------------
(* The commands. *)
Cmd == Idle /\ cmds < MaxCmds /\ cmds' = cmds + 1

(* History: the outputs input p has set are its own no longer. *)
Unlinked(s, p) ==
  [s EXCEPT !.setter = [q \in Pins |-> IF @[q] = p \/ q = p THEN Nobody ELSE @[q]]]

(* easygpio_attachInterrupt and its enabling: an edge that waits is          *)
(* forgotten, and the pin has the level v it gets from outside.              *)
Attached(s, p, v) == [s EXCEPT !.intr[p] = TRUE, !.level[p] = v, !.blind = @ \cup {p}]

ModeIn(p, m) ==
  /\ p \in Inputs /\ Cmd
  /\ mode' = [mode EXCEPT ![p] = m]
  /\ \E v \in {0, 1} : pins' = Unlinked(Attached(pins, p, v), p)
  /\ status' = status \ {p}
  /\ UNCHANGED <<link, debounce, reading, edges>>

(* easygpio_pinMode, then easygpio_detachInterrupt.  A timer may enable its  *)
(* interrupt again.                                                         *)
ModeOut(p) ==
  /\ Cmd
  /\ mode' = [mode EXCEPT ![p] = "OUT"]
  /\ Become(Unlinked([pins EXCEPT !.level[p] = pins.out[p], !.intr[p] = FALSE,
                                  !.blind = @ \ {p}], p))
  /\ UNCHANGED <<link, debounce, reading, edges>>

SetPin(p, v, while) ==
  /\ Cmd
  /\ Become(do_outputSet(pins, p, v, IF while THEN Not(v) ELSE Nobody))
  /\ UNCHANGED <<mode, link, debounce, reading, edges>>

Trigger(p, q, type) ==
  /\ Cmd
  /\ link' = [link EXCEPT ![p] = [pin |-> q, type |-> type]]
  /\ pins' = Unlinked(pins, p)
  /\ UNCHANGED <<mode, status, debounce, reading, edges>>

TriggerNone(p) ==
  /\ Cmd
  /\ link' = [link EXCEPT ![p] = NoLink]
  /\ pins' = Unlinked(pins, p)
  /\ UNCHANGED <<mode, status, debounce, reading, edges>>
-----------------------------------------------------------------------------
GpioInit ==
  /\ mode = Off.mode /\ link = Off.link /\ pins = Off.pins
  /\ status = {} /\ debounce = <<>> /\ reading = Down
  /\ cmds = 0 /\ edges = 0

GpioNext ==
  \/ \E p \in Pins : Edge(p) \/ DurationOver(p) \/ ModeOut(p) \/ TriggerNone(p)
  \/ \E p \in Pins, m \in {"IN", "IN_PULLUP"} : ModeIn(p, m)
  \/ \E p \in Pins, v \in {0, 1}, while \in BOOLEAN : SetPin(p, v, while)
  \/ \E l \in Links : Trigger(l[1], l[2], l[3])
  \/ Start \/ gpio_change_handler \/ TimerRead \/ TimerEnable

GpioSpec == GpioInit /\ [][GpioNext]_gpioVars
-----------------------------------------------------------------------------
(* The pins keep their shape: a level is a bit, a trigger has an output, and  *)
(* a timer that runs still has pins to read, the one that is read among them. *)
PinStates ==
  [out : [Pins -> 0 .. 1], level : [Pins -> 0 .. 1], intr : [Pins -> BOOLEAN],
   prev : [Pins -> {0, 1, Unread}], timer : [Pins -> {Nobody, 0, 1}],
   blind : SUBSET Pins, setter : [Pins -> Pins \cup {Nobody}]]

TypeOK ==
  /\ mode \in [Pins -> Modes]
  /\ link \in [Pins -> [pin : Pins \cup {Unread}, type : Types]]
  /\ \A p \in Pins : link[p].type # "NONE" => link[p].pin \in Pins
  /\ pins \in PinStates /\ status \subseteq Pins
  /\ debounce \in Seq((SUBSET Pins) \ {{}})
  /\ reading \in {Nobody, Down} \/ (debounce # <<>> /\ reading \in debounce[1])
  /\ cmds \in 0 .. MaxCmds /\ edges \in 0 .. MaxEdges

(* An edge of p waits to be handled, or to be read. *)
EdgeWaits(p) ==
  \/ p \in status
  \/ \E i \in DOMAIN debounce : p \in debounce[i] /\ ~(i = 1 /\ p = reading)

(* No edge of an input is lost but one between the reading of the pin and    *)
(* the enabling of its interrupt: what was read last is what is there.       *)
LevelSeen ==
  \A p \in Pins : IsInput(p) =>
    pins.prev[p] = pins.level[p] \/ EdgeWaits(p) \/ p \in pins.blind

(* An output that was set for a while is set back from what it is now,        *)
(* whoever has set it since.  (Of an earlier setting to the same value a timer*)
(* that is left over cannot be told from its own.)                           *)
TimerReverts ==
  \A p \in Pins : pins.timer[p] # Nobody => pins.out[p] = Not(pins.timer[p])

(* An output a switch has set, and nothing else since, shows where that      *)
(* switch is, once its edges are handled.                                    *)
SwitchShows ==
  \A p, q \in Pins :
    /\ pins.setter[q] = p /\ ~EdgeWaits(p) /\ p \notin pins.blind
    /\ link[p].type \in {"BISTABLE_NO", "BISTABLE_NC"}
    => pins.out[q] = IF link[p].type = "BISTABLE_NO" THEN pins.level[p] ELSE Not(pins.level[p])
=============================================================================
