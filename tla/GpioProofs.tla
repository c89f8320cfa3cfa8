----------------------------- MODULE GpioProofs -----------------------------
(* Theorems about the pins: what interrupts, debounce timers and commands   *)
(* may do to each other, for any pins, links and number of edges.           *)
EXTENDS Gpio, TLAPS, WellFoundedInduction

(* The parts of the properties that one pin, or one switch and its output,   *)
(* keep on their own.                                                       *)
Reverts(s, p) == s.timer[p] # Nobody => s.out[p] = Not(s.timer[p])

Bistable == {"BISTABLE_NO", "BISTABLE_NC"}

\* What switch p has set its output q to shows what was last read of p.
Shows(s, p, q) ==
  s.setter[q] = p =>
    /\ IsInput(p) /\ mode[q] = "OUT" /\ link[p].pin = q
    /\ link[p].type = "BISTABLE_NO" => s.out[q] = s.prev[p]
    /\ link[p].type = "BISTABLE_NC" => s.out[q] = Not(s.prev[p])

\* An input whose interrupt is off is in the mask of a timer, which will
\* switch it on again.
Attended ==
  \A p \in Pins : IsInput(p) =>
    pins.intr[p] \/ \E i \in DOMAIN debounce : p \in debounce[i]

IInv ==
  /\ TypeOK /\ Attended /\ LevelSeen
  /\ \A p \in Pins : Reverts(pins, p)
  /\ \A p, q \in Pins : Shows(pins, p, q)

Typed ==
  /\ mode \in [Pins -> Modes]
  /\ link \in [Pins -> [pin : Pins \cup {Unread}, type : Types]]
  /\ \A p \in Pins : link[p].type # "NONE" => link[p].pin \in Pins

(* The program as user_init leaves it, and the program that does not run.    *)
Counts == cmds \in 0 .. MaxCmds /\ edges \in 0 .. MaxEdges

Boot ==
  /\ mode \in SavedModes /\ link \in SavedLinks
  /\ \E levels \in [Pins -> {0, 1}] : pins = Booted(PowerUp(levels))
  /\ status = {} /\ debounce = <<>> /\ reading = Nobody /\ Counts

Stopped ==
  /\ mode = Off.mode /\ link = Off.link /\ pins = Off.pins
  /\ status = {} /\ debounce = <<>> /\ reading = Down /\ Counts
----------------------------------------------------------------------------
(* What the helpers do to the pins. *)

LEMMA PinsAreNumbers ==
  \A p \in Pins : p \in 0 .. 16 /\ p # Nobody /\ p # Down /\ p # Unread
BY GpioAssumption DEF Nobody, Down, Unread

LEMMA NotTyped == \A v \in {0, 1, Unread} : Not(v) \in 0 .. 1
BY DEF Not, Unread

LEMMA NotNot == \A v \in 0 .. 1 : Not(Not(v)) = v
BY DEF Not

LEMMA OutputSetFacts ==
  ASSUME Typed, NEW s \in PinStates, NEW p \in Pins, NEW v \in 0 .. 1
  PROVE  LET r == OutputSet(s, p, v) IN
         /\ r \in PinStates /\ r.intr = s.intr /\ r.prev = s.prev
         /\ r.timer = s.timer /\ r.blind = s.blind /\ r.setter = s.setter
         /\ r.out = [s.out EXCEPT ![p] = v]
         /\ \A q \in Pins : mode[q] # "OUT" \/ q # p => r.level[q] = s.level[q]
BY DEF OutputSet, PinStates

LEMMA ReadFacts ==
  ASSUME NEW s \in PinStates, NEW p \in Pins
  PROVE  LET r == Read(s, p) IN
         /\ r \in PinStates /\ r.out = s.out /\ r.level = s.level /\ r.intr = s.intr
         /\ r.timer = s.timer /\ r.setter = s.setter
         /\ r.prev = [s.prev EXCEPT ![p] = s.level[p]] /\ r.blind = s.blind \ {p}
<1> DEFINE prev == [s.prev EXCEPT ![p] = s.level[p]]
           blind == s.blind \ {p}
           r == Read(s, p)
<1>1. prev \in [Pins -> {0, 1, Unread}] /\ blind \in SUBSET Pins
  BY DEF PinStates
<1>2. r = [s EXCEPT !.prev = prev, !.blind = blind]
  BY DEF Read, PinStates
<1> HIDE DEF prev, blind, r
<1>3. /\ r \in PinStates /\ r.out = s.out /\ r.level = s.level /\ r.intr = s.intr
      /\ r.timer = s.timer /\ r.setter = s.setter /\ r.prev = prev /\ r.blind = blind
  BY <1>1, <1>2 DEF PinStates
<1>4. QED
  BY <1>3 DEF r, prev, blind

\* Output q is set to v by the trigger of p, and nothing else is.
OutputBy(s, r, q, v, p) ==
  /\ r \in PinStates /\ r.intr = s.intr
  /\ r.out = [s.out EXCEPT ![q] = v]
  /\ r.timer = [s.timer EXCEPT ![q] = Nobody]
  /\ r.setter = [s.setter EXCEPT ![q] = p]
  /\ r.blind = s.blind \ {q}
  /\ \A x \in Pins : x # q => r.prev[x] = s.prev[x] /\ r.level[x] = s.level[x]

LEMMA SetByTriggerFacts ==
  ASSUME Typed, NEW s \in PinStates, NEW q \in Pins, NEW v \in 0 .. 1, NEW p \in Pins
  PROVE  OutputBy(s, SetByTrigger(s, q, v, p), q, v, p)
<1> DEFINE o == OutputSet(s, q, v)
<1>1. /\ o \in PinStates /\ o.intr = s.intr /\ o.prev = s.prev
      /\ o.timer = s.timer /\ o.blind = s.blind /\ o.setter = s.setter
      /\ o.out = [s.out EXCEPT ![q] = v]
      /\ \A x \in Pins : mode[x] # "OUT" \/ x # q => o.level[x] = s.level[x]
  BY OutputSetFacts
<1> HIDE DEF o
<1> DEFINE t == Read(o, q)
<1>2. /\ t \in PinStates /\ t.out = o.out /\ t.level = o.level /\ t.intr = o.intr
      /\ t.timer = o.timer /\ t.setter = o.setter
      /\ t.prev = [o.prev EXCEPT ![q] = o.level[q]] /\ t.blind = o.blind \ {q}
  BY <1>1, ReadFacts
<1>3. SetByTrigger(s, q, v, p) = [t EXCEPT !.timer[q] = Nobody, !.setter[q] = p]
  BY DEF SetByTrigger, o
<1> HIDE DEF t
<1>4. s.prev \in [Pins -> {0, 1, Unread}] /\ s.level \in [Pins -> 0 .. 1]
  BY DEF PinStates
<1> DEFINE r == SetByTrigger(s, q, v, p)
           timer == [t.timer EXCEPT ![q] = Nobody]
           setter == [t.setter EXCEPT ![q] = p]
<1>5. /\ r \in PinStates /\ r.intr = t.intr /\ r.out = t.out /\ r.prev = t.prev
      /\ r.level = t.level /\ r.blind = t.blind /\ r.timer = timer /\ r.setter = setter
  <2>1. timer \in [Pins -> {Nobody, 0, 1}] /\ setter \in [Pins -> Pins \cup {Nobody}]
    BY <1>2 DEF PinStates
  <2>2. r = [t EXCEPT !.timer = timer, !.setter = setter]
    BY <1>2, <1>3 DEF PinStates
  <2> HIDE DEF timer, setter, r
  <2>3. QED
    BY <1>2, <2>1, <2>2 DEF PinStates
<1>6. \A x \in Pins : x # q => r.prev[x] = s.prev[x] /\ r.level[x] = s.level[x]
  BY <1>1, <1>2, <1>4, <1>5
<1>7. OutputBy(s, r, q, v, p)
  BY <1>1, <1>2, <1>5, <1>6 DEF OutputBy, timer, setter
<1>8. QED
  BY <1>7 DEF r

(* A trigger sets its output to one value; a switch, to its own level.       *)
LEMMA TriggeredFacts ==
  ASSUME Typed, NEW s \in PinStates, NEW p \in Pins, Triggered(s, p) # {}
  PROVE  LET v == CHOOSE w \in Triggered(s, p) : TRUE IN
         /\ v \in 0 .. 1 /\ link[p].pin \in Pins
         /\ link[p].type = "BISTABLE_NO" => v = s.level[p]
         /\ link[p].type = "BISTABLE_NC" => v = Not(s.level[p])
<1> DEFINE q == link[p].pin
           type == link[p].type
           old == s.prev[q]
           level == s.level[p]
           T == Triggered(s, p)
<1>1. /\ T = CASE type = "MONOSTABLE_NC" /\ level = 1 -> {Not(old)}
               [] type = "MONOSTABLE_NO" /\ level = 0 -> {Not(old)}
               [] type = "BISTABLE_NO" -> {level}
               [] type = "BISTABLE_NC" -> {Not(level)}
               [] OTHER -> {}
  BY DEF Triggered
<1>2. type \in Types /\ level \in 0 .. 1
  BY DEF Typed, PinStates
<1>3. T # {}
  OBVIOUS
<1> HIDE DEF T, level
<1>4. type # "NONE"
  BY <1>1, <1>3
<1>5. q \in Pins
  BY <1>4 DEF Typed
<1>6. old \in {0, 1, Unread}
  BY <1>5 DEF PinStates
<1> HIDE DEF type, old, q
<1>7. Not(old) \in 0 .. 1 /\ Not(level) \in 0 .. 1
  BY <1>2, <1>6, NotTyped
<1>8. \E v \in 0 .. 1 :
         /\ T = {v} /\ (type = "BISTABLE_NO" => v = level)
         /\ type = "BISTABLE_NC" => v = Not(level)
  <2>1. CASE type = "BISTABLE_NO"
    BY <1>1, <1>2, <2>1
  <2>2. CASE type = "BISTABLE_NC"
    BY <1>1, <1>7, <2>2
  <2>3. CASE type = "MONOSTABLE_NO"
    BY <1>1, <1>3, <1>7, <2>3
  <2>4. CASE type = "MONOSTABLE_NC"
    BY <1>1, <1>3, <1>7, <2>4
  <2>5. QED
    BY <1>2, <1>4, <2>1, <2>2, <2>3, <2>4 DEF Types
<1>9. QED
  BY <1>5, <1>8 DEF T, type, level, q

\* What a call of handlePinValueChange leaves alone, and what it keeps.
Handled(s, r, p) ==
  /\ r \in PinStates /\ r.intr = s.intr
  /\ r.prev[p] = s.level[p] /\ r.level[p] = s.level[p] /\ r.out[p] = s.out[p]
  /\ \A x \in Pins : IsInput(x) =>
       /\ r.level[x] = s.level[x]
       /\ x # p => r.prev[x] = s.prev[x] /\ (x \in s.blind => x \in r.blind)
  /\ \A x \in Pins : Reverts(s, x) => Reverts(r, x)
  /\ \A x, y \in Pins : Shows(s, x, y) => Shows(r, x, y)

LEMMA HandleFacts ==
  ASSUME Typed, NEW s \in PinStates, NEW p \in Pins
  PROVE  Handled(s, handlePinValueChange(s, p), p)
<1> DEFINE seen == Read(s, p)
           q == link[p].pin
           v == CHOOSE w \in Triggered(s, p) : TRUE
           r == handlePinValueChange(s, p)
           sets == /\ s.level[p] # s.prev[p] /\ IsInput(p) /\ Triggered(s, p) # {}
                   /\ mode[q] = "OUT"
<1>1. /\ seen \in PinStates /\ seen.out = s.out /\ seen.level = s.level
      /\ seen.intr = s.intr /\ seen.timer = s.timer /\ seen.setter = s.setter
      /\ seen.prev = [s.prev EXCEPT ![p] = s.level[p]] /\ seen.blind = s.blind \ {p}
  BY ReadFacts
<1>2. /\ r = IF sets THEN SetByTrigger(seen, q, v, p) ELSE seen
  BY DEF handlePinValueChange
<1>3. /\ s.prev \in [Pins -> {0, 1, Unread}] /\ s.level \in [Pins -> 0 .. 1]
      /\ s.out \in [Pins -> 0 .. 1] /\ s.timer \in [Pins -> {Nobody, 0, 1}]
      /\ s.setter \in [Pins -> Pins \cup {Nobody}]
  BY DEF PinStates
<1>4. /\ seen.prev[p] = s.level[p] /\ \A x \in Pins : x # p => seen.prev[x] = s.prev[x]
  BY <1>1, <1>3
<1>5. CASE sets
  <2>1. /\ v \in 0 .. 1 /\ q \in Pins
        /\ link[p].type = "BISTABLE_NO" => v = s.level[p]
        /\ link[p].type = "BISTABLE_NC" => v = Not(s.level[p])
    BY <1>5, TriggeredFacts
  <2>2. mode[q] = "OUT" /\ IsInput(p)
    BY <1>5
  <2>3. q # p
    BY <2>2 DEF IsInput
  <2>4. r = SetByTrigger(seen, q, v, p)
    BY <1>2, <1>5
  <2> HIDE DEF seen, r, v, q, sets
  <2>5. /\ r \in PinStates /\ r.intr = seen.intr
        /\ r.out = [seen.out EXCEPT ![q] = v]
        /\ r.timer = [seen.timer EXCEPT ![q] = Nobody]
        /\ r.setter = [seen.setter EXCEPT ![q] = p]
        /\ r.blind = seen.blind \ {q}
        /\ \A x \in Pins : x # q => r.prev[x] = seen.prev[x] /\ r.level[x] = seen.level[x]
    <3>1. OutputBy(seen, r, q, v, p)
      BY <1>1, <2>1, <2>4, SetByTriggerFacts
    <3>2. QED
      BY <3>1 DEF OutputBy
  <2>6. \A x \in Pins : x # q =>
           /\ r.out[x] = s.out[x] /\ r.timer[x] = s.timer[x] /\ r.setter[x] = s.setter[x]
           /\ r.level[x] = s.level[x] /\ (x # p => r.prev[x] = s.prev[x])
    BY <1>1, <1>3, <1>4, <2>5
  <2>7. /\ r.out[q] = v /\ r.timer[q] = Nobody /\ r.setter[q] = p
        /\ r.prev[p] = s.level[p]
    BY <1>1, <1>3, <1>4, <2>1, <2>3, <2>5
  <2>8. \A x \in Pins : IsInput(x) =>
           /\ r.level[x] = s.level[x]
           /\ x # p => r.prev[x] = s.prev[x] /\ (x \in s.blind => x \in r.blind)
    BY <1>1, <2>2, <2>5, <2>6 DEF IsInput
  <2>9. \A x \in Pins : Reverts(s, x) => Reverts(r, x)
    BY <2>6, <2>7 DEF Reverts
  <2>10. ASSUME NEW x \in Pins, NEW y \in Pins, Shows(s, x, y)
         PROVE  Shows(r, x, y)
    <3>1. CASE y = q
      <4> SUFFICES ASSUME r.setter[y] = x PROVE Shows(r, x, y)
        BY DEF Shows
      <4>1. x = p
        BY <2>7, <3>1
      <4>2. QED
        BY <2>1, <2>2, <2>7, <3>1, <4>1 DEF Shows, q
    <3>2. CASE y # q
      <4> SUFFICES ASSUME r.setter[y] = x PROVE Shows(r, x, y)
        BY DEF Shows
      <4>1. /\ IsInput(x) /\ mode[y] = "OUT" /\ link[x].pin = y
            /\ link[x].type = "BISTABLE_NO" => s.out[y] = s.prev[x]
            /\ link[x].type = "BISTABLE_NC" => s.out[y] = Not(s.prev[x])
        BY <2>6, <2>10, <3>2 DEF Shows
      <4>2. x # q /\ x # p
        BY <2>2, <3>2, <4>1 DEF IsInput, q
      <4>3. r.out[y] = s.out[y] /\ r.prev[x] = s.prev[x]
        BY <2>6, <3>2, <4>2
      <4>4. QED
        BY <4>1, <4>3 DEF Shows
    <3>3. QED
      BY <3>1, <3>2
  <2>11. r.intr = s.intr /\ r.level[p] = s.level[p] /\ r.out[p] = s.out[p]
    BY <1>1, <2>3, <2>5, <2>6
  <2>12. Handled(s, r, p)
    BY <2>5, <2>7, <2>8, <2>9, <2>10, <2>11 DEF Handled
  <2>13. QED
    BY <2>12 DEF r
<1>6. CASE ~sets
  <2>1. r = seen
    BY <1>2, <1>6
  <2>2. ASSUME NEW x \in Pins, NEW y \in Pins, Shows(s, x, y)
        PROVE  Shows(seen, x, y)
    <3> SUFFICES ASSUME seen.setter[y] = x PROVE Shows(seen, x, y)
      BY DEF Shows
    <3>1. /\ IsInput(x) /\ mode[y] = "OUT" /\ link[x].pin = y
          /\ link[x].type = "BISTABLE_NO" => s.out[y] = s.prev[x]
          /\ link[x].type = "BISTABLE_NC" => s.out[y] = Not(s.prev[x])
      BY <1>1, <2>2 DEF Shows
    <3>2. CASE x # p
      BY <1>1, <1>4, <3>1, <3>2 DEF Shows
    <3>3. CASE x = p /\ s.level[p] = s.prev[p]
      BY <1>1, <1>4, <3>1, <3>3 DEF Shows
    <3>4. CASE x = p /\ s.level[p] # s.prev[p]
      <4>1. Triggered(s, p) = {}
        BY <1>6, <3>1, <3>4
      <4>2. link[p].type \notin Bistable
        BY <4>1 DEF Triggered, Bistable
      <4>3. QED
        BY <1>1, <3>1, <3>4, <4>2 DEF Shows, Bistable
    <3>5. QED
      BY <3>2, <3>3, <3>4
  <2>3. \A x \in Pins : Reverts(s, x) => Reverts(seen, x)
    BY <1>1 DEF Reverts
  <2> HIDE DEF seen
  <2>4. Handled(s, seen, p)
    BY <1>1, <1>4, <2>2, <2>3 DEF Handled
  <2>5. QED
    BY <2>1, <2>4 DEF r
<1>7. QED
  BY <1>5, <1>6

\* What any setting of pin p, or reading of input p, leaves alone and keeps.
Kept(s, r, p) ==
  /\ r \in PinStates /\ r.intr = s.intr
  /\ \A x \in Pins : IsInput(x) =>
       /\ r.level[x] = s.level[x]
       /\ x = p => r.prev[x] = s.level[x]
       /\ x # p => r.prev[x] = s.prev[x] /\ (x \in s.blind => x \in r.blind)
  /\ \A x \in Pins : Reverts(s, x) => Reverts(r, x)
  /\ \A x, y \in Pins : Shows(s, x, y) => Shows(r, x, y)

LEMMA HandleKeeps ==
  ASSUME Typed, NEW s \in PinStates, NEW p \in Pins
  PROVE  Kept(s, handlePinValueChange(s, p), p)
BY HandleFacts DEF Handled, Kept

LEMMA DoOutputKeeps ==
  ASSUME Typed, NEW s \in PinStates, NEW p \in Pins, NEW v \in 0 .. 1,
         NEW next \in {Nobody, 0, 1}, next # Nobody => v = Not(next)
  PROVE  Kept(s, do_outputSet(s, p, v, next), p)
<1> DEFINE o == OutputSet(s, p, v)
<1>1. /\ o \in PinStates /\ o.intr = s.intr /\ o.prev = s.prev
      /\ o.timer = s.timer /\ o.blind = s.blind /\ o.setter = s.setter
      /\ o.out = [s.out EXCEPT ![p] = v]
      /\ \A x \in Pins : mode[x] # "OUT" \/ x # p => o.level[x] = s.level[x]
  BY OutputSetFacts
<1> HIDE DEF o
<1> DEFINE h == handlePinValueChange(o, p)
<1>2. Handled(o, h, p)
  BY <1>1, HandleFacts
<1> DEFINE r == do_outputSet(s, p, v, next)
           timer == [h.timer EXCEPT ![p] = next]
           setter == [h.setter EXCEPT ![p] = Nobody]
<1>3. r = [h EXCEPT !.timer[p] = next, !.setter[p] = Nobody]
  BY DEF do_outputSet, o
<1> HIDE DEF h
<1>4. h \in PinStates /\ h.intr = s.intr
  BY <1>1, <1>2 DEF Handled
<1>5. /\ r \in PinStates /\ r.out = h.out /\ r.level = h.level /\ r.intr = h.intr
      /\ r.prev = h.prev /\ r.blind = h.blind /\ r.timer = timer /\ r.setter = setter
  <2>1. timer \in [Pins -> {Nobody, 0, 1}] /\ setter \in [Pins -> Pins \cup {Nobody}]
    BY <1>4 DEF PinStates
  <2>2. r = [h EXCEPT !.timer = timer, !.setter = setter]
    BY <1>3, <1>4 DEF PinStates
  <2> HIDE DEF timer, setter, r
  <2>3. QED
    BY <1>4, <2>1, <2>2 DEF PinStates
<1> HIDE DEF r
<1>6. /\ r.timer[p] = next /\ r.setter[p] = Nobody
      /\ \A x \in Pins : x # p => r.timer[x] = h.timer[x] /\ r.setter[x] = h.setter[x]
  BY <1>4, <1>5 DEF PinStates
<1> HIDE DEF timer, setter
<1>7. s.out \in [Pins -> 0 .. 1]
  BY DEF PinStates
<1>8. o.out[p] = v /\ \A x \in Pins : x # p => o.out[x] = s.out[x]
  BY <1>1, <1>7
<1>9. \A x \in Pins : IsInput(x) =>
         /\ r.level[x] = s.level[x]
         /\ x = p => r.prev[x] = s.level[x]
         /\ x # p => r.prev[x] = s.prev[x] /\ (x \in s.blind => x \in r.blind)
  BY <1>1, <1>2, <1>5 DEF Handled, IsInput
<1>10. ASSUME NEW x \in Pins, Reverts(s, x)
       PROVE  Reverts(r, x)
  <2>1. CASE x = p
    BY <1>2, <1>5, <1>6, <1>8, <2>1 DEF Handled, Reverts
  <2>2. CASE x # p
    <3>1. Reverts(o, x)
      BY <1>1, <1>8, <1>10, <2>2 DEF Reverts
    <3>2. Reverts(h, x)
      BY <1>2, <3>1 DEF Handled
    <3>3. QED
      BY <1>5, <1>6, <2>2, <3>2 DEF Reverts
  <2>3. QED
    BY <2>1, <2>2
<1>11. ASSUME NEW x \in Pins, NEW y \in Pins, Shows(s, x, y)
       PROVE  Shows(r, x, y)
  <2>1. CASE y = p
    BY <1>6, <2>1, PinsAreNumbers DEF Shows
  <2>2. CASE y # p
    <3>1. Shows(o, x, y)
      BY <1>1, <1>8, <1>11, <2>2 DEF Shows
    <3>2. Shows(h, x, y)
      BY <1>2, <3>1 DEF Handled
    <3>3. QED
      BY <1>5, <1>6, <2>2, <3>2 DEF Shows
  <2>3. QED
    BY <2>1, <2>2
<1>12. Kept(s, r, p)
  BY <1>4, <1>5, <1>9, <1>10, <1>11 DEF Kept
<1>13. QED
  BY <1>12 DEF r

LEMMA UnlinkedFacts ==
  ASSUME NEW s \in PinStates, NEW p \in Pins
  PROVE  \E setter \in [Pins -> Pins \cup {Nobody}] :
           /\ Unlinked(s, p) = [s EXCEPT !.setter = setter]
           /\ Unlinked(s, p) \in PinStates
           /\ \A q \in Pins : setter[q] # Nobody =>
                setter[q] = s.setter[q] /\ setter[q] # p /\ q # p
<1> DEFINE setter == [q \in Pins |->
                        IF s.setter[q] = p \/ q = p THEN Nobody ELSE s.setter[q]]
<1>1. setter \in [Pins -> Pins \cup {Nobody}]
  BY DEF PinStates
<1>2. \A q \in Pins : setter[q] # Nobody =>
         setter[q] = s.setter[q] /\ setter[q] # p /\ q # p
  OBVIOUS
<1>3. Unlinked(s, p) = [s EXCEPT !.setter = setter]
  BY DEF Unlinked, PinStates
<1> HIDE DEF setter
<1>4. Unlinked(s, p) \in PinStates
  BY <1>1, <1>3 DEF PinStates
<1>5. QED
  BY <1>1, <1>2, <1>3, <1>4
----------------------------------------------------------------------------
(* The start: the inputs are read one after the other.                      *)

LEMMA LeastNumber ==
  ASSUME NEW T \in SUBSET Nat, T # {}
  PROVE  \E n \in T : \A m \in T : ~(m < n)
<1> DEFINE R == OpToRel(<, Nat)
<1>1. IsWellFoundedOn(R, Nat)
  BY NatLessThanWellFounded DEF OpToRel
<1>2. PICK n \in T : \A m \in T : <<m, n>> \notin R
  BY <1>1, WFMin
<1>3. QED
  BY <1>2 DEF OpToRel

BootUpTo(f, s, n) ==
  f = [k \in 0 .. n |-> IF k = 0 THEN s ELSE Boots(f[k - 1], k - 1)]

LEMMA BootExists ==
  ASSUME NEW s
  PROVE  \A n \in Nat : \E f : BootUpTo(f, s, n)
<1> DEFINE T == {n \in Nat : ~ \E f : BootUpTo(f, s, n)}
<1> SUFFICES ASSUME T # {} PROVE FALSE
  OBVIOUS
<1>1. PICK n \in T : \A m \in T : ~(m < n)
  BY LeastNumber
<1>2. n \in Nat
  OBVIOUS
<1>3. CASE n = 0
  <2> DEFINE f == [k \in 0 .. 0 |-> s]
  <2>1. BootUpTo(f, s, 0)
    BY DEF BootUpTo
  <2>2. QED
    BY <1>1, <1>3, <2>1
<1>4. CASE n > 0
  <2>1. n - 1 \in Nat /\ n - 1 \notin T
    BY <1>1, <1>2, <1>4
  <2>2. PICK f : BootUpTo(f, s, n - 1)
    BY <2>1
  <2> DEFINE g == [k \in 0 .. n |-> IF k = n THEN Boots(f[n - 1], n - 1) ELSE f[k]]
             h == [k \in 0 .. n |-> IF k = 0 THEN s ELSE Boots(g[k - 1], k - 1)]
  <2>3. \A k \in 0 .. (n - 1) : f[k] = IF k = 0 THEN s ELSE Boots(f[k - 1], k - 1)
    BY <2>2 DEF BootUpTo
  <2>4. \A k \in 0 .. (n - 1) : g[k] = f[k]
    BY <1>2
  <2>5. g[n] = Boots(f[n - 1], n - 1)
    BY <1>2
  <2>6. \A k \in 0 .. n : g[k] = IF k = 0 THEN s ELSE Boots(g[k - 1], k - 1)
    <3> SUFFICES ASSUME NEW k \in 0 .. n
                 PROVE  g[k] = IF k = 0 THEN s ELSE Boots(g[k - 1], k - 1)
      OBVIOUS
    <3> HIDE DEF g, h
    <3>1. CASE k = n
      <4>1. n - 1 \in 0 .. (n - 1)
        BY <2>1
      <4>2. QED
        BY <1>4, <2>4, <2>5, <3>1, <4>1
    <3>2. CASE k # n
      <4>1. k \in 0 .. (n - 1) /\ (k # 0 => k - 1 \in 0 .. (n - 1))
        BY <1>2, <3>2
      <4>2. QED
        BY <2>3, <2>4, <4>1
    <3>3. QED
      BY <3>1, <3>2
  <2>7. g = h
    BY <2>6
  <2>8. BootUpTo(g, s, n)
    BY <2>7 DEF BootUpTo
  <2>9. QED
    BY <1>1, <2>8
<1>5. QED
  BY <1>2, <1>3, <1>4

\* The pins t are those of s after the inputs below n have been read.
BootedTo(s, t, n) ==
  /\ t \in PinStates /\ t.intr = s.intr
  /\ \A p \in Pins : IsInput(p) /\ p < n => t.prev[p] = t.level[p]
  /\ \A p \in Pins : Reverts(t, p)
  /\ \A p, q \in Pins : Shows(t, p, q)

LEMMA BootsStep ==
  ASSUME Typed, NEW s, NEW t, NEW n \in Nat, BootedTo(s, t, n)
  PROVE  BootedTo(s, Boots(t, n), n + 1)
<1>1. CASE n \in Pins /\ IsInput(n)
  <2> DEFINE r == handlePinValueChange(t, n)
  <2>1. t \in PinStates
    BY DEF BootedTo
  <2>2. Kept(t, r, n)
    BY <1>1, <2>1, HandleKeeps
  <2>3. Boots(t, n) = r
    BY <1>1 DEF Boots
  <2> HIDE DEF r
  <2>4. ASSUME NEW p \in Pins, IsInput(p), p < n + 1
        PROVE  r.prev[p] = r.level[p]
    <3>1. CASE p = n
      BY <2>2, <2>4, <3>1 DEF Kept
    <3>2. CASE p # n
      <4>1. p < n
        BY <2>4, <3>2, PinsAreNumbers
      <4>2. QED
        BY <2>2, <2>4, <3>2, <4>1 DEF Kept, BootedTo
    <3>3. QED
      BY <3>1, <3>2
  <2>5. QED
    BY <2>2, <2>3, <2>4 DEF Kept, BootedTo
<1>2. CASE ~(n \in Pins /\ IsInput(n))
  <2>1. Boots(t, n) = t
    BY <1>2 DEF Boots
  <2>2. \A p \in Pins : IsInput(p) /\ p < n + 1 => p < n
    BY <1>2, PinsAreNumbers
  <2>3. QED
    BY <2>1, <2>2 DEF BootedTo
<1>3. QED
  BY <1>1, <1>2

LEMMA BootedFacts ==
  ASSUME Typed, NEW s, BootedTo(s, s, 0)
  PROVE  BootedTo(s, Booted(s), 17)
<1> DEFINE booted == CHOOSE f : BootUpTo(f, s, 17)
<1>1. BootUpTo(booted, s, 17)
  BY BootExists
<1>2. Booted(s) = booted[17]
  BY DEF Booted, BootUpTo
<1> HIDE DEF booted
<1>3. \A k \in 0 .. 17 : booted[k] = IF k = 0 THEN s ELSE Boots(booted[k - 1], k - 1)
  BY <1>1 DEF BootUpTo
<1> DEFINE T == {k \in 0 .. 17 : ~BootedTo(s, booted[k], k)}
<1>4. T = {}
  <2> SUFFICES ASSUME T # {} PROVE FALSE
    OBVIOUS
  <2>1. PICK k \in T : \A j \in T : ~(j < k)
    <3>1. T \in SUBSET Nat
      OBVIOUS
    <3> HIDE DEF T
    <3>2. QED
      BY <3>1, LeastNumber
  <2>2. k \in 0 .. 17 /\ ~BootedTo(s, booted[k], k)
    OBVIOUS
  <2>3. k # 0
    BY <1>3, <2>2
  <2>4. k - 1 \in 0 .. 17 /\ k - 1 \in Nat /\ k - 1 < k /\ (k - 1) + 1 = k
    BY <2>2, <2>3
  <2>5. BootedTo(s, booted[k - 1], k - 1)
    BY <2>1, <2>4
  <2>6. booted[k] = Boots(booted[k - 1], k - 1)
    BY <1>3, <2>2, <2>3
  <2>7. BootedTo(s, booted[k], (k - 1) + 1)
    BY <2>4, <2>5, <2>6, BootsStep
  <2>8. QED
    BY <2>2, <2>4, <2>7
<1>5. QED
  BY <1>2, <1>4

LEMMA PowerUpFacts ==
  ASSUME NEW levels \in [Pins -> {0, 1}]
  PROVE  LET s == PowerUp(levels) IN
         /\ s \in PinStates
         /\ \A p \in Pins : s.intr[p] = IsInput(p) /\ s.timer[p] = Nobody
                            /\ s.setter[p] = Nobody
<1> DEFINE out == [p \in Pins |-> 0]
           level == [p \in Pins |-> IF IsInput(p) THEN levels[p] ELSE 0]
           intr == [p \in Pins |-> IsInput(p)]
           prev == [p \in Pins |-> Unread]
           none == [p \in Pins |-> Nobody]
           s == PowerUp(levels)
<1>1. s = [out |-> out, level |-> level, intr |-> intr, prev |-> prev, timer |-> none,
           blind |-> {}, setter |-> none]
  BY DEF PowerUp
<1>2. out \in [Pins -> 0 .. 1] /\ level \in [Pins -> 0 .. 1]
  OBVIOUS
<1>3. intr \in [Pins -> BOOLEAN]
  BY DEF IsInput
<1>4. /\ prev \in [Pins -> {0, 1, Unread}] /\ none \in [Pins -> {Nobody, 0, 1}]
      /\ none \in [Pins -> Pins \cup {Nobody}]
  OBVIOUS
<1>5. \A p \in Pins : intr[p] = IsInput(p) /\ none[p] = Nobody
  OBVIOUS
<1> HIDE DEF out, level, intr, prev, none, s
<1>6. s \in PinStates /\ s.intr = intr /\ s.timer = none /\ s.setter = none
  BY <1>1, <1>2, <1>3, <1>4 DEF PinStates
<1>7. QED
  BY <1>5, <1>6 DEF s
----------------------------------------------------------------------------
(* The invariant at power-up.                                               *)

LEMMA PinBounds == \A p \in Pins : ~(p < 0) /\ p < 17
<1> SUFFICES ASSUME NEW p \in Pins PROVE ~(p < 0) /\ p < 17
  OBVIOUS
<1>1. p \in 0 .. 16
  BY PinsAreNumbers
<1>2. QED
  BY <1>1

LEMMA NoLinkFacts ==
  NoLink \in [pin : Pins \cup {Unread}, type : Types] /\ NoLink.type = "NONE"
BY DEF NoLink, Types

LEMMA BootKeeps == Boot => IInv
<1> SUFFICES ASSUME Boot PROVE IInv
  OBVIOUS
<1>1. PICK saved \in SUBSET Links :
        link = [p \in Pins |->
             IF \E l \in saved : l[1] = p
               THEN LET l == CHOOSE x \in saved : x[1] = p IN [pin |-> l[2], type |-> l[3]]
               ELSE NoLink]
  BY DEF Boot, SavedLinks
<1>2. ASSUME NEW p \in Pins
      PROVE  /\ link[p] \in [pin : Pins \cup {Unread}, type : Types]
             /\ link[p].type # "NONE" => link[p].pin \in Pins
  <2>1. CASE \E l \in saved : l[1] = p
    <3> DEFINE l == CHOOSE x \in saved : x[1] = p
    <3>1. l \in saved
      BY <2>1
    <3>2. link[p] = [pin |-> l[2], type |-> l[3]]
      BY <1>1, <2>1
    <3> HIDE DEF l
    <3>3. l \in Pins \X Pins \X (Types \ {"NONE"})
      BY <3>1, GpioAssumption
    <3>4. l[2] \in Pins /\ l[3] \in Types
      BY <3>3
    <3>5. QED
      BY <3>2, <3>4
  <2>2. CASE ~ \E l \in saved : l[1] = p
    BY <1>1, <2>2, NoLinkFacts
  <2>3. QED
    BY <2>1, <2>2
<1>3. Typed
  <2>1. mode \in [Pins -> Modes]
    BY DEF Boot, SavedModes
  <2>2. DOMAIN link = Pins /\ link = [p \in Pins |-> link[p]]
    BY <1>1
  <2>3. link \in [Pins -> [pin : Pins \cup {Unread}, type : Types]]
    BY <1>2, <2>2
  <2>4. QED
    BY <1>2, <2>1, <2>3 DEF Typed
<1>4. PICK levels \in [Pins -> {0, 1}] : pins = Booted(PowerUp(levels))
  BY DEF Boot
<1> DEFINE s == PowerUp(levels)
<1>5. /\ s \in PinStates
      /\ \A p \in Pins : s.intr[p] = IsInput(p) /\ s.timer[p] = Nobody /\ s.setter[p] = Nobody
  BY PowerUpFacts
<1> HIDE DEF s
<1>6. BootedTo(s, s, 0)
  <2>1. \A p \in Pins : ~(p < 0)
    BY PinBounds
  <2>2. \A p \in Pins : Reverts(s, p)
    BY <1>5 DEF Reverts
  <2>3. \A p, q \in Pins : Shows(s, p, q)
    BY <1>5, PinsAreNumbers DEF Shows
  <2>4. QED
    BY <1>5, <2>1, <2>2, <2>3 DEF BootedTo
<1>7. BootedTo(s, pins, 17)
  BY <1>3, <1>4, <1>6, BootedFacts DEF s
<1>8. \A p \in Pins : p < 17
  BY PinBounds
<1>9. status = {} /\ debounce = <<>> /\ reading = Nobody /\ Counts
  BY DEF Boot
<1>10. TypeOK
  <2>1. status \subseteq Pins /\ reading \in {Nobody, Down}
    BY <1>9
  <2>2. debounce \in Seq((SUBSET Pins) \ {{}})
    BY <1>9
  <2>3. cmds \in 0 .. MaxCmds /\ edges \in 0 .. MaxEdges
    BY <1>9 DEF Counts
  <2>4. pins \in PinStates
    BY <1>7 DEF BootedTo
  <2>5. QED
    BY <1>3, <2>1, <2>2, <2>3, <2>4 DEF Typed, TypeOK
<1>11. Attended
  BY <1>5, <1>7 DEF BootedTo, Attended
<1>12. LevelSeen
  BY <1>7, <1>8 DEF BootedTo, LevelSeen
<1>13. /\ \A p \in Pins : Reverts(pins, p)
       /\ \A p, q \in Pins : Shows(pins, p, q)
  BY <1>7 DEF BootedTo
<1>14. QED
  BY <1>10, <1>11, <1>12, <1>13 DEF IInv

LEMMA StoppedKeeps == Stopped => IInv
<1> SUFFICES ASSUME Stopped PROVE IInv
  OBVIOUS
<1> DEFINE zero == [p \in Pins |-> 0]
           off == [p \in Pins |-> FALSE]
           prev == [p \in Pins |-> Unread]
           none == [p \in Pins |-> Nobody]
<1>1. /\ mode = [p \in Pins |-> "UNDEFINED"] /\ link = [p \in Pins |-> NoLink]
      /\ status = {} /\ debounce = <<>> /\ reading = Down /\ Counts
  BY DEF Stopped, Off
<1>2. pins = [out |-> zero, level |-> zero, intr |-> off, prev |-> prev, timer |-> none,
              blind |-> {}, setter |-> none]
  BY DEF Stopped, Off
<1>3. /\ zero \in [Pins -> 0 .. 1] /\ off \in [Pins -> BOOLEAN]
      /\ prev \in [Pins -> {0, 1, Unread}] /\ none \in [Pins -> {Nobody, 0, 1}]
      /\ none \in [Pins -> Pins \cup {Nobody}]
  OBVIOUS
<1>4. \A p \in Pins : none[p] = Nobody
  OBVIOUS
<1> HIDE DEF zero, off, prev, none
<1>5. pins \in PinStates /\ pins.timer = none /\ pins.setter = none
  BY <1>2, <1>3 DEF PinStates
<1>6. \A p \in Pins : ~IsInput(p)
  BY <1>1 DEF IsInput
<1>7. TypeOK
  <2>1. "UNDEFINED" \in Modes
    BY DEF Modes
  <2>2. mode \in [Pins -> Modes]
    BY <1>1, <2>1
  <2>3. \A p \in Pins : link[p] = NoLink
    BY <1>1
  <2>4. /\ link \in [Pins -> [pin : Pins \cup {Unread}, type : Types]]
        /\ \A p \in Pins : link[p].type # "NONE" => link[p].pin \in Pins
    BY <1>1, <2>3, NoLinkFacts
  <2>5. debounce \in Seq((SUBSET Pins) \ {{}})
    BY <1>1
  <2>6. QED
    BY <1>1, <1>5, <2>2, <2>4, <2>5 DEF TypeOK, Counts
<1>8. Attended /\ LevelSeen
  BY <1>6 DEF Attended, LevelSeen
<1>9. \A p \in Pins : Reverts(pins, p)
  BY <1>4, <1>5 DEF Reverts
<1>10. \A p, q \in Pins : Shows(pins, p, q)
  BY <1>4, <1>5, PinsAreNumbers DEF Shows
<1>11. QED
  BY <1>7, <1>8, <1>9, <1>10 DEF IInv

LEMMA InvInit == GpioInit => IInv
<1>1. GpioInit => Stopped
  BY GpioAssumption DEF GpioInit, Stopped, Counts
<1>2. QED
  BY <1>1, StoppedKeeps
----------------------------------------------------------------------------
(* The steps.                                                               *)

LEMMA Parts ==
  ASSUME IInv
  PROVE  /\ Typed /\ pins \in PinStates /\ status \subseteq Pins
         /\ debounce \in Seq((SUBSET Pins) \ {{}})
         /\ \A p \in Pins : Reverts(pins, p)
         /\ \A p, q \in Pins : Shows(pins, p, q)
BY DEF IInv, TypeOK, Typed

LEMMA BecomeStatus ==
  ASSUME NEW s, Become(s)
  PROVE  /\ pins' = s /\ status \subseteq status'
         /\ status \subseteq Pins => status' \subseteq Pins
         /\ \A p \in Pins : pins.intr[p] /\ s.level[p] # pins.level[p] => p \in status'
BY DEF Become

LEMMA CmdTyped ==
  ASSUME IInv, Cmd
  PROVE  Idle /\ cmds' \in 0 .. MaxCmds
<1>1. Idle /\ cmds < MaxCmds /\ cmds' = cmds + 1
  BY DEF Cmd
<1>2. cmds \in 0 .. MaxCmds
  BY DEF IInv, TypeOK
<1>3. cmds + 1 \in 0 .. MaxCmds
  BY <1>1, <1>2, GpioAssumption
<1>4. QED
  BY <1>1, <1>3

\* A pin is set, or an input is read, while no other pin is being read.
LEMMA KeptKeeps ==
  ASSUME IInv, NEW s, NEW p \in Pins, Kept(pins, s, p), Become(s), Idle,
         UNCHANGED <<mode, link, debounce>>,
         reading' = Nobody \/ reading' = p
  PROVE  /\ pins' \in PinStates /\ status' \subseteq Pins
         /\ Attended' /\ LevelSeen'
         /\ \A x \in Pins : Reverts(pins', x)
         /\ \A x, y \in Pins : Shows(pins, x, y)'
<1>1. pins' = s /\ status \subseteq status' /\ status' \subseteq Pins
  BY Parts, BecomeStatus
<1>2. /\ s \in PinStates /\ s.intr = pins.intr
      /\ \A x \in Pins : IsInput(x) =>
           /\ s.level[x] = pins.level[x]
           /\ x = p => s.prev[x] = pins.level[x]
           /\ x # p => s.prev[x] = pins.prev[x] /\ (x \in pins.blind => x \in s.blind)
      /\ \A x \in Pins : Reverts(s, x)
      /\ \A x, y \in Pins : Shows(s, x, y)
  BY Parts DEF Kept
<1>3. \A x \in Pins : IsInput(x)' <=> IsInput(x)
  BY DEF IsInput
<1>4. Attended'
  BY <1>1, <1>2, <1>3 DEF IInv, Attended
<1>5. ASSUME NEW x \in Pins, IsInput(x)'
      PROVE  pins'.prev[x] = pins'.level[x] \/ EdgeWaits(x)' \/ x \in pins'.blind
  <2>1. IsInput(x)
    BY <1>3, <1>5
  <2>2. CASE x = p
    BY <1>1, <1>2, <2>1, <2>2
  <2>3. CASE x # p
    <3>1. x # reading'
      BY <2>3, PinsAreNumbers
    <3>2. EdgeWaits(x) => EdgeWaits(x)'
      BY <1>1, <3>1 DEF EdgeWaits
    <3>3. pins.prev[x] = pins.level[x] \/ EdgeWaits(x) \/ x \in pins.blind
      BY <2>1 DEF IInv, LevelSeen
    <3>4. QED
      BY <1>1, <1>2, <2>1, <2>3, <3>2, <3>3
  <2>4. QED
    BY <2>2, <2>3
<1>6. LevelSeen'
  BY <1>5 DEF LevelSeen
<1>7. \A x, y \in Pins : Shows(pins, x, y)'
  BY <1>1, <1>2, <1>3 DEF Shows
<1>8. QED
  BY <1>1, <1>2, <1>4, <1>6, <1>7

LEMMA TypeFrom ==
  ASSUME IInv, pins' \in PinStates, status' \subseteq Pins,
         UNCHANGED <<mode, link>>,
         debounce' \in Seq((SUBSET Pins) \ {{}}),
         reading' \in {Nobody, Down} \/ (debounce' # <<>> /\ reading' \in debounce'[1]),
         cmds' \in 0 .. MaxCmds, edges' \in 0 .. MaxEdges
  PROVE  TypeOK'
<1>1. /\ mode' \in [Pins -> Modes]
      /\ link' \in [Pins -> [pin : Pins \cup {Unread}, type : Types]]
      /\ \A p \in Pins : link'[p].type # "NONE" => link'[p].pin \in Pins
  BY DEF IInv, TypeOK
<1>2. QED
  BY <1>1 DEF TypeOK

LEMMA CountsTyped ==
  ASSUME IInv
  PROVE  cmds \in 0 .. MaxCmds /\ edges \in 0 .. MaxEdges
BY DEF IInv, TypeOK

LEMMA SetPinKeeps ==
  ASSUME IInv, NEW p \in Pins, NEW v \in {0, 1}, NEW while \in BOOLEAN, SetPin(p, v, while)
  PROVE  IInv'
<1> DEFINE next == IF while THEN Not(v) ELSE Nobody
           s == do_outputSet(pins, p, v, next)
<1>1. Cmd /\ Become(s) /\ UNCHANGED <<mode, link, debounce, reading, edges>>
  BY DEF SetPin
<1>2. Idle /\ cmds' \in 0 .. MaxCmds
  BY <1>1, CmdTyped
<1>3. v \in 0 .. 1
  OBVIOUS
<1>4. next \in {Nobody, 0, 1} /\ (next # Nobody => v = Not(next))
  BY <1>3 DEF Not, Nobody
<1> HIDE DEF next
<1>5. Kept(pins, s, p)
  BY <1>3, <1>4, Parts, DoOutputKeeps
<1> HIDE DEF s
<1>6. reading' = Nobody /\ Idle'
  BY <1>1, <1>2 DEF Idle
<1>7. UNCHANGED <<mode, link, debounce>>
  BY <1>1
<1>8. /\ pins' \in PinStates /\ status' \subseteq Pins
      /\ Attended' /\ LevelSeen'
      /\ \A x \in Pins : Reverts(pins', x)
      /\ \A x, y \in Pins : Shows(pins, x, y)'
  BY <1>1, <1>2, <1>5, <1>6, <1>7, KeptKeeps
<1>9. TypeOK'
  <2>1. debounce' \in Seq((SUBSET Pins) \ {{}}) /\ edges' \in 0 .. MaxEdges
    BY <1>1, Parts, CountsTyped
  <2>2. QED
    BY <1>2, <1>6, <1>7, <1>8, <2>1, TypeFrom
<1>10. QED
  BY <1>8, <1>9 DEF IInv

LEMMA DurationOverKeeps ==
  ASSUME IInv, NEW p \in Pins, DurationOver(p)
  PROVE  IInv'
<1> DEFINE v == pins.timer[p]
           s == do_outputSet(pins, p, v, Nobody)
<1>1. /\ Idle /\ v # Nobody /\ Become(s)
      /\ UNCHANGED <<mode, link, debounce, reading, cmds, edges>>
  BY DEF DurationOver
<1>2. v \in 0 .. 1
  <2>1. v \in {Nobody, 0, 1}
    BY Parts DEF PinStates
  <2>2. QED
    BY <1>1, <2>1
<1> HIDE DEF v
<1>3. Kept(pins, s, p)
  BY <1>2, Parts, DoOutputKeeps
<1> HIDE DEF s
<1>4. reading' = Nobody /\ Idle'
  BY <1>1 DEF Idle
<1>5. UNCHANGED <<mode, link, debounce>>
  BY <1>1
<1>6. /\ pins' \in PinStates /\ status' \subseteq Pins
      /\ Attended' /\ LevelSeen'
      /\ \A x \in Pins : Reverts(pins', x)
      /\ \A x, y \in Pins : Shows(pins, x, y)'
  BY <1>1, <1>3, <1>4, <1>5, KeptKeeps
<1>7. TypeOK'
  <2>1. /\ debounce' \in Seq((SUBSET Pins) \ {{}})
        /\ cmds' \in 0 .. MaxCmds /\ edges' \in 0 .. MaxEdges
    BY <1>1, Parts, CountsTyped
  <2>2. QED
    BY <1>4, <1>5, <1>6, <2>1, TypeFrom
<1>8. QED
  BY <1>6, <1>7 DEF IInv

LEMMA FirstIn ==
  ASSUME NEW mask \in SUBSET Pins, mask # {}
  PROVE  First(mask) \in mask
<1>1. mask \in SUBSET Nat
  BY PinsAreNumbers
<1>2. PICK p \in mask : \A q \in mask : ~(q < p)
  BY <1>1, LeastNumber
<1>3. \A q \in mask : p <= q
  BY <1>1, <1>2
<1>4. QED
  BY <1>3 DEF First

LEMMA TimerReadKeeps ==
  ASSUME IInv, TimerRead
  PROVE  IInv'
<1> DEFINE p == First(debounce[1])
           s == handlePinValueChange(pins, p)
<1>1. /\ Idle /\ debounce # <<>> /\ debounce[1] # {} /\ Become(s) /\ reading' = p
      /\ UNCHANGED <<mode, link, debounce, cmds, edges>>
  BY DEF TimerRead
<1>2. debounce[1] \in SUBSET Pins
  BY <1>1, Parts
<1>3. p \in debounce[1] /\ p \in Pins
  BY <1>1, <1>2, FirstIn
<1> HIDE DEF p
<1>4. Kept(pins, s, p)
  BY <1>3, Parts, HandleKeeps
<1> HIDE DEF s
<1>5. UNCHANGED <<mode, link, debounce>>
  BY <1>1
<1>6. /\ pins' \in PinStates /\ status' \subseteq Pins
      /\ Attended' /\ LevelSeen'
      /\ \A x \in Pins : Reverts(pins', x)
      /\ \A x, y \in Pins : Shows(pins, x, y)'
  BY <1>1, <1>3, <1>4, <1>5, KeptKeeps
<1>7. TypeOK'
  <2>1. /\ debounce' \in Seq((SUBSET Pins) \ {{}})
        /\ cmds' \in 0 .. MaxCmds /\ edges' \in 0 .. MaxEdges
    BY <1>1, Parts, CountsTyped
  <2>2. debounce' # <<>> /\ reading' \in debounce'[1]
    BY <1>1, <1>3
  <2>3. QED
    BY <1>5, <1>6, <2>1, <2>2, TypeFrom
<1>8. QED
  BY <1>6, <1>7 DEF IInv

\* The outside world finds a pin whose interrupt is on, or one that a timer
\* has yet to read, or the one that it is reading.
LEMMA EdgeKeeps ==
  ASSUME IInv, NEW p \in Pins, Edge(p)
  PROVE  IInv'
<1> DEFINE level == [pins.level EXCEPT ![p] = Not(pins.level[p])]
           blind == IF reading = p THEN pins.blind \cup {p} ELSE pins.blind
           s == [pins EXCEPT !.level = level, !.blind = blind]
<1>1. /\ IsInput(p) /\ edges < MaxEdges /\ edges' = edges + 1
      /\ UNCHANGED <<mode, link, debounce, reading, cmds>>
  BY DEF Edge
<1>2. pins \in PinStates
  BY Parts
<1>3. Become(s)
  <2>1. Become([pins EXCEPT !.level[p] = Not(@),
                            !.blind = IF reading = p THEN @ \cup {p} ELSE @])
    BY DEF Edge
  <2>2. s = [pins EXCEPT !.level[p] = Not(@),
                         !.blind = IF reading = p THEN @ \cup {p} ELSE @]
    BY <1>2 DEF PinStates
  <2>3. QED
    BY <2>1, <2>2
<1>4. level \in [Pins -> 0 .. 1] /\ blind \in SUBSET Pins
  BY <1>2 DEF PinStates, Not
<1>5. level[p] # pins.level[p] /\ \A x \in Pins : x # p => level[x] = pins.level[x]
  BY <1>2 DEF PinStates, Not
<1>6. \A x \in Pins : x \in pins.blind => x \in blind
  OBVIOUS
<1>7. reading = p => p \in blind
  OBVIOUS
<1> HIDE DEF level, blind
<1>8. /\ s \in PinStates /\ s.level = level /\ s.blind = blind /\ s.out = pins.out
      /\ s.intr = pins.intr /\ s.prev = pins.prev /\ s.timer = pins.timer
      /\ s.setter = pins.setter
  BY <1>2, <1>4 DEF PinStates
<1> HIDE DEF s
<1>9. /\ pins' = s /\ status \subseteq status' /\ status' \subseteq Pins
      /\ pins.intr[p] => p \in status'
  BY <1>3, <1>5, <1>8, Parts, BecomeStatus
<1>10. \A x \in Pins : IsInput(x)' <=> IsInput(x)
  BY <1>1 DEF IsInput
<1>11. TypeOK'
  <2>1. edges' \in 0 .. MaxEdges
    <3>1. edges \in 0 .. MaxEdges
      BY CountsTyped
    <3>2. QED
      BY <1>1, <3>1, GpioAssumption
  <2>2. debounce' \in Seq((SUBSET Pins) \ {{}}) /\ cmds' \in 0 .. MaxCmds
    BY <1>1, Parts, CountsTyped
  <2>3. reading' \in {Nobody, Down} \/ (debounce' # <<>> /\ reading' \in debounce'[1])
    <3>1. reading \in {Nobody, Down} \/ (debounce # <<>> /\ reading \in debounce[1])
      BY DEF IInv, TypeOK
    <3>2. QED
      BY <1>1, <3>1
  <2>4. QED
    BY <1>1, <1>8, <1>9, <2>1, <2>2, <2>3, TypeFrom
<1>12. Attended'
  BY <1>1, <1>8, <1>9, <1>10 DEF IInv, Attended
<1>13. LevelSeen'
  <2> SUFFICES ASSUME NEW x \in Pins, IsInput(x)'
               PROVE  pins'.prev[x] = pins'.level[x] \/ EdgeWaits(x)' \/ x \in pins'.blind
    BY DEF LevelSeen
  <2>1. IsInput(x)
    BY <1>10
  <2>2. EdgeWaits(x) => EdgeWaits(x)'
    BY <1>1, <1>9 DEF EdgeWaits
  <2>3. CASE x # p
    <3>1. pins.prev[x] = pins.level[x] \/ EdgeWaits(x) \/ x \in pins.blind
      BY <2>1 DEF IInv, LevelSeen
    <3>2. QED
      BY <1>5, <1>6, <1>8, <1>9, <2>2, <2>3, <3>1
  <2>4. CASE x = p /\ pins.intr[p]
    BY <1>9, <2>4 DEF EdgeWaits
  <2>5. CASE x = p /\ ~pins.intr[p]
    <3>1. PICK i \in DOMAIN debounce : p \in debounce[i]
      BY <2>1, <2>5 DEF IInv, Attended
    <3>2. CASE reading = p
      BY <1>7, <1>8, <1>9, <2>5, <3>2
    <3>3. CASE reading # p
      BY <1>1, <2>5, <3>1, <3>3 DEF EdgeWaits
    <3>4. QED
      BY <3>2, <3>3
  <2>6. QED
    BY <2>3, <2>4, <2>5
<1>14. \A x \in Pins : Reverts(pins', x)
  BY <1>8, <1>9, Parts DEF Reverts
<1>15. \A x, y \in Pins : Shows(pins, x, y)'
  BY <1>1, <1>8, <1>9, <1>10, Parts DEF Shows
<1>16. QED
  BY <1>11, <1>12, <1>13, <1>14, <1>15 DEF IInv

LEMMA HandlerKeeps ==
  ASSUME IInv, status # {}, Deferred(status)
  PROVE  IInv'
<1> DEFINE intr == [p \in Pins |-> pins.intr[p] /\ p \notin status]
           n == Len(debounce) + 1
<1>1. /\ status # {} /\ debounce' = Append(debounce, status) /\ status' = {}
      /\ UNCHANGED <<mode, link, reading, cmds, edges>>
  BY DEF Deferred
<1>2. pins \in PinStates /\ status \subseteq Pins /\ debounce \in Seq((SUBSET Pins) \ {{}})
  BY Parts
<1>3. pins' = [pins EXCEPT !.intr = intr]
  BY <1>2 DEF Deferred, PinStates
<1>4. intr \in [Pins -> BOOLEAN] /\ \A p \in Pins : p \notin status => intr[p] = pins.intr[p]
  BY <1>2 DEF PinStates
<1> HIDE DEF intr
<1>5. /\ pins' \in PinStates /\ pins'.intr = intr /\ pins'.level = pins.level
      /\ pins'.blind = pins.blind /\ pins'.out = pins.out /\ pins'.prev = pins.prev
      /\ pins'.timer = pins.timer /\ pins'.setter = pins.setter
  BY <1>2, <1>3, <1>4 DEF PinStates
<1>6. \A x \in Pins : IsInput(x)' <=> IsInput(x)
  BY <1>1 DEF IsInput
<1>7. status \in (SUBSET Pins) \ {{}}
  BY <1>1, <1>2
<1>8. /\ debounce' \in Seq((SUBSET Pins) \ {{}})
      /\ n \in DOMAIN debounce' /\ debounce'[n] = status
      /\ \A i \in DOMAIN debounce : i \in DOMAIN debounce' /\ debounce'[i] = debounce[i]
      /\ n = 1 => debounce = <<>>
  <2> DEFINE S == (SUBSET Pins) \ {{}}
  <2>1. debounce \in Seq(S) /\ status \in S /\ debounce' = Append(debounce, status)
    BY <1>1, <1>2, <1>7
  <2> HIDE DEF S
  <2>2. QED
    BY <2>1 DEF S
<1> HIDE DEF n
<1>9. reading' \in {Nobody, Down} \/ (debounce' # <<>> /\ reading' \in debounce'[1])
  <2>1. reading \in {Nobody, Down} \/ (debounce # <<>> /\ reading \in debounce[1])
    BY DEF IInv, TypeOK
  <2>2. CASE reading \in {Nobody, Down}
    BY <1>1, <2>2
  <2>3. CASE debounce # <<>> /\ reading \in debounce[1]
    <3>1. 1 \in DOMAIN debounce
      BY <1>2, <2>3
    <3>2. debounce'[1] = debounce[1] /\ debounce' # <<>>
      BY <1>8, <3>1
    <3>3. QED
      BY <1>1, <2>3, <3>2
  <2>4. QED
    BY <2>1, <2>2, <2>3
<1>10. TypeOK'
  <2>1. status' \subseteq Pins /\ cmds' \in 0 .. MaxCmds /\ edges' \in 0 .. MaxEdges
    BY <1>1, CountsTyped
  <2>2. QED
    BY <1>1, <1>5, <1>8, <1>9, <2>1, TypeFrom
<1>11. Attended'
  <2> SUFFICES ASSUME NEW x \in Pins, IsInput(x)'
               PROVE  pins'.intr[x] \/ \E i \in DOMAIN debounce' : x \in debounce'[i]
    BY DEF Attended
  <2>1. CASE x \in status
    BY <1>8, <2>1
  <2>2. CASE x \notin status
    <3>1. pins.intr[x] \/ \E i \in DOMAIN debounce : x \in debounce[i]
      BY <1>6 DEF IInv, Attended
    <3>2. QED
      BY <1>4, <1>5, <1>8, <2>2, <3>1
  <2>3. QED
    BY <2>1, <2>2
<1>12. ASSUME NEW x \in Pins, EdgeWaits(x)
       PROVE  EdgeWaits(x)'
  <2>1. CASE x \in status
    <3>1. ~(n = 1 /\ x = reading)
      <4> SUFFICES ASSUME n = 1, x = reading PROVE FALSE
        OBVIOUS
      <4>1. reading \notin {Nobody, Down}
        BY PinsAreNumbers
      <4>2. debounce # <<>>
        BY <4>1 DEF IInv, TypeOK
      <4>3. QED
        BY <1>8, <4>2
    <3>2. QED
      BY <1>1, <1>8, <2>1, <3>1 DEF EdgeWaits
  <2>2. CASE x \notin status
    <3>1. PICK i \in DOMAIN debounce : x \in debounce[i] /\ ~(i = 1 /\ x = reading)
      BY <1>12, <2>2 DEF EdgeWaits
    <3>2. QED
      BY <1>1, <1>8, <3>1 DEF EdgeWaits
  <2>3. QED
    BY <2>1, <2>2
<1>13. LevelSeen'
  BY <1>5, <1>6, <1>12 DEF IInv, LevelSeen
<1>14. \A x \in Pins : Reverts(pins', x)
  BY <1>5, Parts DEF Reverts
<1>15. \A x, y \in Pins : Shows(pins, x, y)'
  BY <1>1, <1>5, <1>6, Parts DEF Shows
<1>16. QED
  BY <1>10, <1>11, <1>13, <1>14, <1>15 DEF IInv

LEMMA TimerEnableKeeps ==
  ASSUME IInv, TimerEnable
  PROVE  IInv'
<1> DEFINE p == reading
           left == debounce[1] \ {p}
           intr == [pins.intr EXCEPT ![p] = TRUE]
<1>1. /\ reading \in Pins /\ reading' = Nobody
      /\ debounce' = IF left = {} THEN Tail(debounce) ELSE [debounce EXCEPT ![1] = left]
      /\ UNCHANGED <<mode, link, status, cmds, edges>>
  BY DEF TimerEnable
<1>2. /\ pins \in PinStates /\ status \subseteq Pins
      /\ debounce \in Seq((SUBSET Pins) \ {{}})
  BY Parts
<1>3. debounce # <<>> /\ p \in debounce[1]
  BY <1>1, PinsAreNumbers DEF IInv, TypeOK
<1>4. p \in Pins /\ debounce[1] \in SUBSET Pins
  BY <1>2, <1>3
<1>5. pins' = [pins EXCEPT !.intr = intr]
  BY <1>2 DEF TimerEnable, PinStates
<1>6. /\ intr \in [Pins -> BOOLEAN] /\ intr[p] = TRUE
      /\ \A x \in Pins : x # p => intr[x] = pins.intr[x]
  BY <1>2, <1>4 DEF PinStates
<1> HIDE DEF intr
<1>7. /\ pins' \in PinStates /\ pins'.intr = intr /\ pins'.level = pins.level
      /\ pins'.blind = pins.blind /\ pins'.out = pins.out /\ pins'.prev = pins.prev
      /\ pins'.timer = pins.timer /\ pins'.setter = pins.setter
  BY <1>2, <1>5, <1>6 DEF PinStates
<1>8. \A x \in Pins : IsInput(x)' <=> IsInput(x)
  BY <1>1 DEF IsInput
<1>9. /\ debounce' \in Seq((SUBSET Pins) \ {{}})
      /\ \A i \in DOMAIN debounce : \A x \in debounce[i] :
           ~(i = 1 /\ x = p) => \E j \in DOMAIN debounce' : x \in debounce'[j]
  <2> DEFINE S == (SUBSET Pins) \ {{}}
  <2>1. debounce \in Seq(S) /\ 1 \in DOMAIN debounce
    BY <1>2, <1>3
  <2>2. left \in SUBSET Pins
    BY <1>4
  <2>3. \A x \in debounce[1] : x # p => x \in left
    OBVIOUS
  <2>4. debounce' = IF left = {} THEN Tail(debounce) ELSE [debounce EXCEPT ![1] = left]
    BY <1>1
  <2> HIDE DEF left
  <2>5. CASE left = {}
    <3>1. debounce' = Tail(debounce)
      BY <2>4, <2>5
    <3> HIDE DEF S
    <3>2. /\ debounce' \in Seq(S)
          /\ \A i \in DOMAIN debounce : i # 1 =>
               i - 1 \in DOMAIN debounce' /\ debounce'[i - 1] = debounce[i]
      BY <2>1, <3>1
    <3>3. QED
      BY <2>3, <2>5, <3>2 DEF S
  <2>6. CASE left # {}
    <3>1. debounce' = [debounce EXCEPT ![1] = left] /\ left \in S
      BY <2>2, <2>4, <2>6
    <3> HIDE DEF S
    <3>2. /\ debounce' \in Seq(S) /\ DOMAIN debounce' = DOMAIN debounce
          /\ debounce'[1] = left
          /\ \A i \in DOMAIN debounce : i # 1 => debounce'[i] = debounce[i]
      BY <2>1, <3>1
    <3>3. QED
      BY <2>3, <3>2 DEF S
  <2>7. QED
    BY <2>5, <2>6
<1>10. TypeOK'
  <2>1. status' \subseteq Pins /\ cmds' \in 0 .. MaxCmds /\ edges' \in 0 .. MaxEdges
    BY <1>1, <1>2, CountsTyped
  <2>2. Idle'
    BY <1>1 DEF Idle
  <2>3. QED
    BY <1>1, <1>7, <1>9, <2>1, <2>2, TypeFrom
<1>11. Attended'
  <2> SUFFICES ASSUME NEW x \in Pins, IsInput(x)'
               PROVE  pins'.intr[x] \/ \E i \in DOMAIN debounce' : x \in debounce'[i]
    BY DEF Attended
  <2>1. CASE x = p
    BY <1>6, <1>7, <2>1
  <2>2. CASE x # p
    <3>1. pins.intr[x] \/ \E i \in DOMAIN debounce : x \in debounce[i]
      BY <1>8 DEF IInv, Attended
    <3>2. QED
      BY <1>6, <1>7, <1>9, <2>2, <3>1
  <2>3. QED
    BY <2>1, <2>2
<1>12. ASSUME NEW x \in Pins, EdgeWaits(x)
       PROVE  EdgeWaits(x)'
  <2>1. x # reading'
    BY <1>1, PinsAreNumbers
  <2>2. QED
    BY <1>1, <1>9, <1>12, <2>1 DEF EdgeWaits
<1>13. LevelSeen'
  BY <1>7, <1>8, <1>12 DEF IInv, LevelSeen
<1>14. \A x \in Pins : Reverts(pins', x)
  BY <1>7, Parts DEF Reverts
<1>15. \A x, y \in Pins : Shows(pins, x, y)'
  BY <1>1, <1>7, <1>8, Parts DEF Shows
<1>16. QED
  BY <1>10, <1>11, <1>13, <1>14, <1>15 DEF IInv

\* A command takes pin p out of all links that have set something.
Freed(s, r, p) ==
  /\ r \in PinStates /\ r.out = s.out /\ r.prev = s.prev /\ r.timer = s.timer
  /\ \A x \in Pins : x # p => r.level[x] = s.level[x] /\ r.intr[x] = s.intr[x]
                              /\ (x \in s.blind => x \in r.blind)
  /\ \A x, y \in Pins : r.setter[y] = x => s.setter[y] = x /\ x # p /\ y # p

LEMMA FreedKeeps ==
  ASSUME IInv, NEW p \in Pins, Freed(pins, pins', p), Idle,
         UNCHANGED <<debounce, reading>>,
         \A x \in Pins : x # p =>
           mode'[x] = mode[x] /\ link'[x] = link[x] /\ (x \in status => x \in status'),
         IsInput(p)' => pins'.intr[p] /\ p \in pins'.blind
  PROVE  /\ Attended' /\ LevelSeen'
         /\ \A x \in Pins : Reverts(pins', x)
         /\ \A x, y \in Pins : Shows(pins, x, y)'
<1>1. \A x \in Pins : x # p => (IsInput(x)' <=> IsInput(x))
  BY DEF IsInput
<1>2. \A x \in Pins : x # p => (EdgeWaits(x) => EdgeWaits(x)')
  BY DEF EdgeWaits
<1>3. Attended'
  BY <1>1 DEF IInv, Attended, Freed
<1>4. LevelSeen'
  BY <1>1, <1>2 DEF IInv, LevelSeen, Freed
<1>5. \A x \in Pins : Reverts(pins', x)
  BY Parts DEF Reverts, Freed
<1>6. ASSUME NEW x \in Pins, NEW y \in Pins, pins'.setter[y] = x
      PROVE  Shows(pins, x, y)'
  <2>1. /\ pins.setter[y] = x /\ x # p /\ y # p
        /\ pins'.out = pins.out /\ pins'.prev = pins.prev
    BY <1>6 DEF Freed
  <2>2. Shows(pins, x, y)
    BY Parts
  <2>3. /\ IsInput(x)' /\ mode'[y] = mode[y] /\ link'[x] = link[x]
    BY <1>1, <2>1, <2>2 DEF Shows
  <2>4. QED
    BY <2>1, <2>2, <2>3 DEF Shows
<1>7. \A x, y \in Pins : Shows(pins, x, y)'
  BY <1>6 DEF Shows
<1>8. QED
  BY <1>3, <1>4, <1>5, <1>7

LEMMA UnlinkedFrees ==
  ASSUME NEW s \in PinStates, NEW p \in Pins
  PROVE  /\ Freed(s, Unlinked(s, p), p)
         /\ Unlinked(s, p).level = s.level /\ Unlinked(s, p).intr = s.intr
         /\ Unlinked(s, p).blind = s.blind
<1> DEFINE r == Unlinked(s, p)
<1>1. PICK setter \in [Pins -> Pins \cup {Nobody}] :
        /\ Unlinked(s, p) = [s EXCEPT !.setter = setter]
        /\ Unlinked(s, p) \in PinStates
        /\ \A q \in Pins : setter[q] # Nobody =>
             setter[q] = s.setter[q] /\ setter[q] # p /\ q # p
  BY UnlinkedFacts
<1> HIDE DEF r
<1>2. /\ r \in PinStates /\ r.out = s.out /\ r.prev = s.prev /\ r.timer = s.timer
      /\ r.level = s.level /\ r.intr = s.intr /\ r.blind = s.blind /\ r.setter = setter
  <2>1. r = [s EXCEPT !.setter = setter] /\ r \in PinStates
    BY <1>1 DEF r
  <2>2. QED
    BY <2>1 DEF PinStates
<1>3. \A x, y \in Pins : r.setter[y] = x => s.setter[y] = x /\ x # p /\ y # p
  BY <1>1, <1>2, PinsAreNumbers
<1>4. Freed(s, r, p)
  BY <1>2, <1>3 DEF Freed
<1>5. QED
  BY <1>2, <1>4 DEF r

\* "gpio <p> trigger": mode and pins stay, the link changes.
LEMMA LinkKeeps ==
  ASSUME IInv, NEW p \in Pins, NEW l \in [pin : Pins \cup {Unread}, type : Types],
         l.type # "NONE" => l.pin \in Pins,
         Cmd, link' = [link EXCEPT ![p] = l], pins' = Unlinked(pins, p),
         UNCHANGED <<mode, status, debounce, reading, edges>>
  PROVE  IInv'
<1>1. Idle /\ cmds' \in 0 .. MaxCmds
  BY CmdTyped
<1>2. pins \in PinStates /\ Typed /\ status \subseteq Pins
      /\ debounce \in Seq((SUBSET Pins) \ {{}})
  BY Parts
<1> DEFINE r == Unlinked(pins, p)
<1>3. Freed(pins, r, p) /\ r.level = pins.level /\ r.intr = pins.intr /\ r.blind = pins.blind
  BY <1>2, UnlinkedFrees
<1>4. pins' = r
  OBVIOUS
<1> HIDE DEF r
<1>5. link'[p] = l /\ \A x \in Pins : x # p => link'[x] = link[x]
  BY <1>2 DEF Typed
<1>6. \A x \in Pins : IsInput(x)' <=> IsInput(x)
  BY DEF IsInput
<1>7. TypeOK'
  <2>1. /\ link' \in [Pins -> [pin : Pins \cup {Unread}, type : Types]]
        /\ \A x \in Pins : link'[x].type # "NONE" => link'[x].pin \in Pins
    BY <1>2, <1>5 DEF Typed
  <2>2. mode' \in [Pins -> Modes]
    BY <1>2 DEF Typed
  <2>3. pins' \in PinStates /\ status' \subseteq Pins
        /\ debounce' \in Seq((SUBSET Pins) \ {{}})
    BY <1>2, <1>3, <1>4 DEF Freed
  <2>4. Idle'
    BY <1>1 DEF Idle
  <2>5. edges' \in 0 .. MaxEdges
    BY CountsTyped
  <2>6. QED
    BY <1>1, <2>1, <2>2, <2>3, <2>4, <2>5 DEF TypeOK, Idle
<1>8. Attended'
  BY <1>3, <1>4, <1>6 DEF IInv, Attended
<1>9. LevelSeen'
  <2>1. \A x \in Pins : EdgeWaits(x) => EdgeWaits(x)'
    BY DEF EdgeWaits
  <2>2. r.prev = pins.prev
    BY <1>3 DEF Freed
  <2>3. QED
    BY <1>3, <1>4, <1>6, <2>1, <2>2 DEF IInv, LevelSeen
<1>10. \A x \in Pins : Reverts(pins', x)
  BY <1>3, <1>4, Parts DEF Reverts, Freed
<1>11. ASSUME NEW x \in Pins, NEW y \in Pins, pins'.setter[y] = x
       PROVE  Shows(pins, x, y)'
  <2>1. /\ pins.setter[y] = x /\ x # p
        /\ pins'.out = pins.out /\ pins'.prev = pins.prev
    BY <1>3, <1>4, <1>11 DEF Freed
  <2>2. Shows(pins, x, y)
    BY Parts
  <2>3. link'[x] = link[x] /\ mode' = mode
    BY <1>5, <2>1
  <2>4. QED
    BY <1>6, <2>1, <2>2, <2>3 DEF Shows
<1>12. \A x, y \in Pins : Shows(pins, x, y)'
  BY <1>11 DEF Shows
<1>13. QED
  BY <1>7, <1>8, <1>9, <1>10, <1>12 DEF IInv

LEMMA TriggerKeeps ==
  ASSUME IInv, NEW p \in Pins,
         TriggerNone(p) \/ \E l \in Links : p = l[1] /\ Trigger(l[1], l[2], l[3])
  PROVE  IInv'
<1>1. CASE TriggerNone(p)
  BY <1>1, LinkKeeps, NoLinkFacts DEF TriggerNone
<1>2. CASE \E l \in Links : p = l[1] /\ Trigger(l[1], l[2], l[3])
  <2>1. PICK l \in Links : p = l[1] /\ Trigger(l[1], l[2], l[3])
    BY <1>2
  <2>2. l[2] \in Pins /\ l[3] \in Types
    <3>1. l \in Pins \X Pins \X (Types \ {"NONE"})
      BY GpioAssumption
    <3>2. QED
      BY <3>1
  <2> DEFINE k == [pin |-> l[2], type |-> l[3]]
  <2>3. k \in [pin : Pins \cup {Unread}, type : Types] /\ k.pin \in Pins
    BY <2>2
  <2>4. /\ Cmd /\ link' = [link EXCEPT ![p] = k] /\ pins' = Unlinked(pins, p)
        /\ UNCHANGED <<mode, status, debounce, reading, edges>>
    BY <2>1 DEF Trigger
  <2> HIDE DEF k
  <2>5. QED
    BY <2>3, <2>4, LinkKeeps
<1>3. QED
  BY <1>1, <1>2

LEMMA ModeTypes ==
  ASSUME IInv, NEW p \in Pins, NEW m \in Modes, Cmd, pins' \in PinStates,
         status' \subseteq Pins, mode' = [mode EXCEPT ![p] = m],
         UNCHANGED <<link, debounce, reading, edges>>
  PROVE  TypeOK' /\ mode'[p] = m /\ \A x \in Pins : x # p => mode'[x] = mode[x]
<1>1. Idle /\ cmds' \in 0 .. MaxCmds
  BY CmdTyped
<1>2. mode \in [Pins -> Modes]
  BY Parts DEF Typed
<1>3. mode' \in [Pins -> Modes]
  BY <1>2
<1>4. /\ link' \in [Pins -> [pin : Pins \cup {Unread}, type : Types]]
      /\ \A x \in Pins : link'[x].type # "NONE" => link'[x].pin \in Pins
  BY Parts DEF Typed
<1>5. debounce' \in Seq((SUBSET Pins) \ {{}}) /\ edges' \in 0 .. MaxEdges
  BY Parts, CountsTyped
<1>6. Idle'
  BY <1>1 DEF Idle
<1>7. TypeOK'
  BY <1>1, <1>3, <1>4, <1>5, <1>6 DEF TypeOK, Idle
<1>8. QED
  BY <1>2, <1>7

LEMMA ModeInKeeps ==
  ASSUME IInv, NEW p \in Pins, NEW m \in {"IN", "IN_PULLUP"}, ModeIn(p, m)
  PROVE  IInv'
<1>1. /\ Cmd /\ mode' = [mode EXCEPT ![p] = m] /\ status' = status \ {p}
      /\ UNCHANGED <<link, debounce, reading, edges>>
  BY DEF ModeIn
<1>2. PICK v \in {0, 1} : pins' = Unlinked(Attached(pins, p, v), p)
  BY DEF ModeIn
<1>3. pins \in PinStates /\ status \subseteq Pins
  BY Parts
<1> DEFINE intr == [pins.intr EXCEPT ![p] = TRUE]
           level == [pins.level EXCEPT ![p] = v]
           blind == pins.blind \cup {p}
           s == Attached(pins, p, v)
<1>4. intr \in [Pins -> BOOLEAN] /\ level \in [Pins -> 0 .. 1] /\ blind \in SUBSET Pins
  BY <1>3 DEF PinStates
<1>5. s = [pins EXCEPT !.intr = intr, !.level = level, !.blind = blind]
  BY <1>3 DEF Attached, PinStates
<1>6. /\ intr[p] = TRUE /\ p \in blind
      /\ \A x \in Pins : x # p =>
           intr[x] = pins.intr[x] /\ level[x] = pins.level[x]
           /\ (x \in pins.blind => x \in blind)
  BY <1>3 DEF PinStates
<1> HIDE DEF intr, level, blind, s
<1>7. /\ s \in PinStates /\ s.intr = intr /\ s.level = level /\ s.blind = blind
      /\ s.out = pins.out /\ s.prev = pins.prev /\ s.timer = pins.timer
      /\ s.setter = pins.setter
  BY <1>3, <1>4, <1>5 DEF PinStates
<1>8. /\ Freed(s, pins', p) /\ pins'.level = s.level /\ pins'.intr = s.intr
      /\ pins'.blind = s.blind
  BY <1>2, <1>7, UnlinkedFrees DEF s
<1>9. Freed(pins, pins', p)
  BY <1>6, <1>7, <1>8 DEF Freed
<1>10. pins'.intr[p] /\ p \in pins'.blind
  BY <1>6, <1>7, <1>8
<1>11. TypeOK' /\ \A x \in Pins : x # p => mode'[x] = mode[x]
  <2>1. pins' \in PinStates /\ status' \subseteq Pins /\ m \in Modes
    BY <1>1, <1>3, <1>9 DEF Freed, Modes
  <2>2. QED
    BY <1>1, <2>1, ModeTypes
<1>12. Idle
  BY <1>1, CmdTyped
<1>13. /\ Attended' /\ LevelSeen'
       /\ \A x \in Pins : Reverts(pins', x)
       /\ \A x, y \in Pins : Shows(pins, x, y)'
  BY <1>1, <1>9, <1>10, <1>11, <1>12, FreedKeeps
<1>14. QED
  BY <1>11, <1>13 DEF IInv

LEMMA ModeOutKeeps ==
  ASSUME IInv, NEW p \in Pins, ModeOut(p)
  PROVE  IInv'
<1> DEFINE level == [pins.level EXCEPT ![p] = pins.out[p]]
           intr == [pins.intr EXCEPT ![p] = FALSE]
           blind == pins.blind \ {p}
           s == [pins EXCEPT !.level = level, !.intr = intr, !.blind = blind]
           r == Unlinked(s, p)
<1>1. pins \in PinStates /\ status \subseteq Pins
  BY Parts
<1>2. /\ Cmd /\ mode' = [mode EXCEPT ![p] = "OUT"] /\ Become(r)
      /\ UNCHANGED <<link, debounce, reading, edges>>
  <2>1. s = [pins EXCEPT !.level[p] = pins.out[p], !.intr[p] = FALSE, !.blind = @ \ {p}]
    BY <1>1 DEF PinStates
  <2>2. Become(Unlinked([pins EXCEPT !.level[p] = pins.out[p], !.intr[p] = FALSE,
                                     !.blind = @ \ {p}], p))
    BY DEF ModeOut
  <2>3. QED
    BY <2>1, <2>2 DEF ModeOut
<1>3. level \in [Pins -> 0 .. 1] /\ intr \in [Pins -> BOOLEAN] /\ blind \in SUBSET Pins
  BY <1>1 DEF PinStates
<1>4. \A x \in Pins : x # p =>
         level[x] = pins.level[x] /\ intr[x] = pins.intr[x]
         /\ (x \in pins.blind => x \in blind)
  BY <1>1 DEF PinStates
<1> HIDE DEF level, intr, blind
<1>5. /\ s \in PinStates /\ s.intr = intr /\ s.level = level /\ s.blind = blind
      /\ s.out = pins.out /\ s.prev = pins.prev /\ s.timer = pins.timer
      /\ s.setter = pins.setter
  BY <1>1, <1>3 DEF PinStates
<1> HIDE DEF s
<1>6. Freed(s, r, p) /\ r.level = s.level /\ r.intr = s.intr /\ r.blind = s.blind
  BY <1>5, UnlinkedFrees
<1> HIDE DEF r
<1>7. pins' = r /\ status \subseteq status' /\ status' \subseteq Pins
  BY <1>1, <1>2, BecomeStatus
<1>8. Freed(pins, pins', p)
  BY <1>4, <1>5, <1>6, <1>7 DEF Freed
<1>9. TypeOK' /\ mode'[p] = "OUT" /\ \A x \in Pins : x # p => mode'[x] = mode[x]
  <2>1. pins' \in PinStates /\ "OUT" \in Modes
    BY <1>8 DEF Freed, Modes
  <2>2. QED
    BY <1>2, <1>7, <2>1, ModeTypes
<1>10. ~IsInput(p)'
  BY <1>9 DEF IsInput
<1>11. Idle
  BY <1>2, CmdTyped
<1>12. /\ Attended' /\ LevelSeen'
       /\ \A x \in Pins : Reverts(pins', x)
       /\ \A x, y \in Pins : Shows(pins, x, y)'
  BY <1>2, <1>7, <1>8, <1>9, <1>10, <1>11, FreedKeeps
<1>13. QED
  BY <1>9, <1>12 DEF IInv
----------------------------------------------------------------------------
LEMMA StartKeeps ==
  ASSUME IInv, Start
  PROVE  IInv'
<1>1. Boot'
  BY CountsTyped DEF Start, Boot, Counts
<1>2. QED
  BY <1>1, BootKeeps, PTL

LEMMA CrashKeeps ==
  ASSUME IInv, Crashed
  PROVE  IInv'
<1>1. Stopped'
  BY CountsTyped DEF Crashed, Stopped, Counts, Off
<1>2. QED
  BY <1>1, StoppedKeeps, PTL

LEMMA InvStep == IInv /\ [GpioNext]_gpioVars => IInv'
<1> SUFFICES ASSUME IInv, [GpioNext]_gpioVars PROVE IInv'
  OBVIOUS
<1>1. ASSUME NEW p \in Pins, Edge(p) PROVE IInv'
  BY <1>1, EdgeKeeps
<1>2. ASSUME NEW p \in Pins, DurationOver(p) PROVE IInv'
  BY <1>2, DurationOverKeeps
<1>3. ASSUME NEW p \in Pins, ModeOut(p) PROVE IInv'
  BY <1>3, ModeOutKeeps
<1>4. ASSUME NEW p \in Pins, TriggerNone(p) PROVE IInv'
  BY <1>4, TriggerKeeps
<1>5. ASSUME NEW p \in Pins, NEW m \in {"IN", "IN_PULLUP"}, ModeIn(p, m) PROVE IInv'
  BY <1>5, ModeInKeeps
<1>6. ASSUME NEW p \in Pins, NEW v \in {0, 1}, NEW while \in BOOLEAN, SetPin(p, v, while)
      PROVE  IInv'
  BY <1>6, SetPinKeeps
<1>7. ASSUME NEW l \in Links, Trigger(l[1], l[2], l[3]) PROVE IInv'
  <2>1. l[1] \in Pins
    <3>1. l \in Pins \X Pins \X (Types \ {"NONE"})
      BY GpioAssumption
    <3>2. QED
      BY <3>1
  <2>2. QED
    BY <1>7, <2>1, TriggerKeeps
<1>8. CASE gpio_change_handler
  <2>1. CASE Deferred(status)
    BY <1>8, <2>1, HandlerKeeps DEF gpio_change_handler
  <2>2. CASE Crashed
    BY <2>2, CrashKeeps
  <2>3. QED
    BY <1>8, <2>1, <2>2 DEF gpio_change_handler
<1>9. CASE TimerRead
  BY <1>9, TimerReadKeeps
<1>10. CASE TimerEnable
  BY <1>10, TimerEnableKeeps
<1>11. CASE UNCHANGED gpioVars
  BY <1>11 DEF gpioVars, IInv, TypeOK, Attended, LevelSeen, EdgeWaits, Reverts, Shows,
     IsInput, Idle
<1>12. CASE Start
  BY <1>12, StartKeeps
<1>13. QED
  BY <1>1, <1>2, <1>3, <1>4, <1>5, <1>6, <1>7, <1>8, <1>9, <1>10, <1>11, <1>12 DEF GpioNext

\* The inductive invariant, kept by power-ups and crashes, too: an input whose
\* interrupt is off is in the mask of a timer, and what a switch has set shows
\* what was last read of it.
THEOREM InvariantHolds == GpioSpec => []IInv
BY InvInit, InvStep, PTL DEF GpioSpec

\* Modes, links and pins keep their types, and a debounce timer that runs has
\* pins left to read (int_timerchange_func).
THEOREM TypeCorrect == GpioSpec => []TypeOK
<1>1. IInv => TypeOK
  BY DEF IInv
<1>2. QED
  BY <1>1, InvariantHolds, PTL

\* No edge is lost but one between the reading of a pin and the enabling of its
\* interrupt, however interrupts, timers and commands for any pins overlap.
THEOREM EdgesAreSeen == GpioSpec => []LevelSeen
<1>1. IInv => LevelSeen
  BY DEF IInv
<1>2. QED
  BY <1>1, InvariantHolds, PTL

\* A timer that runs sets its output to another value than it has, whoever has
\* set the output since (do_outputSet).
THEOREM TimersRevert == GpioSpec => []TimerReverts
<1>1. IInv => TimerReverts
  BY DEF IInv, Reverts, TimerReverts
<1>2. QED
  BY <1>1, InvariantHolds, PTL

\* An output that its switch has set shows where the switch is, as soon as the
\* edges of the switch are handled (handlePinValueChange).
THEOREM OutputShowsSwitch == GpioSpec => []SwitchShows
<1>1. ASSUME IInv, NEW p \in Pins, NEW q \in Pins, pins.setter[q] = p, ~EdgeWaits(p),
             p \notin pins.blind, link[p].type \in Bistable
      PROVE  pins.out[q] = IF link[p].type = "BISTABLE_NO" THEN pins.level[p]
                                                          ELSE Not(pins.level[p])
  <2>1. /\ IsInput(p)
        /\ link[p].type = "BISTABLE_NO" => pins.out[q] = pins.prev[p]
        /\ link[p].type = "BISTABLE_NC" => pins.out[q] = Not(pins.prev[p])
    BY <1>1, Parts DEF Shows
  <2>2. pins.prev[p] = pins.level[p]
    BY <1>1, <2>1 DEF IInv, LevelSeen
  <2>3. QED
    BY <1>1, <2>1, <2>2 DEF Bistable
<1>2. IInv => SwitchShows
  BY <1>1 DEF SwitchShows, Bistable
<1>3. QED
  BY <1>2, InvariantHolds, PTL
=============================================================================
