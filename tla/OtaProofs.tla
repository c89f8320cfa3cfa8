----------------------------- MODULE OtaProofs -----------------------------
(* Proofs about Ota.  An update writes only between the write position and  *)
(* the end of its rom, which is not the rom that boots.                     *)
EXTENDS Ota, TLAPS

InSlot(s) == {w \in Words : w >= Base(s) /\ w < Base(s) + RomWords}

Contents == [rom_slot : Slots, ok : BOOLEAN, total_len : Nat, content_len : Nat,
             ws : [addr : Nat, erased : Nat, extra : 0..(WordBytes - 1)]]

Excuses == {"switch", "overrun", "empty", "erase", "tail"}

\* The write position is in the rom of the update or behind it, and what lies
\* before it is in sectors that were erased.
Positioned(ws, s) ==
  /\ ws.addr >= Base(s)
  /\ ws.erased >= RomSector[s] - 1
  /\ SectorOf(ws.addr - 1) <= ws.erased

\* The flash that an update of a into slot s has made so far.
Written(fl, ws, s, a) ==
  /\ \A w \in Words : w >= Base(s) /\ w < ws.addr => fl[w] = <<a, w - Base(s)>>
  /\ \A w \in Words : w >= ws.addr /\ SectorOf(w) <= ws.erased => fl[w] = Erased

\* What an update that runs knows of itself.
Running ==
  upgrade > 0 =>
    /\ flag = "start"
    /\ conns[upgrade] \in {"new", "connecting", "open"}
    /\ status.rom_slot # boot
    /\ Positioned(status.ws, status.rom_slot)
    /\ "erase" \notin excuse => Written(flash, status.ws, status.rom_slot, upgrade)
    /\ status.total_len = (status.ws.addr - Base(status.rom_slot)) * WordBytes
                             + status.ws.extra

\* As long as nothing is excused, the image of the rom that boots fits it, and
\* the update that runs has not left its rom.
Intact(s) == WordsOf(done[s].len) <= RomWords /\ HoldsImage(s)
Safe ==
  excuse = {} =>
    /\ Intact(boot)
    /\ upgrade > 0 => status.ws.addr <= Base(status.rom_slot) + RomWords

IInv == TypeOK /\ Running /\ Safe

----------------------------------------------------------------------------
(* Sectors and words.                                                       *)

LEMMA Divides ==
  ASSUME NEW m \in Nat \ {0}, NEW w \in Nat
  PROVE  /\ w \div m \in Nat /\ w % m \in 0..(m - 1)
         /\ w = ((w \div m) * m) + (w % m)
OBVIOUS

LEMMA TimesNat ==
  ASSUME NEW a \in Nat, NEW b \in Nat
  PROVE  a * b \in Nat
OBVIOUS

LEMMA TimesMonotone ==
  ASSUME NEW m \in Nat, NEW a \in Nat, NEW b \in Nat, a <= b
  PROVE  a * m <= b * m
<1>1. PICK d \in Nat : b = a + d
  <2>1. b - a \in Nat /\ b = a + (b - a)
    OBVIOUS
  <2>2. QED
    BY <2>1
<1>2. b * m = a * m + d * m
  BY <1>1
<1>3. QED
  BY <1>2, TimesNat

LEMMA Distributes ==
  ASSUME NEW m \in Int, NEW a \in Int, NEW b \in Int
  PROVE  (a + b) * m = a * m + b * m /\ a * m \in Int /\ b * m \in Int
OBVIOUS

(* The quotient is the only number whose multiple leaves less than a        *)
(* divisor.                                                                 *)
LEMMA QuotientIs ==
  ASSUME NEW m \in Nat \ {0}, NEW q \in Nat, NEW r \in 0..(m - 1), NEW n \in Nat,
         n = q * m + r
  PROVE  n \div m = q
<1> DEFINE p == n \div m
           s == n % m
<1>1. p \in Nat /\ s \in 0..(m - 1) /\ n = p * m + s
  BY Divides
<1> HIDE DEF p, s
<1>2. ~(p < q)
  <2> SUFFICES ASSUME p < q PROVE FALSE
    OBVIOUS
  <2>1. (p + 1) * m <= q * m
    BY <1>1, TimesMonotone
  <2>2. (p + 1) * m = p * m + m /\ p * m \in Int /\ q * m \in Int
    BY <1>1, Distributes
  <2>3. QED
    BY <1>1, <2>1, <2>2
<1>3. ~(q < p)
  <2> SUFFICES ASSUME q < p PROVE FALSE
    OBVIOUS
  <2>1. (q + 1) * m <= p * m
    BY <1>1, TimesMonotone
  <2>2. (q + 1) * m = q * m + m /\ p * m \in Int /\ q * m \in Int
    BY <1>1, Distributes
  <2>3. QED
    BY <1>1, <2>1, <2>2
<1>4. QED
  BY <1>1, <1>2, <1>3 DEF p

(* So many words hold so many bytes, and the words that bytes fill.         *)
LEMMA WordsOfNat ==
  ASSUME NEW len \in Nat
  PROVE  WordsOf(len) \in Nat
<1>1. WordBytes \in Nat \ {0}
  BY OtaAssumption
<1>2. len + WordBytes - 1 \in Nat
  BY <1>1
<1>3. QED
  BY <1>1, <1>2, Divides DEF WordsOf

LEMMA WordsOfWhole ==
  ASSUME NEW q \in Nat
  PROVE  WordsOf(q * WordBytes) = q
<1> DEFINE m == WordBytes
           len == q * m
           n == len + m - 1
<1>1. m \in Nat \ {0}
  BY OtaAssumption
<1>2. len \in Nat
  BY <1>1, TimesNat
<1>3. n \in Nat /\ m - 1 \in 0..(m - 1) /\ n = q * m + (m - 1)
  <2>1. len = q * m
    OBVIOUS
  <2> HIDE DEF len, m
  <2>2. n \in Nat /\ m - 1 \in 0..(m - 1) /\ n = len + (m - 1)
    BY <1>1, <1>2
  <2>3. QED
    BY <2>1, <2>2
<1> HIDE DEF n, m
<1>4. n \div m = q
  BY <1>1, <1>3, QuotientIs
<1>5. QED
  BY <1>4 DEF WordsOf, n, len, m

(* A word lies in sector k or behind if it is not before its first word.    *)
LEMMA SectorAtLeast ==
  ASSUME NEW w \in Nat, NEW k \in Nat
  PROVE  /\ SectorOf(w) \in Nat
         /\ w >= k * SectorWords <=> SectorOf(w) >= k
<1> DEFINE m == SectorWords
           q == SectorOf(w)
           r == w % m
<1>1. m \in Nat \ {0}
  BY OtaAssumption
<1>2. q \in Nat /\ r \in 0..(m - 1) /\ w = q * m + r
  BY <1>1, Divides DEF SectorOf
<1> HIDE DEF m, q, r
<1>3. q * m \in Int /\ k * m \in Int
  BY <1>1, <1>2, Distributes
<1>4. ASSUME q >= k PROVE w >= k * m
  <2>1. k * m <= q * m
    BY <1>1, <1>2, <1>4, TimesMonotone
  <2>2. QED
    BY <1>2, <1>3, <2>1
<1>5. ASSUME q < k PROVE w < k * m
  <2>1. (q + 1) * m <= k * m
    BY <1>1, <1>2, <1>5, TimesMonotone
  <2>2. (q + 1) * m = q * m + m
    BY <1>1, <1>2, Distributes
  <2>3. QED
    BY <1>1, <1>2, <1>3, <2>1, <2>2
<1>6. w >= k * m <=> q >= k
  BY <1>1, <1>2, <1>3, <1>4, <1>5
<1>7. QED
  BY <1>2, <1>6 DEF m, q

LEMMA SectorMonotone ==
  ASSUME NEW v \in Nat, NEW w \in Nat, v <= w
  PROVE  SectorOf(v) <= SectorOf(w)
<1> DEFINE k == SectorOf(v)
<1>1. k \in Nat
  BY SectorAtLeast
<1>2. v >= k * SectorWords
  BY <1>1, SectorAtLeast
<1>3. k * SectorWords \in Int
  BY <1>1, OtaAssumption, Distributes
<1> HIDE DEF k
<1>4. w >= k * SectorWords
  BY <1>2, <1>3
<1>5. SectorOf(w) >= k
  BY <1>1, <1>4, SectorAtLeast
<1>6. QED
  BY <1>5 DEF k

----------------------------------------------------------------------------
(* Roms.                                                                    *)

LEMMA BaseFacts ==
  ASSUME NEW s \in Slots
  PROVE  /\ Base(s) \in Nat \ {0} /\ RomWords \in Nat /\ RomSector[s] \in Nat \ {0}
         /\ Base(s) + RomWords = (RomSector[s] + RomSectors) * SectorWords
         /\ Base(s) + RomWords <= Sectors * SectorWords
         /\ SectorOf(Base(s) - 1) <= RomSector[s] - 1
<1>1. RomSector[s] \in Nat \ {0} /\ SectorWords \in Nat \ {0} /\ RomSectors \in Nat
        /\ Sectors \in Nat /\ RomSector[s] + RomSectors <= Sectors
  BY OtaAssumption
<1>2. Base(s) = RomSector[s] * SectorWords /\ RomWords = RomSectors * SectorWords
  BY DEF Base, RomWords
<1>3. RomSector[s] * SectorWords \in Nat /\ RomSectors * SectorWords \in Nat
  BY <1>1, TimesNat
<1>4. 1 * SectorWords <= RomSector[s] * SectorWords
  <2> DEFINE first == RomSector[s]
  <2>1. 1 \in Nat /\ first \in Nat /\ 1 <= first /\ SectorWords \in Nat
    BY <1>1
  <2> HIDE DEF first
  <2>2. 1 * SectorWords <= first * SectorWords
    BY <2>1, TimesMonotone
  <2>3. QED
    BY <2>2 DEF first
<1>5. (RomSector[s] + RomSectors) * SectorWords
        = RomSector[s] * SectorWords + RomSectors * SectorWords
  BY <1>1, Distributes
<1>6. (RomSector[s] + RomSectors) * SectorWords <= Sectors * SectorWords
  BY <1>1, TimesMonotone
<1>7. Base(s) \in Nat \ {0}
  BY <1>1, <1>2, <1>3, <1>4
<1>8. SectorOf(Base(s) - 1) <= RomSector[s] - 1
  <2>1. Base(s) - 1 \in Nat /\ ~(Base(s) - 1 >= RomSector[s] * SectorWords)
    BY <1>2, <1>7
  <2>2. SectorOf(Base(s) - 1) \in Nat /\ ~(SectorOf(Base(s) - 1) >= RomSector[s])
    BY <1>1, <2>1, SectorAtLeast
  <2>3. QED
    BY <1>1, <2>2
<1>9. QED
  BY <1>1, <1>2, <1>3, <1>5, <1>6, <1>7, <1>8

(* A word is in a rom if its sector is.                                     *)
LEMMA InRomSectors ==
  ASSUME NEW s \in Slots, NEW w \in Nat
  PROVE  /\ w >= Base(s) <=> SectorOf(w) >= RomSector[s]
         /\ w < Base(s) + RomWords <=> SectorOf(w) < RomSector[s] + RomSectors
<1>1. RomSector[s] \in Nat /\ RomSectors \in Nat /\ RomSector[s] + RomSectors \in Nat
  BY OtaAssumption
<1>2. Base(s) \in Nat /\ RomWords \in Nat
        /\ Base(s) + RomWords = (RomSector[s] + RomSectors) * SectorWords
  BY BaseFacts
<1>3. SectorOf(w) \in Nat
  BY <1>1, SectorAtLeast
<1>4. w >= Base(s) <=> SectorOf(w) >= RomSector[s]
  BY <1>1, SectorAtLeast DEF Base
<1>5. w >= Base(s) + RomWords <=> SectorOf(w) >= RomSector[s] + RomSectors
  BY <1>1, <1>2, SectorAtLeast
<1>6. QED
  BY <1>1, <1>2, <1>3, <1>4, <1>5

(* A word of one rom is in no sector of the other.                          *)
LEMMA RomsApart ==
  ASSUME NEW s \in Slots, NEW t \in Slots, s # t, NEW w \in Nat,
         w >= Base(t), w < Base(t) + RomWords
  PROVE  SectorOf(w) < RomSector[s] \/ SectorOf(w) >= RomSector[s] + RomSectors
<1>1. SectorOf(w) >= RomSector[t] /\ SectorOf(w) < RomSector[t] + RomSectors
  BY InRomSectors
<1>2. SectorOf(w) \in Nat
  BY SectorAtLeast
<1>3. RomSector[s] \in Nat /\ RomSector[t] \in Nat /\ RomSectors \in Nat
  BY OtaAssumption
<1>4. RomSector[s] # RomSector[t]
  BY OtaAssumption DEF Slots
<1>5. CASE RomSector[s] < RomSector[t]
  <2>1. RomSector[s] + RomSectors <= RomSector[t]
    BY <1>5, OtaAssumption
  <2>2. QED
    BY <1>1, <1>2, <1>3, <2>1
<1>6. CASE RomSector[t] < RomSector[s]
  <2>1. RomSector[t] + RomSectors <= RomSector[s]
    BY <1>6, OtaAssumption
  <2>2. QED
    BY <1>1, <1>2, <1>3, <2>1
<1>7. QED
  BY <1>3, <1>4, <1>5, <1>6

----------------------------------------------------------------------------
(* rboot_write_flash.                                                       *)

WriteStatus == [addr : Nat, erased : Nat, extra : 0..(WordBytes - 1)]

(* The bytes of a call and those left over make whole words and a rest.     *)
LEMMA WholeAndRest ==
  ASSUME NEW ws \in WriteStatus, NEW n \in Nat
  PROVE  /\ Whole(ws, n) \in Nat /\ Rest(ws, n) \in 0..(WordBytes - 1)
         /\ n + ws.extra = Whole(ws, n) * WordBytes + Rest(ws, n)
         /\ Whole(ws, n) * WordBytes \in Nat
<1>1. WordBytes \in Nat \ {0}
  BY OtaAssumption
<1>2. ws.extra \in Nat
  BY <1>1 DEF WriteStatus
<1>3. n + ws.extra \in Nat
  BY <1>2
<1>4. /\ (n + ws.extra) \div WordBytes \in Nat
      /\ (n + ws.extra) % WordBytes \in 0..(WordBytes - 1)
      /\ n + ws.extra = (((n + ws.extra) \div WordBytes) * WordBytes)
                           + ((n + ws.extra) % WordBytes)
  BY <1>1, <1>3, Divides
<1>5. Whole(ws, n) * WordBytes \in Nat
  BY <1>1, <1>4, TimesNat DEF Whole
<1>6. QED
  BY <1>4, <1>5 DEF Whole, Rest

\* What a call does to the flash.
ErasedOnly(fl, ws, n, f) ==
  \E s \in RomSector[status.rom_slot]..LastSector(ws, n) : f = EraseTo(fl, ws, s)
Programmed(fl, ws, n, a, f) ==
  \E i \in 0..Whole(ws, n) : f = Program(EraseTo(fl, ws, LastSector(ws, n)), ws, i, a)
Misprogrammed(fl, ws, n, a, f) ==
  \E good : f = Program(EraseOnly(fl, good), ws, Whole(ws, n), a)
After(ws, n) ==
  [addr |-> ws.addr + Whole(ws, n), erased |-> MaxOf(ws.erased, LastSector(ws, n)),
   extra |-> Rest(ws, n)]

(* What a call can come to.                                                 *)
LEMMA WriteOutcomes ==
  ASSUME NEW fl, NEW ws, NEW n \in Nat, NEW a, NEW o \in WriteFlash(fl, ws, n, a)
  PROVE  \/ o.res \in {"ok", "fail"} /\ o.flash = fl /\ (o.res = "ok" => n = 0 /\ o.ws = ws)
         \/ o.res = "fail" /\ o.flash = EraseTo(fl, ws, LastSector(ws, n))
         \/ /\ o.res = "ok" /\ n # 0 /\ o.ws = After(ws, n)
            /\ o.flash = Program(EraseTo(fl, ws, LastSector(ws, n)), ws, Whole(ws, n), a)
         \/ o.res = "cut" /\ ErasedOnly(fl, ws, n, o.flash)
         \/ o.res = "cut" /\ Programmed(fl, ws, n, a, o.flash)
         \/ /\ o.res = "ok" /\ n # 0 /\ o.ws = After(ws, n) /\ "erase" \in o.fault
            /\ Misprogrammed(fl, ws, n, a, o.flash)
<1> DEFINE last  == LastSector(ws, n)
           clean == EraseTo(fl, ws, last)
           next  == [addr |-> ws.addr, erased |-> MaxOf(ws.erased, last),
                     extra |-> Rest(ws, n)]
<1>1. CASE n = 0
  BY <1>1 DEF WriteFlash
<1>2. CASE n # 0
  <2>1. [next EXCEPT !.addr = ws.addr + Whole(ws, n)] = After(ws, n)
    BY DEF After
  <2>2. \/ o = [res |-> "fail", flash |-> fl, ws |-> ws, fault |-> {}]
        \/ o = [res |-> "fail", flash |-> clean, ws |-> next, fault |-> {}]
        \/ o = [res |-> "ok", flash |-> Program(clean, ws, Whole(ws, n), a),
                ws |-> [next EXCEPT !.addr = ws.addr + Whole(ws, n)], fault |-> {}]
        \/ \E s \in RomSector[status.rom_slot]..last :
             o = [res |-> "cut", flash |-> EraseTo(fl, ws, s), ws |-> ws, fault |-> {}]
        \/ \E i \in 0..Whole(ws, n) :
             o = [res |-> "cut", flash |-> Program(clean, ws, i, a), ws |-> ws, fault |-> {}]
        \/ \E good \in SUBSET ToErase(ws, last) :
             o = [res |-> "ok", ws |-> [next EXCEPT !.addr = ws.addr + Whole(ws, n)],
                  fault |-> {"erase"},
                  flash |-> Program(EraseOnly(fl, good), ws, Whole(ws, n), a)]
    BY <1>2 DEF WriteFlash
  <2> HIDE DEF next, clean, last
  <2>3. \/ o.res = "fail" /\ o.flash = fl
        \/ o.res = "fail" /\ o.flash = clean
        \/ /\ o.res = "ok" /\ o.ws = After(ws, n)
           /\ o.flash = Program(clean, ws, Whole(ws, n), a)
        \/ o.res = "cut" /\ \E s \in RomSector[status.rom_slot]..last :
                               o.flash = EraseTo(fl, ws, s)
        \/ o.res = "cut" /\ \E i \in 0..Whole(ws, n) : o.flash = Program(clean, ws, i, a)
        \/ /\ o.res = "ok" /\ o.ws = After(ws, n) /\ "erase" \in o.fault
           /\ \E good : o.flash = Program(EraseOnly(fl, good), ws, Whole(ws, n), a)
    BY <2>1, <2>2
  <2>4. QED
    BY <1>2, <2>3 DEF clean, last, ErasedOnly, Programmed, Misprogrammed
<1>3. QED
  BY <1>1, <1>2

(* The fault of a call that is not noticed.                                 *)
LEMMA WriteFaults ==
  ASSUME NEW fl, NEW ws, NEW n \in Nat, NEW a, NEW o \in WriteFlash(fl, ws, n, a)
  PROVE  o.fault \subseteq {"erase"} /\ o.res \in {"ok", "fail", "cut"}
<1>1. (o.fault = {} \/ o.fault = {"erase"}) /\ o.res \in {"ok", "fail", "cut"}
  <2>1. CASE n = 0
    BY <2>1 DEF WriteFlash
  <2>2. CASE n # 0
    BY <2>2 DEF WriteFlash
  <2>3. QED
    BY <2>1, <2>2
<1>2. QED
  BY <1>1

(* A cell of the flash after an erase, or after an erase and writing.       *)
LEMMA EraseCell ==
  ASSUME NEW fl, NEW ws, NEW last, NEW w \in Words
  PROVE  EraseTo(fl, ws, last)[w] =
           IF SectorOf(w) > ws.erased /\ SectorOf(w) <= last THEN Erased ELSE fl[w]
BY DEF EraseTo

LEMMA ProgramCell ==
  ASSUME NEW fl, NEW ws, NEW i, NEW a, NEW w \in Words
  PROVE  Program(fl, ws, i, a)[w] =
           IF w < ws.addr \/ w >= ws.addr + i THEN fl[w]
           ELSE IF fl[w] = Erased THEN <<a, w - Base(status.rom_slot)>> ELSE Garbled
BY DEF Program

LEMMA WordsNat == Words \subseteq Nat /\ Words \subseteq Int
BY OtaAssumption DEF Words

(* Where the last word of a call lies.                                      *)
LEMMA LastFacts ==
  ASSUME NEW s \in Slots, NEW ws \in WriteStatus, Positioned(ws, s), NEW n \in Nat
  PROVE  /\ LastSector(ws, n) \in Nat
         /\ SectorOf(ws.addr - 1) <= LastSector(ws, n)
         /\ \A w \in Nat : w < ws.addr + Whole(ws, n) => SectorOf(w) <= LastSector(ws, n)
<1> DEFINE k == Whole(ws, n)
           v == ws.addr + k - 1
<1>1. k \in Nat
  BY WholeAndRest
<1>2. ws.addr \in Nat /\ ws.addr >= 1
  BY BaseFacts DEF WriteStatus, Positioned
<1>3. v \in Nat /\ ws.addr - 1 \in Nat /\ ws.addr - 1 <= v
  BY <1>1, <1>2
<1>4. LastSector(ws, n) = SectorOf(v)
  BY DEF LastSector
<1>5. \A w \in Nat : w < ws.addr + k => w <= v
  BY <1>1, <1>2
<1> HIDE DEF v
<1>6. \A w \in Nat : w <= v => SectorOf(w) <= SectorOf(v)
  BY <1>3, SectorMonotone
<1>7. SectorOf(v) \in Nat
  BY <1>3, SectorAtLeast
<1>8. QED
  BY <1>3, <1>4, <1>5, <1>6, <1>7

(* A call changes nothing before the sectors that the update has erased, and  *)
(* nothing behind the last sector of what it writes.                        *)
LEMMA WriteStays ==
  ASSUME NEW s \in Slots, status.rom_slot = s,
         NEW fl, NEW ws \in WriteStatus, Positioned(ws, s), NEW n \in Nat, NEW a,
         NEW o \in WriteFlash(fl, ws, n, a), "erase" \notin o.fault,
         NEW w \in Words, o.flash[w] # fl[w]
  PROVE  SectorOf(w) >= RomSector[s] /\ SectorOf(w) <= LastSector(ws, n)
<1> DEFINE last == LastSector(ws, n)
           clean == EraseTo(fl, ws, last)
           k == Whole(ws, n)
<1>1. last \in Nat /\ k \in Nat /\ ws.addr \in Nat /\ ws.erased \in Nat
  BY LastFacts, WholeAndRest DEF WriteStatus
<1>2. w \in Nat /\ SectorOf(w) \in Nat
  BY WordsNat, SectorAtLeast
<1>3. RomSector[s] \in Nat /\ ws.erased >= RomSector[s] - 1
  BY OtaAssumption DEF Positioned
<1>4. ASSUME NEW x \in RomSector[s]..last, EraseTo(fl, ws, x)[w] # fl[w]
      PROVE  SectorOf(w) >= RomSector[s] /\ SectorOf(w) <= last
  <2>1. SectorOf(w) > ws.erased /\ SectorOf(w) <= x
    BY <1>4, EraseCell
  <2>2. QED
    BY <1>1, <1>2, <1>3, <2>1
<1>5. ASSUME clean[w] # fl[w]
      PROVE  SectorOf(w) >= RomSector[s] /\ SectorOf(w) <= last
  <2>1. SectorOf(w) > ws.erased /\ SectorOf(w) <= last
    BY <1>5, EraseCell
  <2>2. QED
    BY <1>1, <1>2, <1>3, <2>1
<1>6. ASSUME NEW i \in 0..k, Program(clean, ws, i, a)[w] # fl[w]
      PROVE  SectorOf(w) >= RomSector[s] /\ SectorOf(w) <= last
  <2>1. CASE w < ws.addr \/ w >= ws.addr + i
    <3>1. Program(clean, ws, i, a)[w] = clean[w]
      BY <2>1, ProgramCell
    <3>2. QED
      BY <1>5, <1>6, <3>1
  <2>2. CASE w >= ws.addr /\ w < ws.addr + i
    <3>1. w >= Base(s) /\ w < ws.addr + k
      BY <1>1, <1>2, <2>2, BaseFacts DEF Positioned
    <3>2. SectorOf(w) >= RomSector[s]
      BY <1>2, <3>1, InRomSectors
    <3>3. SectorOf(w) <= last
      BY <1>2, <3>1, LastFacts
    <3>4. QED
      BY <3>2, <3>3
  <2>3. QED
    BY <1>1, <1>2, <2>1, <2>2
<1>7. k \in 0..k
  BY <1>1
<1> HIDE DEF last, clean, k
<1>8. \/ o.flash = fl \/ o.flash = clean
      \/ o.flash = Program(clean, ws, k, a)
      \/ \E x \in RomSector[s]..last : o.flash = EraseTo(fl, ws, x)
      \/ \E i \in 0..k : o.flash = Program(clean, ws, i, a)
  BY WriteOutcomes DEF ErasedOnly, Programmed, last, clean, k
<1>9. QED
  BY <1>4, <1>5, <1>6, <1>7, <1>8 DEF last

(* What a call leaves is flash.                                             *)
LEMMA WriteTyped ==
  ASSUME NEW s \in Slots, status.rom_slot = s,
         NEW fl \in [Words -> Cells], NEW ws \in WriteStatus, Positioned(ws, s),
         NEW n \in Nat, NEW a \in Attempts,
         NEW o \in WriteFlash(fl, ws, n, a)
  PROVE  o.flash \in [Words -> Cells]
<1>1. \A last : EraseTo(fl, ws, last) \in [Words -> Cells]
  BY DEF EraseTo, Cells
<1>only. \A good : EraseOnly(fl, good) \in [Words -> Cells]
  BY DEF EraseOnly, Cells
<1>2. ASSUME NEW f \in [Words -> Cells], NEW i \in Nat
      PROVE  Program(f, ws, i, a) \in [Words -> Cells]
  <2>1. Program(f, ws, i, a)
          = [w \in Words |-> IF w < ws.addr \/ w >= ws.addr + i THEN f[w]
                             ELSE IF f[w] = Erased THEN <<a, w - Base(s)>> ELSE Garbled]
    BY DEF Program
  <2>2. ASSUME NEW w \in Words, ~(w < ws.addr \/ w >= ws.addr + i)
        PROVE  <<a, w - Base(s)>> \in Cells
    <3>1. w \in Nat /\ ws.addr \in Nat /\ ws.addr >= Base(s) /\ Base(s) \in Nat
      BY WordsNat, BaseFacts DEF WriteStatus, Positioned
    <3>2. w - Base(s) \in Nat
      BY <2>2, <3>1
    <3>3. QED
      BY <3>2 DEF Cells
  <2>3. Garbled \in Cells
    BY DEF Cells
  <2>4. QED
    BY <2>1, <2>2, <2>3
<1>3. Whole(ws, n) \in Nat /\ 0..Whole(ws, n) \subseteq Nat
  BY WholeAndRest
<1> DEFINE Flashes == [Words -> Cells]
           clean == EraseTo(fl, ws, LastSector(ws, n))
           k == Whole(ws, n)
<1>4. \A i \in 0..k : Program(clean, ws, i, a) \in Flashes
  BY <1>1, <1>2, <1>3
<1>5. clean \in Flashes /\ fl \in Flashes /\ k \in 0..k
  BY <1>1, <1>3
<1>6. \A last : EraseTo(fl, ws, last) \in Flashes
  BY <1>1
<1>mis. \A good : Program(EraseOnly(fl, good), ws, k, a) \in Flashes
  BY <1>only, <1>2, <1>3
<1> HIDE DEF Flashes, clean, k
<1>7. \/ o.flash = fl \/ o.flash = clean
      \/ o.flash = Program(clean, ws, k, a)
      \/ \E x : o.flash = EraseTo(fl, ws, x)
      \/ \E i \in 0..k : o.flash = Program(clean, ws, i, a)
      \/ \E good : o.flash = Program(EraseOnly(fl, good), ws, k, a)
  BY WriteOutcomes DEF ErasedOnly, Programmed, Misprogrammed, clean, k
<1>8. o.flash \in Flashes
  BY <1>4, <1>5, <1>6, <1>7, <1>mis
<1>9. QED
  BY <1>8 DEF Flashes

(* A call that succeeds continues the image: its words lie behind those of  *)
(* the calls before it, on erased flash.                                    *)
LEMMA WriteContinues ==
  ASSUME NEW s \in Slots, status.rom_slot = s,
         NEW fl, NEW ws \in WriteStatus, Positioned(ws, s), NEW n \in Nat, NEW a,
         NEW o \in WriteFlash(fl, ws, n, a), o.res = "ok"
  PROVE  /\ o.ws \in WriteStatus /\ Positioned(o.ws, s)
         /\ Written(fl, ws, s, a) /\ "erase" \notin o.fault => Written(o.flash, o.ws, s, a)
         /\ (o.ws.addr - Base(s)) * WordBytes + o.ws.extra
              = (ws.addr - Base(s)) * WordBytes + ws.extra + n
         /\ o.ws.addr <= ws.addr + Whole(ws, n)
<1> DEFINE last == LastSector(ws, n)
           clean == EraseTo(fl, ws, last)
           k == Whole(ws, n)
           b == Base(s)
<1>1. /\ last \in Nat /\ k \in Nat /\ ws.addr \in Nat /\ ws.erased \in Nat
      /\ ws.extra \in 0..(WordBytes - 1) /\ WordBytes \in Nat \ {0}
  BY LastFacts, WholeAndRest, OtaAssumption DEF WriteStatus
<1>2. b \in Nat \ {0} /\ ws.addr >= b
  BY BaseFacts DEF Positioned
<1>3. CASE n = 0 /\ o.ws = ws /\ o.flash = fl
  <2>1. (ws.addr - b) * WordBytes \in Int /\ ws.extra \in Int
    BY <1>1, <1>2, Distributes
  <2>2. ws.addr <= ws.addr + k
    BY <1>1
  <2>3. QED
    BY <1>3, <2>1, <2>2
<1>4. CASE /\ o.ws = After(ws, n)
           /\ "erase" \notin o.fault => o.flash = Program(clean, ws, k, a)
  <2> DEFINE addr == ws.addr + k
             erased == MaxOf(ws.erased, last)
             extra == Rest(ws, n)
  <2>1. o.ws.addr = addr /\ o.ws.erased = erased /\ o.ws.extra = extra
    BY <1>4 DEF After
  <2>2. erased \in Nat /\ erased >= ws.erased /\ erased >= last
          /\ (erased = ws.erased \/ erased = last)
    BY <1>1 DEF MaxOf
  <2>3. extra \in 0..(WordBytes - 1)
    BY WholeAndRest
  <2>4. o.ws \in WriteStatus
    BY <1>1, <1>4, <2>2, <2>3 DEF WriteStatus, After
  <2>5. Positioned(o.ws, s)
    <3>1. addr - 1 \in Nat /\ addr - 1 < addr /\ addr >= b
      BY <1>1, <1>2
    <3>2. SectorOf(addr - 1) <= last /\ SectorOf(addr - 1) \in Nat
      BY <3>1, LastFacts, SectorAtLeast
    <3>3. ws.erased >= RomSector[s] - 1 /\ RomSector[s] \in Nat
      BY OtaAssumption DEF Positioned
    <3>4. QED
      BY <1>1, <2>1, <2>2, <3>1, <3>2, <3>3 DEF Positioned
  <2> DEFINE Cell(w) == IF w < ws.addr \/ w >= ws.addr + k THEN clean[w]
                        ELSE IF clean[w] = Erased THEN <<a, w - b>> ELSE Garbled
             Ordered == Written(fl, ws, s, a) /\ "erase" \notin o.fault
  <2>cell. ASSUME Ordered, NEW w \in Words PROVE o.flash[w] = Cell(w)
    <3>1. Program(clean, ws, k, a)[w] = Cell(w)
      <4> HIDE DEF clean, k
      <4>1. QED
        BY ProgramCell
    <3> HIDE DEF Cell
    <3>2. QED
      BY <1>4, <2>cell, <3>1
  <2>clean. \A w \in Words : clean[w] = IF SectorOf(w) > ws.erased /\ SectorOf(w) <= last
                                     THEN Erased ELSE fl[w]
    <3> HIDE DEF last
    <3>1. QED
      BY EraseCell
  <2> HIDE DEF clean
  <2>6. ASSUME Ordered, NEW w \in Words, w >= b, w < addr PROVE o.flash[w] = <<a, w - b>>
    <3>1. w \in Nat /\ SectorOf(w) \in Nat
      BY WordsNat, SectorAtLeast
    <3>2. CASE w < ws.addr
      <4>1. w <= ws.addr - 1 /\ ws.addr - 1 \in Nat
        BY <1>1, <3>1, <3>2
      <4>2. SectorOf(w) <= SectorOf(ws.addr - 1) /\ SectorOf(ws.addr - 1) \in Nat
        BY <3>1, <4>1, SectorMonotone, SectorAtLeast
      <4>3. ~(SectorOf(w) > ws.erased)
        BY <1>1, <3>1, <4>2 DEF Positioned
      <4>4. o.flash[w] = clean[w]
        BY <2>cell, <2>6, <3>2
      <4>5. clean[w] = fl[w]
        BY <2>clean, <4>3
      <4>6. QED
        BY <2>6, <3>2, <4>4, <4>5 DEF Written
    <3>3. CASE ~(w < ws.addr)
      <4>1. SectorOf(w) <= last
        BY <2>6, <3>1, LastFacts
      <4>2. clean[w] = Erased
        <5>1. CASE SectorOf(w) > ws.erased
          BY <2>clean, <4>1, <5>1
        <5>2. CASE ~(SectorOf(w) > ws.erased)
          <6>1. w >= ws.addr /\ SectorOf(w) <= ws.erased
            BY <1>1, <3>1, <3>3, <5>2
          <6>2. fl[w] = Erased
            BY <2>6, <6>1 DEF Written
          <6>3. QED
            BY <2>clean, <6>2, <5>2
        <5>3. QED
          BY <5>1, <5>2
      <4>3. ~(w >= ws.addr + k)
        BY <1>1, <2>6, <3>1
      <4>4. QED
        BY <2>cell, <2>6, <3>3, <4>2, <4>3
    <3>4. QED
      BY <3>2, <3>3
  <2>7. ASSUME Ordered, NEW w \in Words, w >= addr, SectorOf(w) <= erased
        PROVE  o.flash[w] = Erased
    <3>1. w \in Nat /\ SectorOf(w) \in Nat
      BY WordsNat, SectorAtLeast
    <3>2. w >= ws.addr + k /\ w >= ws.addr
      BY <1>1, <2>7, <3>1
    <3>3. o.flash[w] = clean[w]
      BY <2>cell, <2>7, <3>2
    <3>4. CASE SectorOf(w) <= ws.erased
      <4>1. fl[w] = Erased
        BY <2>7, <3>2, <3>4 DEF Written
      <4>2. ~(SectorOf(w) > ws.erased)
        BY <1>1, <3>1, <3>4
      <4>3. QED
        BY <2>clean, <3>3, <4>1, <4>2
    <3>5. CASE SectorOf(w) > ws.erased
      <4>1. SectorOf(w) <= last
        BY <1>1, <2>2, <2>7, <3>1, <3>5
      <4>2. QED
        BY <2>clean, <3>3, <3>5, <4>1
    <3>6. QED
      BY <1>1, <3>1, <3>4, <3>5
  <2>8. Ordered => Written(o.flash, o.ws, s, a)
    BY <2>1, <2>6, <2>7 DEF Written
  <2>9. (addr - b) * WordBytes + extra = (ws.addr - b) * WordBytes + ws.extra + n
    <3>1. n + ws.extra = k * WordBytes + extra /\ k * WordBytes \in Nat
      BY WholeAndRest
    <3>2. ws.addr - b \in Int /\ addr - b = (ws.addr - b) + k
      BY <1>1, <1>2
    <3>3. ((ws.addr - b) + k) * WordBytes = (ws.addr - b) * WordBytes + k * WordBytes
            /\ (ws.addr - b) * WordBytes \in Int
      BY <1>1, <3>2, Distributes
    <3>4. extra \in Int /\ ws.extra \in Int /\ n \in Int
      BY <1>1, <2>3
    <3>5. (addr - b) * WordBytes = (ws.addr - b) * WordBytes + k * WordBytes
      BY <3>2, <3>3
    <3> HIDE DEF extra, k, addr, b
    <3>6. QED
      BY <3>1, <3>3, <3>4, <3>5
  <2>10. addr <= ws.addr + k
    BY <1>1
  <2>11. QED
    BY <2>1, <2>4, <2>5, <2>8, <2>9, <2>10
<1>5. \/ n = 0 /\ o.ws = ws /\ o.flash = fl
      \/ /\ o.ws = After(ws, n)
         /\ "erase" \notin o.fault => o.flash = Program(clean, ws, k, a)
  BY WriteOutcomes
<1>6. QED
  BY <1>3, <1>4, <1>5

----------------------------------------------------------------------------
(* Types.                                                                   *)

ConnStates == {"none", "new", "connecting", "open", "closing", "late", "gone"}
Images == [Slots -> [att : Attempts \cup {0}, len : Nat]]

LEMMA NewStatusTyped ==
  ASSUME NEW s \in Slots
  PROVE  NewStatus(s) \in Contents
<1>1. RomSector[s] - 1 \in Nat /\ Base(s) \in Nat /\ 0 \in 0..(WordBytes - 1)
  BY OtaAssumption, BaseFacts
<1>2. WriteInit(s) \in WriteStatus
  BY <1>1 DEF WriteInit, WriteStatus
<1>3. QED
  BY <1>2 DEF NewStatus, Contents, WriteStatus

LEMMA TypeParts ==
  TypeOK <=> /\ flash \in [Words -> Cells] /\ boot \in Slots
             /\ upgrade \in Attempts \cup {NoUpgrade, Freed}
             /\ status \in Contents
             /\ flag \in {"idle", "start"} /\ timer \in {"off", "connect", "deinit"}
             /\ conns \in [Attempts -> ConnStates] /\ dns \subseteq Attempts
             /\ done \in Images /\ excuse \subseteq Excuses
BY DEF TypeOK, Contents, ConnStates, Images, Excuses

(* A number above zero is an attempt's.                                     *)
LEMMA UpgradeIsAttempt ==
  ASSUME TypeOK
  PROVE  /\ upgrade > 0 <=> upgrade \in Attempts
         /\ upgrade \in Int
<1>1. upgrade \in Attempts \/ upgrade = 0 \/ upgrade = -1
  BY TypeParts DEF NoUpgrade, Freed
<1>2. MaxStarts \in Nat /\ Attempts = 1..MaxStarts
  BY OtaAssumption DEF Attempts
<1>3. QED
  BY <1>1, <1>2

LEMMA RebootTyped ==
  ASSUME TypeOK, NEW cfg \in Slots \cup {Blank}, Reboot(cfg),
         flash' \in [Words -> Cells], done' \in Images,
         excuse' \subseteq Excuses
  PROVE  TypeOK' /\ upgrade' = NoUpgrade
<1>1. boot' \in Slots
  BY DEF Reboot, Slots, Blank
<1>2. NewStatus(0) \in Contents
  BY NewStatusTyped DEF Slots
<1>3. conns' \in [Attempts -> ConnStates]
  BY DEF Reboot, ConnStates
<1>4. /\ upgrade' = NoUpgrade /\ status' = NewStatus(0)
      /\ flag' = "idle" /\ timer' = "off" /\ dns' = {}
  BY DEF Reboot
<1>5. QED
  BY <1>1, <1>2, <1>3, <1>4 DEF TypeOK, Contents, ConnStates, Images, Excuses

LEMMA DeinitTyped ==
  ASSUME TypeOK, upgrade > 0, Deinit, flash' \in [Words -> Cells],
         excuse' \subseteq Excuses
  PROVE  TypeOK' /\ upgrade' = NoUpgrade
<1>1. conns \in [Attempts -> ConnStates]
  BY TypeParts
<1>2. \A c \in ConnStates : Ended(c) \in ConnStates
  BY DEF Ended, ConnStates
<1>3. conns' = [conns EXCEPT ![upgrade] = Ended(conns[upgrade])]
  BY DEF Deinit
<1>4. conns' \in [Attempts -> ConnStates]
  BY <1>1, <1>2, <1>3, UpgradeIsAttempt
<1>5. NewStatus(0) \in Contents
  BY NewStatusTyped DEF Slots
<1>6. /\ timer' = "off" /\ flag' = "idle" /\ upgrade' = NoUpgrade
      /\ status' = NewStatus(0) /\ UNCHANGED <<boot, dns, done>>
  BY DEF Deinit
<1>7. QED
  BY <1>4, <1>5, <1>6 DEF TypeOK, Contents, ConnStates, Images, Excuses

LEMMA DropOwnTyped ==
  ASSUME TypeOK, upgrade > 0, NEW cs \in [Attempts -> ConnStates], DropOwn(cs),
         dns' \subseteq Attempts
  PROVE  TypeOK' /\ upgrade' = NoUpgrade /\ UNCHANGED <<flash, boot, done, excuse>>
<1>1. conns' = [cs EXCEPT ![upgrade] =
                  IF cs[upgrade] \in {"connecting", "open"} THEN "late" ELSE "gone"]
  BY DEF DropOwn
<1>2. conns' \in [Attempts -> ConnStates]
  BY <1>1, UpgradeIsAttempt DEF ConnStates
<1>3. NewStatus(0) \in Contents
  BY NewStatusTyped DEF Slots
<1>4. /\ timer' = "off" /\ flag' = "idle" /\ upgrade' = NoUpgrade
      /\ status' = NewStatus(0) /\ UNCHANGED <<flash, boot, done, excuse>>
  BY DEF DropOwn
<1>5. QED
  BY <1>2, <1>3, <1>4 DEF TypeOK, Contents, ConnStates, Images

----------------------------------------------------------------------------
(* The ways an update ends, or goes on, without a write.                    *)

(* Whatever ends an update, what it wrote stays, and the rom that boots.    *)
LEMMA EndKeeps ==
  ASSUME IInv, TypeOK', upgrade' \in {NoUpgrade, Freed},
         UNCHANGED <<flash, boot, done>>, excuse \subseteq excuse'
  PROVE  IInv'
<1>1. ~(upgrade' > 0)
  BY DEF NoUpgrade, Freed
<1>2. Running'
  BY <1>1 DEF Running
<1>3. Safe'
  BY <1>1 DEF IInv, Safe, Intact, HoldsImage
<1>4. QED
  BY <1>2, <1>3 DEF IInv

(* A callback that only moves the connection or the timer.                  *)
LEMMA GoOnKeeps ==
  ASSUME IInv, TypeOK', UNCHANGED <<flash, boot, upgrade, flag, done, excuse>>,
         status'.rom_slot = status.rom_slot, status'.ws = status.ws,
         status'.total_len = status.total_len,
         upgrade > 0 => conns'[upgrade] \in {"new", "connecting", "open"}
  PROVE  IInv'
<1>1. Running'
  BY DEF IInv, Running, Written, Positioned
<1>2. Safe'
  BY DEF IInv, Safe, Intact, HoldsImage
<1>3. QED
  BY <1>1, <1>2 DEF IInv

(* Power lost between callbacks, or an exception.                           *)
LEMMA RebootKeeps ==
  ASSUME IInv, Reboot(boot), UNCHANGED <<flash, done, excuse>>
  PROVE  IInv'
<1>1. TypeOK /\ boot \in Slots
  BY DEF IInv, TypeOK
<1>2. boot' = boot
  BY <1>1 DEF Reboot, Slots, Blank
<1>3. TypeOK' /\ upgrade' = NoUpgrade
  BY <1>1, RebootTyped, TypeParts
<1>4. QED
  BY <1>2, <1>3, EndKeeps

LEMMA DeinitKeeps ==
  ASSUME IInv, upgrade > 0, Deinit, UNCHANGED <<flash, excuse>>
  PROVE  IInv'
<1>1. TypeOK' /\ upgrade' = NoUpgrade
  BY DeinitTyped, TypeParts DEF IInv
<1>2. UNCHANGED <<boot, done>>
  BY DEF Deinit
<1>3. QED
  BY <1>1, <1>2, EndKeeps

LEMMA DropOwnKeeps ==
  ASSUME IInv, upgrade > 0, NEW cs \in [Attempts -> ConnStates], DropOwn(cs),
         dns' \subseteq Attempts
  PROVE  IInv'
<1>1. TypeOK' /\ upgrade' = NoUpgrade /\ UNCHANGED <<flash, boot, done, excuse>>
  BY DropOwnTyped DEF IInv
<1>2. QED
  BY <1>1, EndKeeps

----------------------------------------------------------------------------
(* The callbacks and commands, one by one.                                  *)

LEMMA StartKeeps ==
  ASSUME IInv, NEW a \in Attempts, Start(a)
  PROVE  IInv'
<1>1. TypeOK /\ boot \in Slots /\ OtherRom \in Slots /\ OtherRom # boot
  BY DEF IInv, TypeOK, OtherRom, Slots
<1>2. UNCHANGED <<flash, boot, done, excuse>> /\ flag' = "start"
  BY DEF Start
<1>3. NewStatus(OtherRom) \in Contents
  BY <1>1, NewStatusTyped
<1>4. CASE /\ upgrade' = a /\ status' = NewStatus(OtherRom)
           /\ \/ /\ conns' = [conns EXCEPT ![a] = "connecting"]
                 /\ timer' = "connect" /\ dns' = dns
              \/ /\ conns' = [conns EXCEPT ![a] = "new"]
                 /\ dns' = dns \cup {a} /\ timer' = timer
  <2> DEFINE s == OtherRom
  <2>1. conns' \in [Attempts -> ConnStates] /\ conns'[a] \in {"new", "connecting"}
    BY <1>1, <1>4 DEF TypeOK, ConnStates
  <2>2. dns' \subseteq Attempts /\ timer' \in {"off", "connect", "deinit"}
    BY <1>1, <1>4 DEF TypeOK
  <2>3. TypeOK'
    BY <1>1, <1>2, <1>3, <1>4, <2>1, <2>2 DEF TypeOK, Contents, ConnStates
  <2>4. /\ status'.rom_slot = s /\ status'.total_len = 0 /\ status'.ws.addr = Base(s)
        /\ status'.ws.erased = RomSector[s] - 1 /\ status'.ws.extra = 0
    BY <1>4 DEF NewStatus, WriteInit
  <2>5. Base(s) \in Nat \ {0} /\ RomSector[s] \in Nat \ {0} /\ RomWords \in Nat
          /\ SectorOf(Base(s) - 1) <= RomSector[s] - 1
    BY <1>1, BaseFacts
  <2> HIDE DEF s
  <2>6. Positioned(status'.ws, s)
    BY <2>4, <2>5 DEF Positioned
  <2>7. Written(flash', status'.ws, s, a)
    <3>1. ASSUME NEW w \in Words PROVE ~(w >= Base(s) /\ w < Base(s))
      BY <2>5, WordsNat
    <3>2. ASSUME NEW w \in Words, w >= Base(s), SectorOf(w) <= RomSector[s] - 1
          PROVE  FALSE
      <4>1. SectorOf(w) >= RomSector[s] /\ SectorOf(w) \in Nat
        BY <1>1, <3>2, WordsNat, InRomSectors, SectorAtLeast DEF s
      <4>2. QED
        BY <2>5, <3>2, <4>1
    <3>3. QED
      BY <2>4, <3>1, <3>2 DEF Written
  <2>8. 0 = (Base(s) - Base(s)) * WordBytes + 0
    <3>1. Base(s) - Base(s) = 0 /\ WordBytes \in Nat
      BY <2>5, OtaAssumption
    <3>2. QED
      BY <3>1
  <2>9. Running'
    BY <1>1, <1>2, <1>4, <2>1, <2>4, <2>6, <2>7, <2>8 DEF Running, s
  <2>10. Base(s) <= Base(s) + RomWords
    BY <2>5
  <2>11. Safe'
    BY <1>2, <2>4, <2>10 DEF IInv, Safe, Intact, HoldsImage
  <2>12. QED
    BY <2>3, <2>9, <2>11 DEF IInv
<1>5. CASE /\ upgrade' = Freed /\ conns' = [conns EXCEPT ![a] = "gone"]
           /\ UNCHANGED <<status, timer, dns>>
  <2>1. TypeOK'
    BY <1>1, <1>2, <1>5 DEF TypeOK
  <2>2. QED
    BY <1>2, <1>5, <2>1, EndKeeps
<1>6. QED
  BY <1>4, <1>5 DEF Start

LEMMA StartNoMemoryKeeps ==
  ASSUME IInv, StartNoMemory
  PROVE  IInv'
<1>1. TypeOK'
  BY DEF IInv, TypeOK, StartNoMemory
<1>2. QED
  BY <1>1, EndKeeps DEF StartNoMemory

LEMMA SwitchKeeps ==
  ASSUME IInv, Switch
  PROVE  IInv'
<1>1. TypeOK /\ OtherRom \in Slots
  BY DEF IInv, OtherRom, Slots
<1>2. PICK cfg \in {boot, OtherRom, Blank} : Reboot(cfg)
  BY DEF Switch, SetRomAndRestart
<1>3. cfg \in Slots \cup {Blank}
  BY <1>1 DEF TypeOK
<1>4. flash' = flash /\ done' = done /\ excuse' = excuse \cup {"switch"}
  BY DEF Switch
<1>typed. excuse' \subseteq Excuses
  BY <1>1, <1>4, TypeParts DEF Excuses
<1>5. TypeOK' /\ upgrade' = NoUpgrade
  BY <1>1, <1>2, <1>3, <1>4, <1>typed, RebootTyped, TypeParts
<1>6. Running' /\ Safe'
  BY <1>4, <1>5 DEF Running, Safe, NoUpgrade
<1>7. QED
  BY <1>5, <1>6 DEF IInv

LEMMA ResolvedKeeps ==
  ASSUME IInv, NEW a \in Attempts, Resolved(a)
  PROVE  IInv'
<1>1. TypeOK /\ conns \in [Attempts -> ConnStates] /\ dns \subseteq Attempts
  BY TypeParts DEF IInv
<1>2. CASE upgrade <= 0 /\ Exception
  BY <1>2, RebootKeeps DEF Exception
<1>3. CASE upgrade > 0 /\ dns' = dns \ {a} /\ DropOwn(conns)
  BY <1>1, <1>3, DropOwnKeeps
<1>4. CASE /\ upgrade > 0 /\ dns' = dns \ {a}
           /\ conns' = [conns EXCEPT ![upgrade] =
                          IF conns[upgrade] = "new" THEN "connecting" ELSE conns[upgrade]]
           /\ timer' = "connect"
           /\ UNCHANGED <<flash, boot, upgrade, status, flag, done, excuse>>
  <2>1. upgrade \in Attempts
    BY <1>1, <1>4, UpgradeIsAttempt
  <2>2. conns[upgrade] \in {"new", "connecting", "open"}
    BY <1>4 DEF IInv, Running
  <2>3. conns'[upgrade] \in {"new", "connecting", "open"}
          /\ conns' \in [Attempts -> ConnStates]
    BY <1>1, <1>4, <2>1, <2>2 DEF ConnStates
  <2>4. TypeOK'
    BY <1>1, <1>4, <2>3 DEF TypeOK, ConnStates
  <2>5. QED
    BY <1>4, <2>3, <2>4, GoOnKeeps
<1>5. QED
  BY <1>2, <1>3, <1>4 DEF Resolved

LEMMA OpenedTyped ==
  ASSUME TypeOK, NEW a \in Attempts
  PROVE  Opened(a) \in [Attempts -> ConnStates]
<1>1. conns \in [Attempts -> ConnStates]
  BY TypeParts
<1>2. QED
  BY <1>1 DEF Opened, ConnStates

LEMMA ConnectedKeeps ==
  ASSUME IInv, NEW a \in Attempts, Connected(a)
  PROVE  IInv'
<1>1. TypeOK /\ conns \in [Attempts -> ConnStates] /\ Opened(a) \in [Attempts -> ConnStates]
  BY TypeParts, OpenedTyped DEF IInv
<1>2. CASE upgrade <= 0 /\ Exception
  BY <1>2, RebootKeeps DEF Exception
<1>3. CASE /\ upgrade > 0 /\ conns' = Opened(a) /\ timer' = "deinit"
           /\ UNCHANGED <<flash, boot, upgrade, status, flag, dns, done, excuse>>
  <2>1. upgrade \in Attempts /\ conns[upgrade] \in {"new", "connecting", "open"}
    BY <1>1, <1>3, UpgradeIsAttempt DEF IInv, Running
  <2>2. conns[a] \in {"connecting", "late"}
    BY DEF Connected
  <2>3. conns'[upgrade] \in {"new", "connecting", "open"}
    BY <1>1, <1>3, <2>1, <2>2 DEF Opened
  <2>4. TypeOK'
    BY <1>1, <1>3 DEF TypeOK, ConnStates
  <2>5. QED
    BY <1>3, <2>3, <2>4, GoOnKeeps
<1>4. CASE /\ upgrade > 0 /\ conns' = [Opened(a) EXCEPT ![upgrade] = Ended(@)]
           /\ timer' = "off" /\ flag' = "idle"
           /\ upgrade' = NoUpgrade /\ status' = NewStatus(0)
           /\ UNCHANGED <<flash, boot, dns, done, excuse>>
  <2>1. NewStatus(0) \in Contents
    BY NewStatusTyped DEF Slots
  <2>2. conns' \in [Attempts -> ConnStates]
    <3>1. \A c \in ConnStates : Ended(c) \in ConnStates
      BY DEF Ended, ConnStates
    <3>2. QED
      BY <1>1, <1>4, <3>1, UpgradeIsAttempt
  <2>3. TypeOK'
    BY <1>1, <1>4, <2>1, <2>2 DEF TypeOK, Contents, ConnStates
  <2>4. QED
    BY <1>4, <2>3, EndKeeps
<1>5. QED
  BY <1>2, <1>3, <1>4 DEF Connected

LEMMA ConnectionErrorKeeps ==
  ASSUME IInv, NEW a \in Attempts, ConnectionError(a)
  PROVE  IInv'
<1>1. TypeOK /\ conns \in [Attempts -> ConnStates] /\ dns \subseteq Attempts
  BY TypeParts DEF IInv
<1>2. CASE upgrade <= 0 /\ Exception
  BY <1>2, RebootKeeps DEF Exception
<1>3. CASE upgrade > 0 /\ DropOwn([conns EXCEPT ![a] = "gone"]) /\ UNCHANGED dns
  <2>1. [conns EXCEPT ![a] = "gone"] \in [Attempts -> ConnStates]
    BY <1>1 DEF ConnStates
  <2>2. QED
    BY <1>1, <1>3, <2>1, DropOwnKeeps
<1>4. QED
  BY <1>2, <1>3 DEF ConnectionError

LEMMA DisconnectedKeeps ==
  ASSUME IInv, NEW a \in Attempts, Disconnected(a)
  PROVE  IInv'
<1>1. TypeOK /\ conns \in [Attempts -> ConnStates]
  BY TypeParts DEF IInv
<1>2. /\ conns' = [conns EXCEPT ![a] = "gone"] /\ timer' = "off"
      /\ UNCHANGED <<flash, boot, dns, done, excuse>>
  BY DEF Disconnected
<1>3. conns' \in [Attempts -> ConnStates]
  BY <1>1, <1>2 DEF ConnStates
<1>4. CASE upgrade = a
  <2>1. flag' = "idle" /\ upgrade' = NoUpgrade /\ status' = NewStatus(0)
    BY <1>4 DEF Disconnected
  <2>2. NewStatus(0) \in Contents
    BY NewStatusTyped DEF Slots
  <2>3. TypeOK'
    BY <1>1, <1>2, <1>3, <2>1, <2>2 DEF TypeOK, Contents, ConnStates
  <2>4. QED
    BY <1>2, <2>1, <2>3, EndKeeps
<1>5. CASE upgrade # a
  <2>1. UNCHANGED <<flag, upgrade, status>>
    BY <1>5 DEF Disconnected
  <2>2. TypeOK'
    BY <1>1, <1>2, <1>3, <2>1 DEF TypeOK, ConnStates
  <2>3. upgrade > 0 => conns'[upgrade] \in {"new", "connecting", "open"}
    BY <1>1, <1>2, <1>5, UpgradeIsAttempt DEF IInv, Running
  <2>4. QED
    BY <1>2, <2>1, <2>2, <2>3, GoOnKeeps
<1>6. QED
  BY <1>4, <1>5

LEMMA TimeoutsKeep ==
  ASSUME IInv, ConnectTimeout \/ ReceiveTimeout
  PROVE  IInv'
<1>1. TypeOK /\ conns \in [Attempts -> ConnStates] /\ dns \subseteq Attempts
  BY TypeParts DEF IInv
<1>2. CASE upgrade <= 0 /\ Exception
  BY <1>2, RebootKeeps DEF Exception
<1>3. CASE upgrade > 0 /\ DropOwn(conns) /\ UNCHANGED dns
  BY <1>1, <1>3, DropOwnKeeps
<1>4. CASE upgrade > 0 /\ Deinit /\ UNCHANGED <<flash, excuse>>
  BY <1>4, DeinitKeeps
<1>5. QED
  BY <1>2, <1>3, <1>4 DEF ConnectTimeout, ReceiveTimeout

LEMMA HeaderKeeps ==
  ASSUME IInv, NEW a \in Attempts, BadResponse(a) \/ HeaderContinues(a)
  PROVE  IInv'
<1>1. TypeOK
  BY DEF IInv
<1>2. upgrade > 0
  BY <1>1, UpgradeIsAttempt DEF BadResponse, HeaderContinues
<1>3. CASE BadResponse(a)
  BY <1>2, <1>3, DeinitKeeps DEF BadResponse
<1>4. CASE HeaderContinues(a)
  <2>1. /\ status' = [status EXCEPT !.ok = TRUE] /\ timer' = "off"
        /\ UNCHANGED <<flash, boot, upgrade, flag, conns, dns, done, excuse>>
    BY <1>4 DEF HeaderContinues
  <2>2. /\ status' \in Contents /\ status'.rom_slot = status.rom_slot
        /\ status'.ws = status.ws /\ status'.total_len = status.total_len
    BY <1>1, <2>1, TypeParts DEF Contents
  <2>3. TypeOK'
    BY <1>1, <2>1, <2>2 DEF TypeOK, Contents
  <2>4. QED
    BY <1>2, <2>1, <2>2, <2>3, GoOnKeeps DEF IInv, Running
<1>5. QED
  BY <1>3, <1>4

----------------------------------------------------------------------------
(* A segment of the image.                                                  *)

(* An image is kept where its rom is not written.                           *)
LEMMA IntactKept ==
  ASSUME TypeOK, NEW s \in Slots, Intact(s), done'[s] = done[s],
         \A w \in Words : w >= Base(s) /\ w < Base(s) + RomWords => flash'[w] = flash[w]
  PROVE  /\ WordsOf(done'[s].len) <= RomWords
         /\ \A i \in 0..(WordsOf(done'[s].len) - 1) :
               flash'[Base(s) + i] = IF done'[s].att = 0 THEN Old
                                     ELSE <<done'[s].att, i>>
<1> DEFINE q == WordsOf(done[s].len)
<1>1. q \in Nat /\ q <= RomWords
  <2>1. done[s].len \in Nat
    BY DEF TypeOK
  <2>2. QED
    BY <2>1, WordsOfNat DEF Intact
<1>2. Base(s) \in Nat /\ RomWords \in Nat /\ Base(s) + RomWords <= Sectors * SectorWords
        /\ Sectors * SectorWords \in Nat
  BY BaseFacts, OtaAssumption, TimesNat
<1>3. ASSUME NEW i \in 0..(q - 1)
      PROVE  flash'[Base(s) + i] = flash[Base(s) + i]
  <2>1. i \in Nat /\ i < RomWords
    BY <1>1, <1>2, <1>3
  <2>2. Base(s) + i \in Nat /\ Base(s) + i >= Base(s) /\ Base(s) + i < Base(s) + RomWords
          /\ Base(s) + i <= Sectors * SectorWords - 1
    BY <1>2, <2>1
  <2>3. Base(s) + i \in Words
    BY <1>2, <2>2 DEF Words
  <2>4. QED
    BY <2>2, <2>3
<1>4. \A i \in 0..(q - 1) :
         flash[Base(s) + i] = IF done[s].att = 0 THEN Old ELSE <<done[s].att, i>>
  BY DEF Intact, HoldsImage
<1>5. QED
  BY <1>1, <1>3, <1>4

(* A write that stays in its rom leaves the other one alone.                *)
LEMMA OtherRomKept ==
  ASSUME NEW s \in Slots, status.rom_slot = s, NEW t \in Slots, s # t,
         NEW fl, NEW ws \in WriteStatus, Positioned(ws, s), NEW n \in Nat, NEW a,
         ws.addr + Whole(ws, n) <= Base(s) + RomWords,
         NEW o \in WriteFlash(fl, ws, n, a), "erase" \notin o.fault,
         NEW w \in Words, w >= Base(t), w < Base(t) + RomWords
  PROVE  o.flash[w] = fl[w]
<1> SUFFICES ASSUME o.flash[w] # fl[w] PROVE FALSE
  OBVIOUS
<1> DEFINE v == ws.addr + Whole(ws, n) - 1
<1>1. SectorOf(w) >= RomSector[s] /\ SectorOf(w) <= LastSector(ws, n)
  BY WriteStays
<1>2. v \in Nat /\ v < Base(s) + RomWords
  <2>1. ws.addr \in Nat /\ Whole(ws, n) \in Nat /\ Base(s) \in Nat \ {0} /\ RomWords \in Nat
    BY WholeAndRest, BaseFacts DEF WriteStatus
  <2>2. ws.addr >= Base(s)
    BY DEF Positioned
  <2>3. QED
    BY <2>1, <2>2
<1>3. LastSector(ws, n) = SectorOf(v)
  BY DEF LastSector
<1> HIDE DEF v
<1>4. SectorOf(v) < RomSector[s] + RomSectors /\ SectorOf(v) \in Nat
  BY <1>2, InRomSectors, SectorAtLeast
<1>5. SectorOf(w) \in Nat /\ w \in Nat
  BY WordsNat, SectorAtLeast
<1>6. SectorOf(w) < RomSector[s] \/ SectorOf(w) >= RomSector[s] + RomSectors
  BY <1>5, RomsApart
<1>7. RomSector[s] \in Nat /\ RomSectors \in Nat
  BY OtaAssumption
<1>8. QED
  BY <1>1, <1>3, <1>4, <1>5, <1>6, <1>7

\* The bytes of a download that has come to ws.
Received(ws, s) == (ws.addr - Base(s)) * WordBytes + ws.extra

\* They are all in the flash, a word at its place.
Imaged(fl, ws, s, a) ==
  /\ WordsOf(Received(ws, s)) <= RomWords
  /\ \A i \in 0..(WordsOf(Received(ws, s)) - 1) : fl[Base(s) + i] = <<a, i>>

(* What a complete download has written is its image, if no bytes are left.  *)
LEMMA CompleteIsWhole ==
  ASSUME NEW s \in Slots, NEW fl, NEW ws \in WriteStatus, Positioned(ws, s), NEW a,
         Written(fl, ws, s, a), ws.extra = 0, ws.addr <= Base(s) + RomWords
  PROVE  Imaged(fl, ws, s, a)
<1> DEFINE len == Received(ws, s)
           q == ws.addr - Base(s)
           b == Base(s)
<1>1. b \in Nat /\ RomWords \in Nat /\ b + RomWords <= Sectors * SectorWords
        /\ Sectors * SectorWords \in Nat /\ ws.addr \in Nat /\ ws.addr >= b
  BY BaseFacts, OtaAssumption, TimesNat DEF WriteStatus, Positioned
<1>2. q \in Nat /\ q <= RomWords /\ ws.addr = b + q
  BY <1>1
<1>3. len = q * WordBytes
  <2>1. q * WordBytes \in Int
    BY <1>2, OtaAssumption, Distributes
  <2> DEFINE p == q * WordBytes
  <2>2. len = p + ws.extra
    BY DEF Received
  <2> HIDE DEF q, len, p
  <2>3. len = p
    BY <2>1, <2>2 DEF p
  <2>4. QED
    BY <2>3 DEF p
<1> HIDE DEF q
<1>4. WordsOf(len) = q
  BY <1>2, <1>3, WordsOfWhole
<1> HIDE DEF len
<1>5. ASSUME NEW i \in 0..(q - 1) PROVE fl[b + i] = <<a, i>>
  <2>1. b + i \in Nat /\ b + i >= b /\ b + i < ws.addr
          /\ b + i <= Sectors * SectorWords - 1 /\ (b + i) - b = i
    BY <1>1, <1>2, <1>5
  <2>2. b + i \in Words
    BY <1>1, <2>1 DEF Words
  <2>3. fl[b + i] = <<a, (b + i) - b>>
    BY <2>1, <2>2 DEF Written
  <2>4. QED
    BY <2>1, <2>3
<1>6. QED
  BY <1>2, <1>4, <1>5 DEF Imaged, len

LEMMA AfterWriteCases ==
  ASSUME NEW a, NEW n, NEW clen, NEW o, AfterWrite(a, n, clen, o),
         o.res \in {"ok", "fail", "cut"}
  PROVE  \/ Deinit
         \/ o.res = "cut" /\ Reboot(boot) /\ done' = done
         \/ /\ o.res = "ok" /\ Complete(status.total_len + n, clen)
            /\ Finish(status.rom_slot, clen)
         \/ /\ o.res = "ok"
            /\ status' = [status EXCEPT !.ok = TRUE, !.total_len = status.total_len + n,
                                        !.content_len = clen, !.ws = o.ws]
            /\ timer' = "deinit"
            /\ UNCHANGED <<boot, upgrade, flag, conns, dns, done>>
<1>1. CASE o.res = "fail"
  BY <1>1 DEF AfterWrite
<1>2. CASE o.res = "cut"
  BY <1>2 DEF AfterWrite
<1>3. CASE o.res = "ok"
  BY <1>3 DEF AfterWrite
<1>4. QED
  BY <1>1, <1>2, <1>3

LEMMA SegmentKeeps ==
  ASSUME IInv, NEW a \in Attempts, NEW n \in Nat, NEW clen \in Nat, Segment(a, n, clen)
  PROVE  IInv'
<1> DEFINE s == status.rom_slot
           ws == status.ws
           total == status.total_len + n
<1>1. TypeOK /\ upgrade = a /\ upgrade > 0
  BY UpgradeIsAttempt DEF IInv, Segment
<1>2. /\ flag = "start" /\ conns[upgrade] \in {"new", "connecting", "open"}
      /\ s # boot /\ Positioned(ws, s) /\ ("erase" \notin excuse => Written(flash, ws, s, a))
      /\ status.total_len = (ws.addr - Base(s)) * WordBytes + ws.extra
  BY <1>1 DEF IInv, Running
<1>3. /\ flash \in [Words -> Cells] /\ boot \in Slots /\ s \in Slots
      /\ status \in Contents /\ ws \in WriteStatus /\ status.total_len \in Nat
      /\ done \in Images /\ excuse \subseteq Excuses
  BY <1>1, TypeParts DEF Contents, WriteStatus
<1>4. PICK o \in WriteFlash(flash, ws, n, a) :
        /\ flash' = o.flash
        /\ excuse' = excuse \cup o.fault \cup Overrun(ws, n) \cup Tail(total, clen, o)
                     \cup (IF clen = 0 THEN {"empty"} ELSE {})
        /\ AfterWrite(a, n, clen, o)
  BY DEF Segment
<1>5. flash' \in [Words -> Cells]
  BY <1>2, <1>3, <1>4, WriteTyped
<1>6. excuse' \subseteq Excuses
  <2>1. o.fault \subseteq {"erase"}
    BY WriteFaults
  <2>2. QED
    BY <1>3, <1>4, <2>1 DEF Overrun, Tail, Excuses
<1>7. o.res \in {"ok", "fail", "cut"}
  BY WriteFaults
<1>8. excuse' = {} => /\ excuse = {} /\ clen # 0
                      /\ ~(ws.addr + Whole(ws, n) > Base(s) + RomWords)
                      /\ o.res = "ok" /\ Complete(total, clen) => o.ws.extra = 0
                      /\ "erase" \notin excuse'
  BY <1>4 DEF Overrun, Tail
<1>fault. "erase" \notin excuse' => "erase" \notin excuse /\ "erase" \notin o.fault
  BY <1>4
<1>9. ws.addr \in Nat /\ Whole(ws, n) \in Nat /\ Base(s) \in Nat /\ RomWords \in Nat
  BY <1>3, WholeAndRest, BaseFacts DEF WriteStatus
<1>10. excuse' = {} => ws.addr + Whole(ws, n) <= Base(s) + RomWords
  BY <1>8, <1>9
<1>11. excuse' = {} =>
         \A w \in Words : w >= Base(boot) /\ w < Base(boot) + RomWords =>
                            flash'[w] = flash[w]
  <2> SUFFICES ASSUME excuse' = {}, NEW w \in Words,
                      w >= Base(boot), w < Base(boot) + RomWords
               PROVE  flash'[w] = flash[w]
    OBVIOUS
  <2>1. ws.addr + Whole(ws, n) <= Base(s) + RomWords
    BY <1>10
  <2>2. s \in Slots /\ boot \in Slots /\ s # boot /\ status.rom_slot = s
          /\ ws \in WriteStatus /\ Positioned(ws, s)
    BY <1>2, <1>3
  <2> HIDE DEF s, ws
  <2>3. o.flash[w] = flash[w]
    BY <1>4, <1>8, <1>fault, <2>1, <2>2, OtherRomKept
  <2>4. QED
    BY <1>4, <2>3
<1>12. ASSUME excuse' = {}, done'[boot] = done[boot]
       PROVE  /\ WordsOf(done'[boot].len) <= RomWords
              /\ \A i \in 0..(WordsOf(done'[boot].len) - 1) :
                    flash'[Base(boot) + i] = IF done'[boot].att = 0 THEN Old
                                             ELSE <<done'[boot].att, i>>
  <2>1. Intact(boot)
    BY <1>8, <1>12 DEF IInv, Safe
  <2>2. QED
    BY <1>1, <1>3, <1>11, <1>12, <2>1, IntactKept
<1>13. ASSUME o.res = "ok"
       PROVE  /\ o.ws \in WriteStatus /\ Positioned(o.ws, s)
              /\ "erase" \notin excuse' => Written(o.flash, o.ws, s, a)
              /\ total = (o.ws.addr - Base(s)) * WordBytes + o.ws.extra
              /\ excuse' = {} => o.ws.addr <= Base(s) + RomWords
  <2>1. /\ o.ws \in WriteStatus /\ Positioned(o.ws, s)
        /\ Written(flash, ws, s, a) /\ "erase" \notin o.fault => Written(o.flash, o.ws, s, a)
        /\ (o.ws.addr - Base(s)) * WordBytes + o.ws.extra
             = (ws.addr - Base(s)) * WordBytes + ws.extra + n
        /\ o.ws.addr <= ws.addr + Whole(ws, n)
    BY <1>2, <1>3, <1>4, <1>13, WriteContinues
  <2>2. o.ws.addr \in Nat
    BY <2>1 DEF WriteStatus
  <2>3. excuse' = {} => o.ws.addr <= Base(s) + RomWords
    BY <1>9, <1>10, <2>1, <2>2
  <2>4. total = (o.ws.addr - Base(s)) * WordBytes + o.ws.extra
    BY <1>2, <2>1
  <2>5. "erase" \notin excuse' => Written(o.flash, o.ws, s, a)
    BY <1>2, <1>fault, <2>1
  <2>6. QED
    BY <2>1, <2>3, <2>4, <2>5
<1> HIDE DEF s, ws
<1>14. CASE Deinit
  <2>1. TypeOK' /\ upgrade' = NoUpgrade
    BY <1>1, <1>5, <1>6, <1>14, DeinitTyped
  <2>2. boot' = boot /\ done' = done
    BY <1>14 DEF Deinit
  <2>3. Running' /\ Safe'
    BY <1>12, <2>1, <2>2 DEF Running, Safe, Intact, HoldsImage, NoUpgrade
  <2>4. QED
    BY <2>1, <2>3 DEF IInv
<1>15. CASE Reboot(boot) /\ done' = done
  <2>1. TypeOK' /\ upgrade' = NoUpgrade
    BY <1>1, <1>3, <1>5, <1>6, <1>15, RebootTyped
  <2>2. boot' = boot
    BY <1>3, <1>15 DEF Reboot, Slots, Blank
  <2>3. Running' /\ Safe'
    BY <1>12, <1>15, <2>1, <2>2 DEF Running, Safe, Intact, HoldsImage, NoUpgrade
  <2>4. QED
    BY <2>1, <2>3 DEF IInv
<1>16. CASE o.res = "ok" /\ Complete(total, clen) /\ Finish(s, clen)
  <2>1. PICK cfg \in {boot, s, Blank} : Reboot(cfg)
    BY <1>16 DEF Finish, SetRomAndRestart
  <2>2. done' = IF clen = 0 THEN done ELSE [done EXCEPT ![s] = [att |-> a, len |-> clen]]
    BY <1>1, <1>16 DEF Finish
  <2>3. done' \in Images
    BY <1>3, <2>2 DEF Images
  <2>4. TypeOK' /\ upgrade' = NoUpgrade
    BY <1>1, <1>3, <1>5, <1>6, <2>1, <2>3, RebootTyped
  <2>5. boot' \in {boot, s}
    BY <1>2, <1>3, <2>1 DEF Reboot, Slots, Blank
  <2>6. clen = (o.ws.addr - Base(s)) * WordBytes + o.ws.extra
    BY <1>13, <1>16 DEF Complete
  <2>7. CASE boot' = boot
    <3>1. done'[boot] = done[boot]
      BY <1>2, <1>3, <2>2 DEF Images
    <3>2. Running' /\ Safe'
      BY <1>12, <2>4, <2>7, <3>1 DEF Running, Safe, Intact, HoldsImage, NoUpgrade
    <3>3. QED
      BY <2>4, <3>2 DEF IInv
  <2>8. CASE boot' = s
    <3>1. ASSUME excuse' = {}
          PROVE  /\ done'[s] = [att |-> a, len |-> clen]
                 /\ WordsOf(clen) <= RomWords
                 /\ \A i \in 0..(WordsOf(clen) - 1) : flash'[Base(s) + i] = <<a, i>>
      <4>1. done'[s] = [att |-> a, len |-> clen]
        BY <1>3, <1>8, <2>2, <3>1 DEF Images
      <4>2. /\ o.ws \in WriteStatus /\ Positioned(o.ws, s)
            /\ Written(o.flash, o.ws, s, a) /\ o.ws.addr <= Base(s) + RomWords
            /\ o.ws.extra = 0
        BY <1>8, <1>13, <1>16, <3>1
      <4>3. /\ WordsOf(clen) <= RomWords
            /\ \A i \in 0..(WordsOf(clen) - 1) : o.flash[Base(s) + i] = <<a, i>>
        <5> DEFINE fl == o.flash
                   w == o.ws
        <5>1. /\ s \in Slots /\ w \in WriteStatus /\ Positioned(w, s)
              /\ Written(fl, w, s, a) /\ w.addr <= Base(s) + RomWords /\ w.extra = 0
              /\ clen \in Nat /\ clen = Received(w, s)
          BY <1>3, <2>6, <4>2 DEF Received
        <5> HIDE DEF fl, w
        <5>2. /\ WordsOf(clen) <= RomWords
              /\ \A i \in 0..(WordsOf(clen) - 1) : fl[Base(s) + i] = <<a, i>>
          <6>1. /\ s \in Slots /\ w \in WriteStatus /\ Positioned(w, s)
                /\ Written(fl, w, s, a) /\ w.extra = 0 /\ w.addr <= Base(s) + RomWords
            BY <5>1
          <6>2. Imaged(fl, w, s, a)
            BY <6>1, CompleteIsWhole
          <6>3. QED
            BY <5>1, <6>2 DEF Imaged
        <5>3. QED
          BY <5>2 DEF fl
      <4>4. QED
        BY <1>4, <4>1, <4>3
    <3>2. a # 0
      BY OtaAssumption DEF Attempts
    <3>3. Running' /\ Safe'
      BY <2>4, <2>8, <3>1, <3>2 DEF Running, Safe, Intact, HoldsImage, NoUpgrade
    <3>4. QED
      BY <2>4, <3>3 DEF IInv
  <2>9. QED
    BY <2>5, <2>7, <2>8
<1>17. CASE /\ o.res = "ok"
            /\ status' = [status EXCEPT !.ok = TRUE, !.total_len = total,
                                        !.content_len = clen, !.ws = o.ws]
            /\ timer' = "deinit"
            /\ UNCHANGED <<boot, upgrade, flag, conns, dns, done>>
  <2>1. /\ status'.rom_slot = s /\ status'.ws = o.ws /\ status'.total_len = total
    BY <1>3, <1>17 DEF Contents, s
  <2>2. total \in Nat
    BY <1>3
  <2>3. status' \in Contents
    BY <1>3, <1>13, <1>17, <2>2 DEF Contents, WriteStatus
  <2>4. TypeOK'
    BY <1>1, <1>5, <1>6, <1>17, <2>3 DEF TypeOK, Contents, Excuses
  <2> HIDE DEF total
  <2>5. Running'
    BY <1>1, <1>2, <1>4, <1>13, <1>17, <2>1 DEF Running, Written, Positioned
  <2>6. excuse' = {} => done'[boot] = done[boot] /\ boot' = boot
    BY <1>17
  <2>7. Safe'
    BY <1>12, <1>13, <1>17, <2>1, <2>6 DEF Safe, Intact, HoldsImage
  <2>8. QED
    BY <2>4, <2>5, <2>7 DEF IInv
<1>18. \/ Deinit
       \/ o.res = "cut" /\ Reboot(boot) /\ done' = done
       \/ o.res = "ok" /\ Complete(total, clen) /\ Finish(s, clen)
       \/ /\ o.res = "ok"
          /\ status' = [status EXCEPT !.ok = TRUE, !.total_len = total,
                                      !.content_len = clen, !.ws = o.ws]
          /\ timer' = "deinit"
          /\ UNCHANGED <<boot, upgrade, flag, conns, dns, done>>
  BY <1>4, <1>7, AfterWriteCases DEF s, total
<1> HIDE DEF total
<1>19. QED
  BY <1>14, <1>15, <1>16, <1>17, <1>18

----------------------------------------------------------------------------
(* The invariant.                                                           *)

LEMMA InvInit == OtaInit => IInv
<1> SUFFICES ASSUME OtaInit PROVE IInv
  OBVIOUS
<1>1. /\ flash = [w \in Words |-> Old] /\ boot \in Slots
      /\ upgrade = NoUpgrade /\ status = NewStatus(0)
      /\ flag = "idle" /\ timer = "off"
      /\ conns = [a \in Attempts |-> "none"] /\ dns = {}
      /\ done = [s \in Slots |-> [att |-> 0, len |-> RomWords * WordBytes]]
      /\ excuse = {}
  BY DEF OtaInit
<1>2. RomWords \in Nat /\ WordBytes \in Nat \ {0} /\ RomWords * WordBytes \in Nat
  <2>1. RomWords \in Nat
    BY OtaAssumption, TimesNat DEF RomWords
  <2>2. QED
    BY <2>1, OtaAssumption, TimesNat
<1>3. TypeOK
  <2>1. flash \in [Words -> Cells]
    BY <1>1 DEF Cells
  <2>2. status \in Contents
    BY <1>1, NewStatusTyped DEF Slots
  <2>3. conns \in [Attempts -> ConnStates]
    BY <1>1 DEF ConnStates
  <2>4. done \in Images
    BY <1>1, <1>2 DEF Images
  <2>5. QED
    BY <1>1, <2>1, <2>2, <2>3, <2>4, TypeParts
<1>4. Running
  BY <1>1 DEF Running, NoUpgrade
<1>5. Intact(boot)
  <2> DEFINE len == RomWords * WordBytes
  <2>1. done[boot].att = 0 /\ done[boot].len = len
    BY <1>1
  <2>2. WordsOf(len) = RomWords
    BY <1>2, WordsOfWhole
  <2>3. ASSUME NEW i \in 0..(RomWords - 1)
        PROVE  flash[Base(boot) + i] = Old
    <3>1. /\ Base(boot) \in Nat /\ Base(boot) + RomWords <= Sectors * SectorWords
          /\ Sectors * SectorWords \in Nat
      BY <1>1, BaseFacts, OtaAssumption, TimesNat
    <3>2. Base(boot) + i \in 0..(Sectors * SectorWords - 1)
      BY <1>2, <2>3, <3>1
    <3>3. QED
      BY <1>1, <3>2 DEF Words
  <2> HIDE DEF len
  <2>4. QED
    BY <1>2, <2>1, <2>2, <2>3 DEF Intact, HoldsImage
<1>6. Safe
  BY <1>1, <1>5 DEF Safe, NoUpgrade
<1>7. QED
  BY <1>3, <1>4, <1>6 DEF IInv

LEMMA InvStep == IInv /\ [OtaNext]_otaVars => IInv'
<1> SUFFICES ASSUME IInv, [OtaNext]_otaVars PROVE IInv'
  OBVIOUS
<1>1. CASE PowerFails
  BY <1>1, RebootKeeps DEF PowerFails
<1>2. CASE StartNoMemory
  BY <1>2, StartNoMemoryKeeps
<1>3. CASE Switch
  BY <1>3, SwitchKeeps
<1>4. CASE ConnectTimeout \/ ReceiveTimeout
  BY <1>4, TimeoutsKeep
<1>5. ASSUME NEW a \in Attempts, Start(a) PROVE IInv'
  BY <1>5, StartKeeps
<1>6. ASSUME NEW a \in Attempts, Resolved(a) PROVE IInv'
  BY <1>6, ResolvedKeeps
<1>7. ASSUME NEW a \in Attempts, Connected(a) PROVE IInv'
  BY <1>7, ConnectedKeeps
<1>8. ASSUME NEW a \in Attempts, ConnectionError(a) PROVE IInv'
  BY <1>8, ConnectionErrorKeeps
<1>9. ASSUME NEW a \in Attempts, Disconnected(a) PROVE IInv'
  BY <1>9, DisconnectedKeeps
<1>10. ASSUME NEW a \in Attempts, BadResponse(a) \/ HeaderContinues(a) PROVE IInv'
  BY <1>10, HeaderKeeps
<1>11. ASSUME NEW a \in Attempts, NEW n \in Chunks, Body(a, n) PROVE IInv'
  <2>1. n \in Nat /\ status.content_len \in Nat
    BY OtaAssumption DEF IInv, TypeOK
  <2>2. Segment(a, n, status.content_len)
    BY <1>11 DEF Body
  <2>3. QED
    BY <2>1, <2>2, SegmentKeeps
<1>12. ASSUME NEW a \in Attempts, NEW n \in Chunks, NEW clen \in Lens, HeaderEnds(a, clen, n)
       PROVE  IInv'
  <2>1. n \in Nat /\ clen \in Nat
    BY OtaAssumption
  <2>2. Segment(a, n, clen)
    BY <1>12 DEF HeaderEnds
  <2>3. QED
    BY <2>1, <2>2, SegmentKeeps
<1>13. CASE UNCHANGED otaVars
  BY <1>13 DEF otaVars, IInv, TypeOK, Running, Safe, Intact, HoldsImage, Positioned, Written
<1>14. QED
  BY <1>1, <1>2, <1>3, <1>4, <1>5, <1>6, <1>7, <1>8, <1>9, <1>10, <1>11, <1>12, <1>13
     DEF OtaNext

\* The inductive invariant: an update that runs owns the flag and its
\* connection, writes a rom that does not boot, and, as long as sectors are erased
\* when the flash is told to, has put every whole word it received in its place;
\* the rom that boots is whole unless something excused happened.
THEOREM InvariantHolds == OtaSpec => []IInv
BY InvInit, InvStep, PTL DEF OtaSpec

\* Every variable keeps its type, and with it the flag, the timer and the
\* connections their states.
THEOREM TypeCorrect == OtaSpec => []TypeOK
<1>1. IInv => TypeOK
  BY DEF IInv
<1>2. QED
  BY <1>1, InvariantHolds, PTL

\* rboot_write_flash, called with segments of any length for roms of any size:
\* as long as no erase failed unnoticed, the words behind the start of the rom are
\* the download, in order, and what lies behind the write position in erased
\* sectors is still erased.
THEOREM DownloadInOrder == OtaSpec => []WrittenInOrder
<1>1. IInv => WrittenInOrder
  BY DEF IInv, Running, Written, WrittenInOrder
<1>2. QED
  BY <1>1, InvariantHolds, PTL

\* However an update ends, and wherever power is lost in a write, the rom that
\* boots next holds every word of its image, unless an image did not fit its rom,
\* was empty or ended inside a word (rboot_write_end is never called), a sector
\* was not erased when told to, or "ota switch" chose the rom.
THEOREM BootIsWhole == OtaSpec => []BootsWholeImage
<1>1. IInv => BootsWholeImage
  BY DEF IInv, Safe, Intact, BootsWholeImage
<1>2. QED
  BY <1>1, InvariantHolds, PTL

----------------------------------------------------------------------------
(* What ends an update.                                                     *)

\* The update goes on, or ends in a step that is not the disconnect of another
\* attempt's connection.
Undisturbed ==
  upgrade' # upgrade =>
    /\ upgrade' = NoUpgrade
    /\ \A a \in Attempts \ {upgrade} :
          conns[a] \in {"open", "closing"} => conns' # [conns EXCEPT ![a] = "gone"]

(* Such a disconnect changes the one connection, and leaves the update's.   *)
LEMMA NotThatDisconnect ==
  ASSUME TypeOK, upgrade > 0, upgrade' = NoUpgrade,
         \/ conns'[upgrade] # conns[upgrade]
         \/ \A a \in Attempts \ {upgrade} : conns'[a] = conns[a]
  PROVE  Undisturbed
<1> SUFFICES ASSUME NEW a \in Attempts \ {upgrade}, conns[a] \in {"open", "closing"},
                    conns' = [conns EXCEPT ![a] = "gone"]
             PROVE  FALSE
  BY DEF Undisturbed
<1>1. upgrade \in Attempts /\ conns \in [Attempts -> ConnStates]
  BY UpgradeIsAttempt, TypeParts
<1>2. conns'[upgrade] = conns[upgrade] /\ conns'[a] = "gone" /\ conns[a] # "gone"
  BY <1>1
<1>3. QED
  BY <1>2

LEMMA RebootUndisturbed ==
  ASSUME IInv, upgrade > 0, NEW cfg, Reboot(cfg)
  PROVE  Undisturbed
<1>1. TypeOK /\ upgrade \in Attempts /\ conns[upgrade] \in {"new", "connecting", "open"}
  BY UpgradeIsAttempt DEF IInv, Running
<1>2. upgrade' = NoUpgrade /\ conns'[upgrade] = "gone"
  BY <1>1 DEF Reboot
<1>3. QED
  BY <1>1, <1>2, NotThatDisconnect

LEMMA DeinitUndisturbed ==
  ASSUME IInv, upgrade > 0, Deinit
  PROVE  Undisturbed
<1>1. TypeOK /\ conns \in [Attempts -> ConnStates]
  BY TypeParts DEF IInv
<1>2. upgrade' = NoUpgrade /\ \A a \in Attempts \ {upgrade} : conns'[a] = conns[a]
  BY <1>1 DEF Deinit
<1>3. QED
  BY <1>1, <1>2, NotThatDisconnect

LEMMA DropOwnUndisturbed ==
  ASSUME IInv, upgrade > 0, NEW cs, DropOwn(cs),
         cs = conns \/ \E a \in Attempts : cs = [conns EXCEPT ![a] = "gone"]
  PROVE  Undisturbed
<1>1. /\ TypeOK /\ conns \in [Attempts -> ConnStates] /\ upgrade \in Attempts
      /\ conns[upgrade] \in {"new", "connecting", "open"}
  BY TypeParts, UpgradeIsAttempt DEF IInv, Running
<1>2. cs \in [Attempts -> ConnStates]
  BY <1>1 DEF ConnStates
<1>3. conns' = [cs EXCEPT ![upgrade] = IF cs[upgrade] \in {"connecting", "open"}
                                       THEN "late" ELSE "gone"]
  BY DEF DropOwn
<1>4. conns'[upgrade] \in {"late", "gone"}
  BY <1>1, <1>2, <1>3
<1>5. upgrade' = NoUpgrade
  BY DEF DropOwn
<1>6. QED
  BY <1>1, <1>4, <1>5, NotThatDisconnect

LEMMA SegmentUndisturbed ==
  ASSUME IInv, NEW a \in Attempts, NEW n \in Nat, NEW clen, Segment(a, n, clen)
  PROVE  Undisturbed
<1>1. TypeOK /\ upgrade > 0
  BY UpgradeIsAttempt DEF IInv, Segment
<1>2. PICK o \in WriteFlash(flash, status.ws, n, a) : AfterWrite(a, n, clen, o)
  BY DEF Segment
<1>3. o.res \in {"ok", "fail", "cut"}
  BY WriteFaults
<1>4. \/ Deinit \/ Reboot(boot) \/ Finish(status.rom_slot, clen)
      \/ UNCHANGED upgrade
  BY <1>2, <1>3, AfterWriteCases
<1>5. CASE Finish(status.rom_slot, clen)
  <2>1. PICK cfg \in {boot, status.rom_slot, Blank} : Reboot(cfg)
    BY <1>5 DEF Finish, SetRomAndRestart
  <2>2. QED
    BY <1>1, <2>1, RebootUndisturbed
<1>6. CASE UNCHANGED upgrade
  BY <1>6 DEF Undisturbed
<1>7. QED
  BY <1>1, <1>4, <1>5, <1>6, RebootUndisturbed, DeinitUndisturbed

LEMMA UndisturbedStep ==
  ASSUME IInv, upgrade > 0, OtaNext
  PROVE  Undisturbed
<1>1. /\ flag = "start" /\ upgrade \in Attempts /\ upgrade \in Int
      /\ conns \in [Attempts -> ConnStates]
      /\ conns[upgrade] \in {"new", "connecting", "open"}
  BY UpgradeIsAttempt, TypeParts DEF IInv, Running
<1>2. ~(upgrade <= 0)
  BY <1>1
<1>3. CASE PowerFails
  BY <1>3, RebootUndisturbed DEF PowerFails
<1>4. CASE StartNoMemory
  BY <1>1, <1>4 DEF StartNoMemory, Idle
<1>5. CASE Switch
  <2>1. PICK cfg \in {boot, OtherRom, Blank} : Reboot(cfg)
    BY <1>5 DEF Switch, SetRomAndRestart
  <2>2. QED
    BY <2>1, RebootUndisturbed
<1>6. CASE ConnectTimeout
  BY <1>2, <1>6, DropOwnUndisturbed DEF ConnectTimeout
<1>7. CASE ReceiveTimeout
  BY <1>2, <1>7, DeinitUndisturbed DEF ReceiveTimeout
<1>8. ASSUME NEW a \in Attempts, Start(a) PROVE Undisturbed
  BY <1>1, <1>8 DEF Start, Idle
<1>9. ASSUME NEW a \in Attempts, Resolved(a) PROVE Undisturbed
  <2>1. DropOwn(conns) \/ UNCHANGED upgrade
    BY <1>2, <1>9 DEF Resolved
  <2>2. QED
    BY <2>1, DropOwnUndisturbed DEF Undisturbed
<1>10. ASSUME NEW a \in Attempts, Connected(a) PROVE Undisturbed
  <2>1. \/ UNCHANGED upgrade
        \/ upgrade' = NoUpgrade /\ conns' = [Opened(a) EXCEPT ![upgrade] = Ended(@)]
    BY <1>2, <1>10 DEF Connected
  <2>2. conns[a] \in {"connecting", "late"} /\ Opened(a) \in [Attempts -> ConnStates]
    BY <1>10, OpenedTyped DEF IInv, Connected
  <2>3. ASSUME conns' = [Opened(a) EXCEPT ![upgrade] = Ended(@)],
               NEW b \in Attempts \ {upgrade}, conns[b] \in {"open", "closing"}
        PROVE  conns' # [conns EXCEPT ![b] = "gone"]
    <3>1. Opened(a)[b] = conns[b]
      BY <1>1, <2>2, <2>3 DEF Opened
    <3>2. conns'[b] = Opened(a)[b]
      BY <2>2, <2>3
    <3>3. [conns EXCEPT ![b] = "gone"][b] = "gone"
      BY <1>1
    <3>4. QED
      BY <2>3, <3>1, <3>2, <3>3
  <2>4. QED
    BY <2>1, <2>3 DEF Undisturbed
<1>11. ASSUME NEW a \in Attempts, ConnectionError(a) PROVE Undisturbed
  <2>1. DropOwn([conns EXCEPT ![a] = "gone"])
    BY <1>2, <1>11 DEF ConnectionError
  <2>2. QED
    BY <2>1, DropOwnUndisturbed
<1>12. ASSUME NEW a \in Attempts, Disconnected(a) PROVE Undisturbed
  <2>1. CASE upgrade = a
    <3>1. upgrade' = NoUpgrade /\ conns' = [conns EXCEPT ![upgrade] = "gone"]
      BY <1>12, <2>1 DEF Disconnected
    <3>2. conns'[upgrade] # conns[upgrade]
      BY <1>1, <3>1
    <3>3. QED
      BY <3>1, <3>2, NotThatDisconnect DEF IInv
  <2>2. CASE upgrade # a
    BY <1>12, <2>2 DEF Disconnected, Undisturbed
  <2>3. QED
    BY <2>1, <2>2
<1>13. ASSUME NEW a \in Attempts, BadResponse(a) PROVE Undisturbed
  BY <1>13, DeinitUndisturbed DEF BadResponse
<1>14. ASSUME NEW a \in Attempts, HeaderContinues(a) PROVE Undisturbed
  BY <1>14 DEF HeaderContinues, Undisturbed
<1>15. ASSUME NEW a \in Attempts, NEW n \in Chunks, Body(a, n) PROVE Undisturbed
  BY <1>15, OtaAssumption, SegmentUndisturbed DEF Body
<1>16. ASSUME NEW a \in Attempts, NEW n \in Chunks, NEW clen \in Lens, HeaderEnds(a, clen, n)
       PROVE  Undisturbed
  BY <1>16, OtaAssumption, SegmentUndisturbed DEF HeaderEnds
<1>17. QED
  BY <1>3, <1>4, <1>5, <1>6, <1>7, <1>8, <1>9, <1>10, <1>11, <1>12, <1>13, <1>14,
     <1>15, <1>16 DEF OtaNext

\* A running update is not replaced by another "ota update", and the late
\* disconnect of an earlier attempt does not end it (upgrade_disconcb).  Nothing is
\* said of other late callbacks: a connection error, a failed lookup, or a
\* connection without memory for its request do end the update of now.
THEOREM UpdateNotDisturbed == OtaSpec => UpdateUndisturbed
<1>1. IInv /\ [OtaNext]_otaVars
        => [ upgrade > 0 /\ upgrade' # upgrade =>
               /\ upgrade' = NoUpgrade
               /\ \A a \in Attempts \ {upgrade} :
                     conns[a] \in {"open", "closing"} =>
                       conns' # [conns EXCEPT ![a] = "gone"] ]_otaVars
  BY UndisturbedStep DEF Undisturbed
<1>2. QED
  BY <1>1, InvariantHolds, PTL DEF OtaSpec, UpdateUndisturbed
=============
