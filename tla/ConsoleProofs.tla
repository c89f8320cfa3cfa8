--------------------------- MODULE ConsoleProofs ---------------------------
(***************************************************************************)
(* Proofs about the console for any number of connections, commands,       *)
(* tables and inputs, and texts of any length.                             *)
(***************************************************************************)
EXTENDS Console, FiniteSetTheorems, TLAPS

(* Rings: what Into does to the pieces of one, whatever their lengths are.   *)
IsRing(r) == Len(r) \in Nat /\ r = [i \in 1 .. Len(r) |-> r[i]]

LEMMA AppendRing ==
  ASSUME NEW r, IsRing(r), NEW e
  PROVE  /\ IsRing(Append(r, e)) /\ Len(Append(r, e)) = Len(r) + 1
         /\ DOMAIN Append(r, e) = 1 .. Len(r) + 1
         /\ \A i \in 1 .. Len(r) : Append(r, e)[i] = r[i]
         /\ Append(r, e)[Len(r) + 1] = e
<1> DEFINE S == {r[i] : i \in 1 .. Len(r)} \cup {e}
<1>1. \A i \in 1 .. Len(r) : r[i] \in S
  OBVIOUS
<1> HIDE DEF S
<1>2. r \in Seq(S) /\ e \in S
  BY <1>1 DEF IsRing, S
<1> DEFINE a == Append(r, e)
<1>3. a \in Seq(S) /\ Len(a) = Len(r) + 1
  BY <1>2
<1>4. /\ \A i \in 1 .. Len(r) : a[i] = r[i]
      /\ a[Len(r) + 1] = e
  BY <1>2
<1> HIDE DEF a
<1>5. IsRing(a)
  BY <1>3 DEF IsRing
<1>6. DOMAIN a = 1 .. Len(r) + 1
  BY <1>3
<1>7. QED
  BY <1>3, <1>4, <1>5, <1>6 DEF a

(* How many pieces a ring drops, and what is left of one. *)
Left(ring, room, i) == Min({ring[i].bytes, room - Bytes(SubSeq(ring, i + 1, Len(ring)))})
Gone(ring, room) == Cardinality({i \in DOMAIN ring : Left(ring, room, i) <= 0})

LEMMA GoneRange ==
  ASSUME NEW ring, IsRing(ring), NEW room
  PROVE  Gone(ring, room) \in 0 .. Len(ring)
<1> DEFINE S == {i \in DOMAIN ring : Left(ring, room, i) <= 0}
           n == Len(ring)
<1>1. n \in Nat /\ S \subseteq 1 .. n
  BY DEF IsRing
<1> HIDE DEF S, n
<1>2. IsFiniteSet(1 .. n) /\ Cardinality(1 .. n) = n
  <2>1. 1 \in Int /\ n \in Int /\ (1 > n => n = 0) /\ (n - 1) + 1 = n
    BY <1>1
  <2>2. IsFiniteSet(1 .. n) /\ Cardinality(1 .. n) = IF 1 > n THEN 0 ELSE n - 1 + 1
    BY <2>1, FS_Interval, Zenon
  <2>3. QED
    BY <2>1, <2>2
<1>3. IsFiniteSet(S) /\ Cardinality(S) <= n
  BY <1>1, <1>2, FS_Subset
<1>4. Cardinality(S) \in Nat
  BY <1>3, FS_CardinalityType
<1>5. Cardinality(S) \in 0 .. n
  BY <1>1, <1>3, <1>4
<1>6. QED
  BY <1>5 DEF Gone, S, n

LEMMA YoungestIs ==
  ASSUME NEW ring, NEW room
  PROVE  Youngest(ring, room) =
           [k \in 1 .. Len(ring) - Gone(ring, room) |->
              [ring[Gone(ring, room) + k] EXCEPT
                 !.cut = @ \/ Left(ring, room, Gone(ring, room) + k)
                                < ring[Gone(ring, room) + k].bytes,
                 !.bytes = Left(ring, room, Gone(ring, room) + k)]]
BY DEF Youngest, Gone, Left

(* A ring that is made of the pieces of another: the same but for their      *)
(* lengths.                                                                 *)
MadeOf(new, pieces) ==
  \A i \in DOMAIN new : \E o \in pieces :
    DOMAIN new[i] = DOMAIN o /\ \A f \in DOMAIN o \ {"cut", "bytes"} : new[i][f] = o[f]

Pieces(ring) == {ring[i] : i \in DOMAIN ring}

LEMMA YoungestKeeps ==
  ASSUME NEW ring, IsRing(ring), NEW room
  PROVE  IsRing(Youngest(ring, room)) /\ MadeOf(Youngest(ring, room), Pieces(ring))
<1> DEFINE g == Gone(ring, room)
           n == Len(ring)
           y == Youngest(ring, room)
           c(k) == ring[g + k].cut \/ Left(ring, room, g + k) < ring[g + k].bytes
           b(k) == Left(ring, room, g + k)
<1>1. y = [k \in 1 .. n - g |-> [ring[g + k] EXCEPT !.cut = c(k), !.bytes = b(k)]]
  BY YoungestIs
<1>2. n \in Nat /\ g \in 0 .. n /\ n - g \in Nat /\ DOMAIN ring = 1 .. n
  BY GoneRange DEF IsRing
<1> HIDE DEF g, n, y, c, b
<1>3. DOMAIN y = 1 .. n - g
  BY <1>1
<1>4. IsRing(y)
  <2> DEFINE m == n - g
             e(k) == [ring[g + k] EXCEPT !.cut = c(k), !.bytes = b(k)]
  <2>1. m \in Nat /\ y = [k \in 1 .. m |-> e(k)]
    BY <1>1, <1>2
  <2> HIDE DEF m, e
  <2>2. Len(y) = m
    BY <2>1
  <2>3. QED
    BY <2>1, <2>2 DEF IsRing
<1>5. ASSUME NEW k \in DOMAIN y
      PROVE  \E o \in Pieces(ring) :
               DOMAIN y[k] = DOMAIN o /\ \A f \in DOMAIN o \ {"cut", "bytes"} : y[k][f] = o[f]
  <2>1. g + k \in DOMAIN ring
    BY <1>2, <1>3
  <2>2. ring[g + k] \in Pieces(ring)
    BY <2>1 DEF Pieces
  <2>3. y[k] = [ring[g + k] EXCEPT !.cut = c(k), !.bytes = b(k)]
    BY <1>1, <1>3
  <2>4. DOMAIN y[k] = DOMAIN ring[g + k]
    BY <2>3
  <2>5. \A f \in DOMAIN ring[g + k] \ {"cut", "bytes"} : y[k][f] = ring[g + k][f]
    BY <2>3
  <2>6. QED
    BY <2>2, <2>4, <2>5
<1>6. MadeOf(y, Pieces(ring))
  BY <1>5 DEF MadeOf
<1>7. QED
  BY <1>4, <1>6 DEF y

LEMMA IntoIs ==
  ASSUME NEW ring, IsRing(ring), NEW piece, NEW size
  PROVE  /\ IsRing(Into(ring, piece, size))
         /\ MadeOf(Into(ring, piece, size), Pieces(ring) \cup {piece})
<1> DEFINE new == Into(ring, piece, size)
           all == Pieces(ring) \cup {piece}
<1>1. CASE new = ring
  <2>1. \A i \in DOMAIN ring : ring[i] \in Pieces(ring)
    BY DEF Pieces
  <2>2. MadeOf(ring, all)
    BY <2>1 DEF MadeOf
  <2>3. QED
    BY <1>1, <2>2
<1>2. CASE new = Append(Youngest(ring, size - piece.bytes), piece)
  <2> DEFINE y == Youngest(ring, size - piece.bytes)
  <2>1. IsRing(y) /\ MadeOf(y, Pieces(ring))
    BY YoungestKeeps
  <2> HIDE DEF y
  <2>2. /\ IsRing(Append(y, piece)) /\ Len(Append(y, piece)) = Len(y) + 1
        /\ DOMAIN Append(y, piece) = 1 .. Len(y) + 1
        /\ \A i \in 1 .. Len(y) : Append(y, piece)[i] = y[i]
        /\ Append(y, piece)[Len(y) + 1] = piece
    BY <2>1, AppendRing
  <2>3. MadeOf(Append(y, piece), all)
    <3> SUFFICES ASSUME NEW i \in 1 .. Len(y) + 1
                 PROVE  \E o \in all : /\ DOMAIN Append(y, piece)[i] = DOMAIN o
                                       /\ \A f \in DOMAIN o \ {"cut", "bytes"} :
                                            Append(y, piece)[i][f] = o[f]
      BY <2>2 DEF MadeOf
    <3>1. CASE i \in 1 .. Len(y)
      <4>1. i \in DOMAIN y
        BY <2>1, <3>1 DEF IsRing
      <4>2. PICK o \in Pieces(ring) :
              DOMAIN y[i] = DOMAIN o /\ \A f \in DOMAIN o \ {"cut", "bytes"} : y[i][f] = o[f]
        BY <2>1, <4>1 DEF MadeOf
      <4>3. QED
        BY <2>2, <3>1, <4>2
    <3>2. CASE i = Len(y) + 1
      BY <2>2, <3>2
    <3>3. QED
      BY <2>1, <3>1, <3>2 DEF IsRing
  <2>4. QED
    BY <1>2, <2>2, <2>3 DEF y
<1>3. CASE new = <<[piece EXCEPT !.cut = @ \/ piece.bytes > size, !.bytes = size]>>
  <2> DEFINE c == piece.cut \/ piece.bytes > size
             p == [piece EXCEPT !.cut = c, !.bytes = size]
  <2>1. DOMAIN p = DOMAIN piece /\ \A f \in DOMAIN piece \ {"cut", "bytes"} : p[f] = piece[f]
    BY Zenon
  <2>2. new = <<p>>
    BY <1>3
  <2> HIDE DEF new, p
  <2>3. /\ IsRing(new) /\ DOMAIN new = {1} /\ new[1] = p
    BY <2>2 DEF IsRing
  <2>4. MadeOf(new, all)
    BY <2>1, <2>3 DEF MadeOf
  <2>5. QED
    BY <2>3, <2>4 DEF new
<1>4. QED
  BY <1>1, <1>2, <1>3 DEF Into

(* The last piece of a ring that took one is that one; it is cut only if it  *)
(* is longer than the ring.                                                 *)
LastPiece(ring) == ring[Len(ring)]
CutTo(piece, size) == [piece EXCEPT !.cut = @ \/ piece.bytes > size, !.bytes = size]
LEMMA IntoLast ==
  ASSUME NEW ring, IsRing(ring), NEW piece, NEW size
  PROVE  \/ Into(ring, piece, size) = ring
         \/ LastPiece(Into(ring, piece, size)) = piece
         \/ /\ ~(piece.bytes < size)
            /\ LastPiece(Into(ring, piece, size)) = CutTo(piece, size)
<1> DEFINE new == Into(ring, piece, size)
<1>1. CASE new = Append(Youngest(ring, size - piece.bytes), piece)
  <2> DEFINE y == Youngest(ring, size - piece.bytes)
  <2>1. IsRing(y)
    BY YoungestKeeps
  <2> HIDE DEF y
  <2>2. Append(y, piece)[Len(Append(y, piece))] = piece
    BY <2>1, AppendRing
  <2>3. QED
    BY <1>1, <2>2 DEF y, LastPiece
<1>2. CASE /\ ~(piece.bytes < size)
           /\ new = <<CutTo(piece, size)>>
  <2> DEFINE p == CutTo(piece, size)
  <2>1. new = <<p>>
    BY <1>2
  <2> HIDE DEF p, new
  <2>2. LastPiece(new) = p
    BY <2>1 DEF LastPiece
  <2>3. QED
    BY <1>2, <2>2 DEF p, new
<1>3. QED
  BY <1>1, <1>2 DEF Into, CutTo
-----------------------------------------------------------------------------
(* The queue of signals. *)
Signal == [sig : {"CONSOLE_RX", "CONSOLE_TX", "CONSOLE_TX_RAW"}, par : Parties]

HasTx(q) == \E i \in DOMAIN q : IsTx(q[i])
HasRx(q) == \E i \in DOMAIN q : ~IsTx(q[i])
AllOf(q, p) == \A i \in DOMAIN q : q[i].par = p

(* The first answer that waits is one for p. *)
FirstTxIs(q, p) ==
  \E i \in DOMAIN q : /\ IsTx(q[i]) /\ q[i].par = p
                      /\ \A j \in 1 .. i - 1 : ~IsTx(q[j])

LEMMA PostedKeeps ==
  ASSUME NEW q \in Seq(Signal), NEW sig \in {"CONSOLE_RX", "CONSOLE_TX", "CONSOLE_TX_RAW"},
         NEW par \in Parties
  PROVE  /\ Posted(q, sig, par) \in Seq(Signal)
         /\ HasTx(q) => HasTx(Posted(q, sig, par))
         /\ HasRx(q) => HasRx(Posted(q, sig, par))
         /\ AllOf(q, par) => AllOf(Posted(q, sig, par), par)
         /\ \A p : FirstTxIs(q, p) => FirstTxIs(Posted(q, sig, par), p)
<1> DEFINE s == [sig |-> sig, par |-> par]
           new == Posted(q, sig, par)
<1>1. CASE Full(q)
  <2>1. new = q
    BY <1>1 DEF Posted
  <2>2. QED
    BY <2>1
<1>2. CASE ~Full(q)
  <2>1. new = Append(q, s)
    BY <1>2 DEF Posted
  <2>2. s \in Signal /\ s.par = par
    BY DEF Signal
  <2> HIDE DEF s, new
  <2>3. /\ new \in Seq(Signal) /\ Len(q) \in Nat
        /\ DOMAIN q = 1 .. Len(q) /\ DOMAIN new = 1 .. Len(q) + 1
        /\ \A i \in 1 .. Len(q) : new[i] = q[i]
        /\ new[Len(q) + 1] = s
    BY <2>1, <2>2
  <2>4. HasTx(q) => HasTx(new)
    BY <2>3 DEF HasTx
  <2>5. HasRx(q) => HasRx(new)
    BY <2>3 DEF HasRx
  <2>6. AllOf(q, par) => AllOf(new, par)
    BY <2>2, <2>3 DEF AllOf
  <2>7. ASSUME NEW p, FirstTxIs(q, p) PROVE FirstTxIs(new, p)
    <3>1. PICK i \in DOMAIN q : /\ IsTx(q[i]) /\ q[i].par = p
                                /\ \A j \in 1 .. i - 1 : ~IsTx(q[j])
      BY <2>7 DEF FirstTxIs
    <3>2. i \in DOMAIN new /\ new[i] = q[i] /\ \A j \in 1 .. i - 1 : new[j] = q[j]
      BY <2>3
    <3>3. QED
      BY <3>1, <3>2 DEF FirstTxIs
  <2>8. QED
    BY <2>3, <2>4, <2>5, <2>6, <2>7 DEF new
<1>3. QED
  BY <1>1, <1>2

LEMMA PostedTells ==
  ASSUME NEW q \in Seq(Signal), NEW sig \in {"CONSOLE_RX", "CONSOLE_TX", "CONSOLE_TX_RAW"},
         NEW par \in Parties, ~Full(q)
  PROVE  /\ sig = "CONSOLE_RX" => HasRx(Posted(q, sig, par))
         /\ sig # "CONSOLE_RX" => HasTx(Posted(q, sig, par))
         /\ sig # "CONSOLE_RX" /\ ~HasTx(q) => FirstTxIs(Posted(q, sig, par), par)
<1> DEFINE s == [sig |-> sig, par |-> par]
           new == Posted(q, sig, par)
<1>1. new = Append(q, s)
  BY DEF Posted
<1>2. s \in Signal /\ s.par = par /\ (IsTx(s) <=> sig # "CONSOLE_RX")
  BY DEF Signal, IsTx
<1> HIDE DEF s, new
<1>3. /\ Len(q) \in Nat /\ DOMAIN q = 1 .. Len(q) /\ DOMAIN new = 1 .. Len(q) + 1
      /\ \A i \in 1 .. Len(q) : new[i] = q[i]
      /\ new[Len(q) + 1] = s
  BY <1>1, <1>2
<1>4. sig = "CONSOLE_RX" => HasRx(new)
  BY <1>2, <1>3 DEF HasRx
<1>5. sig # "CONSOLE_RX" => HasTx(new)
  BY <1>2, <1>3 DEF HasTx
<1>6. ASSUME sig # "CONSOLE_RX", ~HasTx(q) PROVE FirstTxIs(new, par)
  <2>1. \A j \in 1 .. (Len(q) + 1) - 1 : ~IsTx(new[j])
    BY <1>3, <1>6 DEF HasTx
  <2>2. Len(q) + 1 \in DOMAIN new /\ IsTx(new[Len(q) + 1]) /\ new[Len(q) + 1].par = par
    BY <1>2, <1>3, <1>6
  <2>3. QED
    BY <2>1, <2>2 DEF FirstTxIs
<1>7. QED
  BY <1>4, <1>5, <1>6 DEF new

LEMMA TailKeeps ==
  ASSUME NEW q \in Seq(Signal), q # <<>>
  PROVE  /\ Tail(q) \in Seq(Signal) /\ Head(q) \in Signal
         /\ \A p : AllOf(q, p) => Head(q).par = p /\ AllOf(Tail(q), p)
         /\ IsTx(Head(q)) /\ HasRx(q) => HasRx(Tail(q))
         /\ ~IsTx(Head(q)) /\ HasTx(q) => HasTx(Tail(q))
         /\ \A p : ~IsTx(Head(q)) /\ FirstTxIs(q, p) => FirstTxIs(Tail(q), p)
<1> DEFINE t == Tail(q)
<1>1. /\ t \in Seq(Signal) /\ Head(q) \in Signal /\ Head(q) = q[1]
      /\ Len(q) \in Nat /\ Len(q) >= 1 /\ DOMAIN q = 1 .. Len(q)
      /\ DOMAIN t = 1 .. Len(q) - 1
      /\ \A i \in 1 .. Len(q) - 1 : t[i] = q[i + 1]
  OBVIOUS
<1> HIDE DEF t
<1>2. ASSUME NEW i \in DOMAIN q, i # 1 PROVE i - 1 \in DOMAIN t /\ t[i - 1] = q[i]
  BY <1>1, <1>2
<1>3. ASSUME NEW p, AllOf(q, p) PROVE Head(q).par = p /\ AllOf(t, p)
  <2>1. \A i \in DOMAIN t : i + 1 \in DOMAIN q /\ t[i] = q[i + 1]
    BY <1>1
  <2>2. 1 \in DOMAIN q
    BY <1>1
  <2>3. QED
    BY <1>1, <1>3, <2>1, <2>2 DEF AllOf
<1>4. ASSUME IsTx(q[1]), HasRx(q) PROVE HasRx(t)
  BY <1>2, <1>4 DEF HasRx
<1>5. ASSUME ~IsTx(q[1]), HasTx(q) PROVE HasTx(t)
  BY <1>2, <1>5 DEF HasTx
<1>6. ASSUME NEW p, ~IsTx(q[1]), FirstTxIs(q, p) PROVE FirstTxIs(t, p)
  <2>1. PICK i \in DOMAIN q : /\ IsTx(q[i]) /\ q[i].par = p
                              /\ \A j \in 1 .. i - 1 : ~IsTx(q[j])
    BY <1>6 DEF FirstTxIs
  <2>2. i # 1
    BY <1>6, <2>1
  <2>3. i - 1 \in DOMAIN t /\ t[i - 1] = q[i]
    BY <1>2, <2>2
  <2>4. \A j \in 1 .. (i - 1) - 1 : ~IsTx(t[j])
    <3> SUFFICES ASSUME NEW j \in 1 .. (i - 1) - 1 PROVE ~IsTx(t[j])
      OBVIOUS
    <3>1. j \in 1 .. Len(q) - 1 /\ j + 1 \in 1 .. i - 1
      BY <1>1
    <3>2. QED
      BY <1>1, <2>1, <3>1
  <2>5. QED
    BY <2>1, <2>3, <2>4 DEF FirstTxIs
<1>7. QED
  BY <1>1, <1>3, <1>4, <1>5, <1>6 DEF t
-----------------------------------------------------------------------------
(* The parts of the invariant. *)
TypeOf(q, conn, deny, quits) ==
  q \in Seq(Signal) /\ conn \in Parties /\ deny \in Parties /\ quits \in BOOLEAN

(* The serial line, telnet, MQTT: a line that was ended has a signal. *)
HasLine(ring) == \E i \in DOMAIN ring : ring[i].ended
IsInput(ring) == IsRing(ring) /\ \A i \in DOMAIN ring : "ended" \in DOMAIN ring[i]
RxTold(ring, q, missing) ==
  IsInput(ring) /\ (HasLine(ring) => "RX" \in missing \/ HasRx(q))

(* What was answered is sent, but for the text of an update that failed. *)
HasAnswer(ring) == \E i \in DOMAIN ring : ring[i].what # "failed"
IsOutput(ring) == IsRing(ring) /\ \A i \in DOMAIN ring : "what" \in DOMAIN ring[i]
TxTold(ring, q, missing) ==
  IsOutput(ring) /\ (HasAnswer(ring) => "TX" \in missing \/ HasTx(q))

(* The youngest answer is not a help that was cut: what cuts one is behind it. *)
HelpWhole(ring) ==
  IsRing(ring) /\ ~(ring # <<>> /\ LastPiece(ring).what = "help" /\ LastPiece(ring).cut)

(* What waits for p alone: signals, and answers that come late, but for those *)
(* of nslookup, which does not note who asked.                              *)
Mine(p, q, asked, conn) ==
  AllOf(q, p) /\ \A a \in asked : a # <<"nslookup">> => conn = p
OneUser(u, q, asked, conn) == u \in Parties => Mine(u, q, asked, conn)

QuitFirst(quits, who, q) == quits /\ who # "many" => FirstTxIs(q, who)

IInv ==
  /\ TypeOf(queue, currentconn, deny_cb_conn, disconnect)
  /\ RxTold(rx, queue, lost)
  /\ TxTold(tx, queue, lost)
  /\ HelpWhole(tx)
  /\ OneUser(user, queue, asks, currentconn)
  /\ QuitFirst(disconnect, quitter, queue)

LEMMA NoParty == "many" \notin Parties /\ "nobody" \notin Parties /\ Serial \in Parties
BY ConsoleAssumption DEF Parties, Serial

LEMMA EmptyRing ==
  /\ IsRing(<<>>) /\ IsInput(<<>>) /\ ~HasLine(<<>>) /\ HelpWhole(<<>>)
  /\ IsOutput(<<>>) /\ ~HasAnswer(<<>>)
BY DEF IsRing, IsInput, HasLine, HelpWhole, IsOutput, HasAnswer

(* What is typed: a piece that may have been garbled. *)
LEMMA IntoInput ==
  ASSUME NEW ring, IsInput(ring), NEW p, "ended" \in DOMAIN p, NEW size
  PROVE  /\ IsInput(Into(ring, p, size))
         /\ HasLine(Into(ring, p, size)) => p.ended \/ HasLine(ring)
<1> DEFINE new == Into(ring, p, size)
<1>2. IsRing(new) /\ MadeOf(new, Pieces(ring) \cup {p})
  BY IntoIs DEF IsInput
<1> HIDE DEF new
<1>3. ASSUME NEW i \in DOMAIN new
      PROVE  /\ "ended" \in DOMAIN new[i]
             /\ new[i].ended => p.ended \/ HasLine(ring)
  <2>1. PICK o \in Pieces(ring) \cup {p} :
          DOMAIN new[i] = DOMAIN o /\ \A f \in DOMAIN o \ {"cut", "bytes"} : new[i][f] = o[f]
    BY <1>2, <1>3 DEF MadeOf
  <2>2. "ended" \in DOMAIN o
    BY DEF IsInput, Pieces
  <2>3. "ended" \notin {"cut", "bytes"}
    OBVIOUS
  <2>4. new[i].ended = o.ended
    BY <2>1, <2>2, <2>3
  <2>5. o.ended => p.ended \/ HasLine(ring)
    BY DEF HasLine, Pieces
  <2>6. QED
    BY <2>1, <2>2, <2>4, <2>5
<1>4. QED
  BY <1>2, <1>3 DEF IsInput, HasLine, new

LEMMA OnePiece ==
  ASSUME NEW p, "ended" \in DOMAIN p
  PROVE  IsInput(<<p>>) /\ (HasLine(<<p>>) => p.ended)
<1> DEFINE r == <<p>>
<1>1. Len(r) = 1 /\ DOMAIN r = {1} /\ r[1] = p /\ IsRing(r)
  BY DEF IsRing
<1> HIDE DEF r
<1>2. IsInput(r) /\ (HasLine(r) => p.ended)
  BY <1>1 DEF IsInput, HasLine
<1>3. QED
  BY <1>2 DEF r

LEMMA TypedIs ==
  ASSUME NEW word, NEW ended \in BOOLEAN
  PROVE  "ended" \in DOMAIN Typed(word, ended) /\ (Typed(word, ended).ended <=> ended)
BY DEF Typed

LEMMA GarbledIs ==
  ASSUME NEW ended \in BOOLEAN
  PROVE  "ended" \in DOMAIN Garbled(ended) /\ (Garbled(ended).ended <=> ended)
<1> DEFINE p == Typed("half", ended)
<1>1. "ended" \in DOMAIN p /\ (p.ended <=> ended)
  BY TypedIs
<1>2. Garbled(ended) = [p EXCEPT !.cut = TRUE]
  BY DEF Garbled
<1> HIDE DEF p
<1>3. QED
  BY <1>1, <1>2

LEMMA RestIs ==
  ASSUME NEW p, "ended" \in DOMAIN p, NEW room
  PROVE  IsInput(Rest(p, room)) /\ (HasLine(Rest(p, room)) => p.ended)
<1> DEFINE r == [p EXCEPT !.cut = TRUE, !.bytes = room]
<1>1. "ended" \in DOMAIN r /\ r.ended = p.ended
  OBVIOUS
<1>2. Rest(p, room) = <<r>> \/ Rest(p, room) = <<>>
  BY DEF Rest
<1> HIDE DEF r
<1>3. IsInput(<<r>>) /\ (HasLine(<<r>>) => p.ended)
  BY <1>1, OnePiece
<1>4. QED
  BY <1>2, <1>3, EmptyRing

(* The task is told of a line that has ended. *)
LEMMA LineKeeps ==
  ASSUME NEW q \in Seq(Signal), NEW missing, NEW ended \in BOOLEAN, NEW from \in Parties
  PROVE  /\ LineTold(q, ended, from) \in Seq(Signal)
         /\ HasTx(q) => HasTx(LineTold(q, ended, from))
         /\ HasRx(q) => HasRx(LineTold(q, ended, from))
         /\ AllOf(q, from) => AllOf(LineTold(q, ended, from), from)
         /\ \A p : FirstTxIs(q, p) => FirstTxIs(LineTold(q, ended, from), p)
         /\ \A m \in missing : m \in LineLost(q, missing, ended)
         /\ ended => \/ "RX" \in LineLost(q, missing, ended)
                     \/ HasRx(LineTold(q, ended, from))
<1>1. \A m \in missing : m \in LineLost(q, missing, ended)
  BY DEF LineLost
<1>2. CASE ended
  <2>1. LineTold(q, ended, from) = Posted(q, "CONSOLE_RX", from)
    BY <1>2 DEF LineTold
  <2>2. "RX" \in LineLost(q, missing, ended) \/ HasRx(LineTold(q, ended, from))
    <3>1. CASE Full(q)
      BY <1>2, <3>1 DEF LineLost
    <3>2. CASE ~Full(q)
      BY <2>1, <3>2, PostedTells
    <3>3. QED
      BY <3>1, <3>2
  <2>3. QED
    BY <1>1, <2>1, <2>2, PostedKeeps
<1>3. CASE ~ended
  <2>1. LineTold(q, ended, from) = q
    BY <1>3 DEF LineTold
  <2>2. QED
    BY <1>1, <1>3, <2>1
<1>4. QED
  BY <1>2, <1>3

(* What is answered. *)
LEMMA WrittenKeeps ==
  ASSUME HelpWhole(tx), NEW what, NEW bytes, what = "help" => bytes = Help,
         Written(what, bytes)
  PROVE  /\ HelpWhole(tx')
         /\ IsOutput(tx) => IsOutput(tx')
         /\ IsOutput(tx) /\ what = "failed" /\ HasAnswer(tx') => HasAnswer(tx)
<1> DEFINE p == [what |-> what, bytes |-> bytes, cut |-> FALSE]
<1>1. tx' = Into(tx, p, MAX_CON_SEND_SIZE)
  BY DEF Written
<1>2. p.what = what /\ p.bytes = bytes /\ ~p.cut
      /\ DOMAIN p = {"what", "bytes", "cut"}
  OBVIOUS
<1> HIDE DEF p
<1>3. IsRing(tx') /\ MadeOf(tx', Pieces(tx) \cup {p})
  BY <1>1, IntoIs DEF HelpWhole
<1>4. \/ tx' = tx
      \/ LastPiece(tx') = p
      \/ /\ ~(p.bytes < MAX_CON_SEND_SIZE)
         /\ LastPiece(tx') = CutTo(p, MAX_CON_SEND_SIZE)
  BY <1>1, IntoLast DEF HelpWhole
<1>5. ASSUME tx' = tx PROVE HelpWhole(tx')
  BY <1>5
<1>6. ASSUME LastPiece(tx') = p PROVE HelpWhole(tx')
  BY <1>2, <1>3, <1>6 DEF HelpWhole
<1>7. ASSUME ~(p.bytes < MAX_CON_SEND_SIZE), LastPiece(tx') = CutTo(p, MAX_CON_SEND_SIZE)
      PROVE  HelpWhole(tx')
  <2>1. what # "help"
    BY <1>2, <1>7 DEF Help, MAX_CON_SEND_SIZE
  <2>2. LastPiece(tx').what = what
    BY <1>2, <1>7 DEF CutTo
  <2>3. QED
    BY <1>3, <2>1, <2>2 DEF HelpWhole
<1>8. HelpWhole(tx')
  BY <1>4, <1>5, <1>6, <1>7
<1>9. ASSUME IsOutput(tx), NEW i \in DOMAIN tx'
      PROVE  /\ "what" \in DOMAIN tx'[i]
             /\ (what = "failed" /\ tx'[i].what # "failed") => HasAnswer(tx)
  <2>1. PICK o \in Pieces(tx) \cup {p} :
          DOMAIN tx'[i] = DOMAIN o /\ \A f \in DOMAIN o \ {"cut", "bytes"} : tx'[i][f] = o[f]
    BY <1>3, <1>9 DEF MadeOf
  <2>2. "what" \in DOMAIN o
    BY <1>2, <1>9 DEF IsOutput, Pieces
  <2>3. "what" \notin {"cut", "bytes"}
    OBVIOUS
  <2>4. tx'[i].what = o.what
    BY <2>1, <2>2, <2>3
  <2>5. o.what # "failed" /\ what = "failed" => HasAnswer(tx)
    BY <1>2 DEF HasAnswer, Pieces
  <2>6. QED
    BY <2>1, <2>2, <2>4, <2>5
<1>10. QED
  BY <1>3, <1>8, <1>9 DEF IsOutput, HasAnswer

(* ... and the task is told. *)
LEMMA TellKeeps ==
  ASSUME NEW q \in Seq(Signal), NEW par \in Parties, NEW missing,
         NEW sig \in {"CONSOLE_TX", "CONSOLE_TX_RAW"}, Tell(q, missing, sig, par)
  PROVE  /\ queue' \in Seq(Signal)
         /\ "TX" \in lost' \/ HasTx(queue')
         /\ HasRx(q) => HasRx(queue')
         /\ \A m \in missing : m \in lost'
         /\ AllOf(q, par) => AllOf(queue', par)
         /\ \A p : FirstTxIs(q, p) => FirstTxIs(queue', p)
         /\ ~Full(q) /\ ~HasTx(q) => FirstTxIs(queue', par)
<1>1. queue' = Posted(q, sig, par)
  BY DEF Tell
<1>2. "TX" \in lost' \/ HasTx(queue')
  <2>1. CASE Full(q)
    BY <2>1 DEF Tell
  <2>2. CASE ~Full(q)
    BY <1>1, <2>2, PostedTells
  <2>3. QED
    BY <2>1, <2>2
<1>3. \A m \in missing : m \in lost'
  BY DEF Tell
<1>4. ~Full(q) /\ ~HasTx(q) => FirstTxIs(queue', par)
  BY <1>1, PostedTells
<1>5. QED
  BY <1>1, <1>2, <1>3, <1>4, PostedKeeps

(* A command: q is the queue without its signal. *)
LEMMA HandleKeeps ==
  ASSUME NEW q, NEW ring, NEW left, NEW par \in Parties, NEW missing,
         TypeOf(q, currentconn, deny_cb_conn, disconnect),
         RxTold(left, q, missing),
         TxTold(tx, q, missing), HelpWhole(tx), QuitFirst(disconnect, quitter, q),
         Handle(ring, left, par, q, missing)
  PROVE  /\ TypeOf(queue', currentconn', deny_cb_conn', disconnect')
         /\ RxTold(rx', queue', lost')
         /\ TxTold(tx', queue', lost')
         /\ HelpWhole(tx')
         /\ Mine(par, q, asks, currentconn) => Mine(par, queue', asks', currentconn')
         /\ QuitFirst(disconnect', quitter', queue')
<1> DEFINE cmd == Command(ring)
           more == MoreArguments(ring)
<1> HIDE DEF cmd, more
<1>1. rx' = left /\ deny_cb_conn' = deny_cb_conn
  BY DEF Handle
<1>3. q \in Seq(Signal) /\ deny_cb_conn' \in Parties
  BY <1>1 DEF TypeOf
<1>4. ASSUME NEW bytes, Answer(par, q, missing, cmd, bytes), cmd = "help" => bytes = Help
      PROVE  /\ queue' \in Seq(Signal) /\ HelpWhole(tx') /\ TxTold(tx', queue', lost')
             /\ RxTold(rx', queue', lost')
             /\ AllOf(q, par) => AllOf(queue', par)
             /\ \A p : FirstTxIs(q, p) => FirstTxIs(queue', p)
             /\ ~Full(q) /\ ~HasTx(q) => FirstTxIs(queue', par)
  <2>1. Written(cmd, bytes) /\ Tell(q, missing, "CONSOLE_TX", par)
    BY <1>4 DEF Answer
  <2>2. HelpWhole(tx') /\ IsOutput(tx')
    BY <1>4, <2>1, WrittenKeeps DEF TxTold
  <2>3. "CONSOLE_TX" \in {"CONSOLE_TX", "CONSOLE_TX_RAW"}
    OBVIOUS
  <2>4. QED
    BY <1>1, <1>3, <2>1, <2>2, <2>3, TellKeeps DEF TxTold, RxTold
<1>5. ASSUME Later(q, missing)
      PROVE  /\ queue' = q /\ HelpWhole(tx') /\ TxTold(tx', queue', lost')
             /\ RxTold(rx', queue', lost')
  BY <1>1, <1>5 DEF Later
<1>6. CASE Plain(par, q, missing, cmd, more)
  <2>1. PICK bytes \in Answers(cmd, more) : Answer(par, q, missing, cmd, bytes)
    BY <1>6 DEF Plain
  <2>2. cmd = "help" => bytes = Help
    BY <2>1 DEF Answers
  <2>3. UNCHANGED <<currentconn, asks, acl_debug, disconnect, quitter>>
    BY <1>6 DEF Plain
  <2>4. QED
    BY <1>3, <1>4, <2>1, <2>2, <2>3 DEF TypeOf, Mine, QuitFirst
<1>7. CASE AclDebug(par, q, missing, cmd)
  <2>1. Answer(par, q, missing, cmd, Line) /\ cmd # "help"
    BY <1>7 DEF AclDebug
  <2>2. UNCHANGED <<currentconn, asks, disconnect, quitter>>
    BY <1>7 DEF AclDebug
  <2>3. QED
    BY <1>3, <1>4, <2>1, <2>2 DEF TypeOf, Mine, QuitFirst
<1>8. CASE Quit(par, q, missing, cmd)
  <2>1. Answer(par, q, missing, cmd, Line) /\ cmd # "help" /\ disconnect' = TRUE
    BY <1>8 DEF Quit
  <2>2. UNCHANGED <<currentconn, asks, acl_debug>>
    BY <1>8 DEF Quit
  <2>3. quitter' = "many" \/ (quitter' = par /\ ~Full(q) /\ ~HasTx(q))
    BY <1>8 DEF Quit, HasTx
  <2>4. QuitFirst(disconnect', quitter', queue')
    BY <1>4, <2>1, <2>3 DEF QuitFirst
  <2>5. QED
    BY <1>3, <1>4, <2>1, <2>2, <2>4 DEF TypeOf, Mine
<1>9. CASE NsLookup(par, q, missing, cmd, more)
  <2>1. UNCHANGED <<currentconn, acl_debug, disconnect, quitter>> /\ cmd # "help"
    BY <1>9 DEF NsLookup
  <2>2. CASE Answer(par, q, missing, cmd, Line) /\ UNCHANGED asks
    BY <1>3, <1>4, <2>1, <2>2 DEF TypeOf, Mine, QuitFirst
  <2>3. CASE Later(q, missing) /\ asks' = asks \cup {<<"nslookup">>}
    BY <1>3, <1>5, <2>1, <2>3 DEF TypeOf, Mine, QuitFirst
  <2>4. QED
    BY <1>9, <2>2, <2>3 DEF NsLookup
<1>10. CASE Ping(par, q, missing, cmd, more)
  <2>1. /\ currentconn' = par /\ UNCHANGED <<acl_debug, disconnect, quitter>>
        /\ cmd # "help"
    BY <1>10 DEF Ping
  <2>2. ASSUME NEW bytes, Answer(par, q, missing, cmd, bytes) PROVE
          /\ TypeOf(queue', currentconn', deny_cb_conn', disconnect')
          /\ RxTold(rx', queue', lost') /\ TxTold(tx', queue', lost') /\ HelpWhole(tx')
          /\ Mine(par, q, asks, currentconn) => Mine(par, queue', asks', currentconn')
          /\ QuitFirst(disconnect', quitter', queue')
    BY <1>3, <1>4, <2>1, <2>2 DEF TypeOf, Mine, QuitFirst
  <2>3. CASE Later(q, missing)
    BY <1>3, <1>5, <2>1, <2>3 DEF TypeOf, Mine, QuitFirst
  <2>4. QED
    BY <1>10, <2>2, <2>3 DEF Ping
<1>11. CASE Scan(par, q, missing, cmd)
  <2>1. /\ currentconn' = par /\ UNCHANGED <<acl_debug, disconnect, quitter>>
        /\ cmd # "help" /\ Answer(par, q, missing, cmd, 13)
    BY <1>11 DEF Scan
  <2>2. QED
    BY <1>3, <1>4, <2>1 DEF TypeOf, Mine, QuitFirst
<1>12. CASE Update(par, q, missing, cmd)
  <2>1. /\ currentconn' = par /\ UNCHANGED <<acl_debug, disconnect, quitter>>
        /\ cmd # "help" /\ Answer(par, q, missing, cmd, Line)
    BY <1>12 DEF Update
  <2>2. QED
    BY <1>3, <1>4, <2>1 DEF TypeOf, Mine, QuitFirst
<1>13. QED
  BY <1>6, <1>7, <1>8, <1>9, <1>10, <1>11, <1>12 DEF Handle, cmd, more

(* An answer that comes late, for who asked last. *)
LEMMA LateKeeps ==
  ASSUME IInv, NEW sig \in {"CONSOLE_TX", "CONSOLE_TX_RAW"}, NEW bytes,
         LateAnswer(sig, bytes),
         user' \in Parties => user' = user /\ currentconn = user,
         \A a \in asks' : a # <<"nslookup">> /\ user \in Parties => currentconn = user
  PROVE  IInv'
<1>1. /\ Written("late", bytes) /\ Tell(queue, lost, sig, currentconn)
      /\ rx' = rx /\ currentconn' = currentconn /\ deny_cb_conn' = deny_cb_conn
      /\ disconnect' = disconnect /\ quitter' = quitter
  BY DEF LateAnswer
<1>2. queue \in Seq(Signal) /\ currentconn \in Parties
  BY DEF IInv, TypeOf
<1>3. /\ queue' \in Seq(Signal)
      /\ "TX" \in lost' \/ HasTx(queue')
      /\ HasRx(queue) => HasRx(queue')
      /\ \A m \in lost : m \in lost'
      /\ AllOf(queue, currentconn) => AllOf(queue', currentconn)
      /\ \A p : FirstTxIs(queue, p) => FirstTxIs(queue', p)
  BY <1>1, <1>2, TellKeeps
<1>4. HelpWhole(tx') /\ IsOutput(tx')
  BY <1>1, WrittenKeeps DEF IInv, TxTold
<1>5. TypeOf(queue, currentconn, deny_cb_conn, disconnect)'
  BY <1>1, <1>3 DEF IInv, TypeOf
<1>6. RxTold(rx, queue, lost)'
  BY <1>1, <1>3 DEF IInv, RxTold
<1>7. TxTold(tx, queue, lost)'
  BY <1>3, <1>4 DEF TxTold
<1>8. OneUser(user, queue, asks, currentconn)'
  BY <1>1, <1>3 DEF IInv, OneUser, Mine
<1>9. QuitFirst(disconnect, quitter, queue)'
  BY <1>1, <1>3 DEF IInv, QuitFirst
<1>10. QED
  BY <1>4, <1>5, <1>6, <1>7, <1>8, <1>9 DEF IInv

(* Who comes to the console that nobody uses finds nothing of another. *)
LEMMA UsedByKeeps ==
  ASSUME IInv, NEW p \in Parties, UsedBy(p)
  PROVE  /\ user' \in Parties => user' = p
         /\ user' \in Parties => Mine(p, queue, asks, currentconn)
<1>1. CASE Quiet
  <2>1. queue = <<>> /\ asks = {}
    BY <1>1 DEF Quiet
  <2>2. Mine(p, queue, asks, currentconn)
    BY <2>1 DEF Mine, AllOf
  <2>3. QED
    BY <1>1, <2>2 DEF UsedBy
<1>2. CASE user = p
  BY <1>2 DEF UsedBy, IInv, OneUser
<1>3. CASE ~Quiet /\ user # p
  BY <1>3, NoParty DEF UsedBy
<1>4. QED
  BY <1>1, <1>2, <1>3

LEMMA InputKeeps ==
  ASSUME IInv, NEW par \in Parties, NEW word, NEW ended \in BOOLEAN,
         Typing(par, word, ended)
  PROVE  IInv'
<1>0. /\ UsedBy(par)
      /\ rx' = Into(rx, Typed(word, ended), MAX_CON_CMD_SIZE)
      /\ queue' = LineTold(queue, ended, par) /\ lost' = LineLost(queue, lost, ended)
      /\ UNCHANGED <<tx, sdkVars, disconnect, quitter>>
  BY DEF Typing
<1>1. queue \in Seq(Signal)
  BY DEF IInv, TypeOf
<1>2. /\ queue' \in Seq(Signal)
      /\ HasTx(queue) => HasTx(queue')
      /\ HasRx(queue) => HasRx(queue')
      /\ AllOf(queue, par) => AllOf(queue', par)
      /\ \A p : FirstTxIs(queue, p) => FirstTxIs(queue', p)
      /\ ended => "RX" \in lost' \/ HasRx(queue')
      /\ \A m \in lost : m \in lost'
  BY <1>0, <1>1, LineKeeps
<1>3. IsInput(rx') /\ (HasLine(rx') => ended \/ HasLine(rx))
  BY <1>0, IntoInput, TypedIs DEF IInv, RxTold
<1>4. /\ tx' = tx /\ disconnect' = disconnect /\ quitter' = quitter /\ asks' = asks
      /\ currentconn' = currentconn /\ deny_cb_conn' = deny_cb_conn
  BY <1>0 DEF sdkVars
<1>5. RxTold(rx, queue, lost)'
  BY <1>2, <1>3 DEF IInv, RxTold
<1>6. TypeOf(queue, currentconn, deny_cb_conn, disconnect)'
  BY <1>2, <1>4 DEF IInv, TypeOf
<1>7. TxTold(tx, queue, lost)'
  BY <1>2, <1>4 DEF IInv, TxTold
<1>8. OneUser(user, queue, asks, currentconn)'
  BY <1>0, <1>2, <1>4, UsedByKeeps DEF OneUser, Mine
<1>9. QuitFirst(disconnect, quitter, queue)'
  BY <1>2, <1>4 DEF IInv, QuitFirst
<1>10. HelpWhole(tx')
  BY <1>4 DEF IInv
<1>11. QED
  BY <1>5, <1>6, <1>7, <1>8, <1>9, <1>10 DEF IInv

LEMMA ConnectedKeeps ==
  ASSUME IInv, NEW c \in Conns, NEW kind, Connected(c, kind),
         deny_cb_conn' \in {c, deny_cb_conn}
  PROVE  IInv'
<1>1. /\ rx' = <<>> /\ tx' = <<>> /\ queue' = queue /\ UsedBy(c) /\ asks' = asks
      /\ currentconn' = currentconn /\ disconnect' = disconnect /\ quitter' = quitter
  BY DEF Connected
<1>2. c \in Parties
  BY DEF Parties
<1>3. TypeOf(queue, currentconn, deny_cb_conn, disconnect)'
  BY <1>1, <1>2 DEF IInv, TypeOf
<1>4. RxTold(rx, queue, lost)' /\ TxTold(tx, queue, lost)' /\ HelpWhole(tx')
  BY <1>1, EmptyRing DEF RxTold, TxTold
<1>5. OneUser(user, queue, asks, currentconn)'
  BY <1>1, <1>2, UsedByKeeps DEF OneUser
<1>6. QuitFirst(disconnect, quitter, queue)'
  BY <1>1 DEF IInv
<1>7. QED
  BY <1>3, <1>4, <1>5, <1>6 DEF IInv

LEMMA RestartedKeeps == ASSUME Restarted PROVE IInv'
<1>1. <<>> \in Seq(Signal) /\ DOMAIN <<>> = {}
  OBVIOUS
<1>2. TypeOf(queue, currentconn, deny_cb_conn, disconnect)'
  BY <1>1, NoParty DEF Restarted, TypeOf
<1>3. RxTold(rx, queue, lost)' /\ TxTold(tx, queue, lost)' /\ HelpWhole(tx)'
  BY EmptyRing DEF Restarted, RxTold, TxTold
<1>4. OneUser(user, queue, asks, currentconn)' /\ QuitFirst(disconnect, quitter, queue)'
  BY NoParty DEF Restarted, OneUser, QuitFirst
<1>5. QED
  BY <1>2, <1>3, <1>4 DEF IInv

(* The line that was taken is no longer missed. *)
LEMMA TakenKeeps ==
  ASSUME NEW q, TxTold(tx, q, lost)
  PROVE  TxTold(tx, q, lost \ {"RX"}) /\ RxTold(<<>>, q, lost \ {"RX"})
<1>1. "TX" \in lost => "TX" \in lost \ {"RX"}
  OBVIOUS
<1>2. QED
  BY <1>1, EmptyRing DEF TxTold, RxTold

(* A command that the interrupt of the serial line preempts. *)
LEMMA PreemptedKeeps ==
  ASSUME NEW q, NEW ring, NEW left, NEW ended \in BOOLEAN, NEW par \in Parties,
         TypeOf(q, currentconn, deny_cb_conn, disconnect),
         TxTold(tx, q, lost), HelpWhole(tx), QuitFirst(disconnect, quitter, q),
         user' \in Parties => user' = par /\ par = Serial /\ Mine(par, q, asks, currentconn),
         IsInput(left), HasLine(left) => ended,
         Handle(ring, left, par, LineTold(q, ended, Serial),
                LineLost(q, lost \ {"RX"}, ended))
  PROVE  IInv'
<1> DEFINE told == LineTold(q, ended, Serial)
           missing == LineLost(q, lost \ {"RX"}, ended)
<1>1. Serial \in Parties /\ q \in Seq(Signal)
  BY NoParty DEF TypeOf
<1>2. /\ told \in Seq(Signal)
      /\ HasTx(q) => HasTx(told)
      /\ AllOf(q, Serial) => AllOf(told, Serial)
      /\ \A p : FirstTxIs(q, p) => FirstTxIs(told, p)
      /\ \A m \in lost \ {"RX"} : m \in missing
      /\ ended => "RX" \in missing \/ HasRx(told)
  BY <1>1, LineKeeps
<1>3. Handle(ring, left, par, told, missing)
  OBVIOUS
<1> HIDE DEF told, missing
<1>4. TxTold(tx, told, missing)
  <2>1. "TX" \in lost => "TX" \in missing
    BY <1>2
  <2>2. QED
    BY <1>2, <2>1 DEF TxTold
<1>5. RxTold(left, told, missing)
  BY <1>2 DEF RxTold
<1>6. TypeOf(told, currentconn, deny_cb_conn, disconnect)
  BY <1>2 DEF TypeOf
<1>7. QuitFirst(disconnect, quitter, told)
  BY <1>2 DEF QuitFirst
<1>8. /\ TypeOf(queue', currentconn', deny_cb_conn', disconnect')
      /\ RxTold(rx', queue', lost') /\ TxTold(tx', queue', lost') /\ HelpWhole(tx')
      /\ Mine(par, told, asks, currentconn) => Mine(par, queue', asks', currentconn')
      /\ QuitFirst(disconnect', quitter', queue')
  BY <1>3, <1>4, <1>5, <1>6, <1>7, HandleKeeps
<1>9. ASSUME user' \in Parties PROVE Mine(user', queue', asks', currentconn')
  <2>1. user' = par /\ par = Serial /\ Mine(par, q, asks, currentconn)
    BY <1>9
  <2>2. Mine(par, told, asks, currentconn)
    BY <1>2, <2>1 DEF Mine
  <2>3. QED
    BY <1>8, <2>1, <2>2
<1>10. QED
  BY <1>8, <1>9 DEF IInv, OneUser

LEMMA InterruptedKeeps ==
  ASSUME NEW q, NEW ring, NEW word, NEW ended \in BOOLEAN, NEW par \in Parties, NEW who,
         TypeOf(q, currentconn, deny_cb_conn, disconnect),
         TxTold(tx, q, lost), HelpWhole(tx), QuitFirst(disconnect, quitter, q),
         who \in Parties => who = par /\ par = Serial /\ Mine(par, q, asks, currentconn),
         Interrupted(ring, word, ended, par, q, who)
  PROVE  IInv'
<1> DEFINE typed == Typed(word, ended)
           told == LineTold(q, ended, Serial)
           missing == LineLost(q, lost \ {"RX"}, ended)
           new == Into(ring, typed, MAX_CON_CMD_SIZE)
           clean == Into(<<>>, typed, MAX_CON_CMD_SIZE)
           rest == Rest(typed, Bytes(new) - Bytes(ring))
<1>1. \/ Handle(ring, clean, par, told, missing) /\ user' = who
      \/ Handle(new, rest, par, told, missing) /\ user' = who
      \/ /\ \E left \in {<<>>, <<Garbled(ended)>>} :
              Handle(<<Garbled(FALSE)>>, left, par, told, missing)
         /\ user' = who
      \/ Restarted
  BY DEF Interrupted
<1>2. "ended" \in DOMAIN typed /\ (typed.ended <=> ended)
  BY TypedIs
<1>3. IsInput(clean) /\ (HasLine(clean) => ended)
  <2> HIDE DEF typed
  <2>1. QED
    BY <1>2, EmptyRing, IntoInput
<1>4. IsInput(rest) /\ (HasLine(rest) => ended)
  <2> HIDE DEF typed, new
  <2>1. QED
    BY <1>2, RestIs
<1>5. ASSUME NEW left \in {<<>>, <<Garbled(ended)>>}
      PROVE  IsInput(left) /\ (HasLine(left) => ended)
  <2> DEFINE g == Garbled(ended)
  <2>1. "ended" \in DOMAIN g /\ (g.ended <=> ended)
    BY GarbledIs
  <2>2. left = <<>> \/ left = <<g>>
    OBVIOUS
  <2> HIDE DEF g
  <2>3. IsInput(<<g>>) /\ (HasLine(<<g>>) => ended)
    BY <2>1, OnePiece
  <2>4. QED
    BY <2>2, <2>3, EmptyRing
<1> HIDE DEF typed, new, clean, rest
<1>6. CASE Handle(ring, clean, par, told, missing) /\ user' = who
  BY <1>3, <1>6, PreemptedKeeps
<1>7. CASE Handle(new, rest, par, told, missing) /\ user' = who
  BY <1>4, <1>7, PreemptedKeeps
<1>8. ASSUME NEW left \in {<<>>, <<Garbled(ended)>>}, user' = who,
             Handle(<<Garbled(FALSE)>>, left, par, told, missing)
      PROVE  IInv'
  BY <1>5, <1>8, PreemptedKeeps
<1>9. QED
  BY <1>1, <1>6, <1>7, <1>8, RestartedKeeps

(* The signal of a line that has come. *)
LEMMA HeadRx ==
  ASSUME IInv, queue # <<>>, Head(queue).sig = "CONSOLE_RX"
  PROVE  /\ Head(queue).par \in Parties
         /\ \A p : AllOf(queue, p) => Head(queue).par = p /\ AllOf(Tail(queue), p)
         /\ TypeOf(Tail(queue), currentconn, deny_cb_conn, disconnect)
         /\ TxTold(tx, Tail(queue), lost) /\ HelpWhole(tx)
         /\ QuitFirst(disconnect, quitter, Tail(queue))
<1> DEFINE q == Tail(queue)
           par == Head(queue).par
<1>1. queue \in Seq(Signal) /\ ~IsTx(Head(queue))
  BY DEF IInv, TypeOf, IsTx
<1>2. /\ q \in Seq(Signal) /\ par \in Parties
      /\ \A p : AllOf(queue, p) => par = p /\ AllOf(q, p)
      /\ HasTx(queue) => HasTx(q)
      /\ \A p : FirstTxIs(queue, p) => FirstTxIs(q, p)
  BY <1>1, TailKeeps DEF Signal
<1> HIDE DEF q, par
<1>3. /\ TypeOf(q, currentconn, deny_cb_conn, disconnect) /\ TxTold(tx, q, lost)
      /\ HelpWhole(tx) /\ QuitFirst(disconnect, quitter, q)
  BY <1>2 DEF IInv, TypeOf, TxTold, QuitFirst
<1>4. QED
  BY <1>2, <1>3 DEF q, par

LEMMA TaskRxKeeps == ASSUME IInv, TaskRx PROVE IInv'
<1> DEFINE q == Tail(queue)
           par == Head(queue).par
           missing == lost \ {"RX"}
<1>1. queue # <<>> /\ Head(queue).sig = "CONSOLE_RX"
  BY DEF TaskRx
<1>2. /\ par \in Parties
      /\ \A p : AllOf(queue, p) => par = p /\ AllOf(q, p)
      /\ TypeOf(q, currentconn, deny_cb_conn, disconnect) /\ TxTold(tx, q, lost)
      /\ HelpWhole(tx) /\ QuitFirst(disconnect, quitter, q)
  BY <1>1, HeadRx
<1>3. \/ Handle(rx, <<>>, par, q, missing) /\ (user' \in Parties => user' = user)
      \/ Restarted
  BY NoParty DEF TaskRx, Served, Reset
<1>4. TxTold(tx, q, missing) /\ RxTold(<<>>, q, missing)
  BY <1>2, TakenKeeps
<1> HIDE DEF q, par, missing
<1>5. CASE Handle(rx, <<>>, par, q, missing) /\ (user' \in Parties => user' = user)
  <2>1. /\ TypeOf(queue', currentconn', deny_cb_conn', disconnect')
        /\ RxTold(rx', queue', lost') /\ TxTold(tx', queue', lost') /\ HelpWhole(tx')
        /\ Mine(par, q, asks, currentconn) => Mine(par, queue', asks', currentconn')
        /\ QuitFirst(disconnect', quitter', queue')
    BY <1>2, <1>4, <1>5, HandleKeeps
  <2>2. ASSUME user' \in Parties PROVE Mine(user', queue', asks', currentconn')
    <3>1. user' = user /\ user \in Parties
      BY <1>5, <2>2
    <3>2. Mine(user, queue, asks, currentconn)
      BY <3>1 DEF IInv, OneUser
    <3>3. par = user /\ Mine(par, q, asks, currentconn)
      BY <1>2, <3>2 DEF Mine
    <3>4. QED
      BY <2>1, <3>1, <3>3
  <2>3. QED
    BY <2>1, <2>2 DEF IInv, OneUser
<1>6. QED
  BY <1>3, <1>5, RestartedKeeps

LEMMA TaskRxInterruptedKeeps ==
  ASSUME IInv, NEW word, NEW ended \in BOOLEAN, TaskRxInterrupted(word, ended)
  PROVE  IInv'
<1> DEFINE q == Tail(queue)
           par == Head(queue).par
           who == IF user = Serial THEN user ELSE "many"
<1>1. queue # <<>> /\ Head(queue).sig = "CONSOLE_RX"
  BY DEF TaskRxInterrupted
<1>2. /\ par \in Parties
      /\ \A p : AllOf(queue, p) => par = p /\ AllOf(q, p)
      /\ TypeOf(q, currentconn, deny_cb_conn, disconnect) /\ TxTold(tx, q, lost)
      /\ HelpWhole(tx) /\ QuitFirst(disconnect, quitter, q)
  BY <1>1, HeadRx
<1>3. Interrupted(rx, word, ended, par, q, who)
  BY DEF TaskRxInterrupted
<1>4. who \in Parties => who = Serial /\ user = Serial
  BY NoParty
<1> HIDE DEF q, par, who
<1>5. who \in Parties => who = par /\ par = Serial /\ Mine(par, q, asks, currentconn)
  BY <1>2, <1>4, NoParty DEF IInv, OneUser, Mine
<1>6. QED
  BY <1>2, <1>3, <1>5, InterruptedKeeps

LEMMA WebInKeeps == ASSUME IInv, NEW c \in Conns, NEW word, WebIn(c, word) PROVE IInv'
<1> DEFINE ring == Into(rx, Typed(word, FALSE), MAX_CON_CMD_SIZE)
           missing == lost \ {"RX"}
<1>1. \/ Handle(ring, <<>>, c, queue, missing) /\ UsedBy(c)
      \/ Restarted
  BY DEF WebIn, Reset
<1>2. c \in Parties
  BY DEF Parties
<1>3. TxTold(tx, queue, missing) /\ RxTold(<<>>, queue, missing)
  BY TakenKeeps DEF IInv
<1> HIDE DEF ring, missing
<1>4. CASE Handle(ring, <<>>, c, queue, missing) /\ UsedBy(c)
  <2>1. /\ TypeOf(queue, currentconn, deny_cb_conn, disconnect)
        /\ HelpWhole(tx) /\ QuitFirst(disconnect, quitter, queue)
    BY DEF IInv
  <2>2. /\ TypeOf(queue', currentconn', deny_cb_conn', disconnect')
        /\ RxTold(rx', queue', lost') /\ TxTold(tx', queue', lost') /\ HelpWhole(tx')
        /\ Mine(c, queue, asks, currentconn) => Mine(c, queue', asks', currentconn')
        /\ QuitFirst(disconnect', quitter', queue')
    BY <1>2, <1>3, <1>4, <2>1, HandleKeeps
  <2>3. OneUser(user', queue', asks', currentconn')
    BY <1>2, <1>4, <2>2, UsedByKeeps DEF OneUser
  <2>4. QED
    BY <2>2, <2>3 DEF IInv
<1>5. QED
  BY <1>1, <1>4, RestartedKeeps

LEMMA WebInterruptedKeeps ==
  ASSUME IInv, NEW c \in Conns, NEW word, NEW typed, NEW ended \in BOOLEAN,
         WebInterrupted(c, word, typed, ended)
  PROVE  IInv'
<1> DEFINE ring == Into(rx, Typed(word, FALSE), MAX_CON_CMD_SIZE)
<1>1. /\ TypeOf(queue, currentconn, deny_cb_conn, disconnect) /\ TxTold(tx, queue, lost)
      /\ HelpWhole(tx) /\ QuitFirst(disconnect, quitter, queue)
      /\ c \in Parties /\ "many" \notin Parties
  BY NoParty DEF IInv, Parties
<1>2. \/ Interrupted(ring, typed, ended, c, queue, "many")
      \/ /\ Handle(<<Garbled(FALSE)>>, <<>>, c, LineTold(queue, ended, Serial),
                   LineLost(queue, lost \ {"RX"}, ended))
         /\ user' = "many"
  BY DEF WebInterrupted
<1> HIDE DEF ring
<1>3. CASE Interrupted(ring, typed, ended, c, queue, "many")
  BY <1>1, <1>3, InterruptedKeeps
<1>4. CASE /\ Handle(<<Garbled(FALSE)>>, <<>>, c, LineTold(queue, ended, Serial),
                     LineLost(queue, lost \ {"RX"}, ended))
           /\ user' = "many"
  BY <1>1, <1>4, EmptyRing, PreemptedKeeps
<1>5. QED
  BY <1>2, <1>3, <1>4

(* The interrupt while another puts text into the ring. *)
LEMMA CollisionKeeps ==
  ASSUME IInv, NEW from \in Parties, NEW ended \in BOOLEAN, NEW typed \in BOOLEAN,
         Collision(from, ended, typed)
  PROVE  IInv'
<1> DEFINE told == LineTold(queue, typed, Serial)
           missing == LineLost(queue, lost, typed)
<1>1. /\ user' = IF from = Serial /\ (Quiet \/ user = Serial) THEN Serial ELSE "many"
      /\ queue' = LineTold(told, ended, from) /\ lost' = LineLost(told, missing, ended)
      /\ UNCHANGED <<tx, sdkVars, disconnect, quitter>>
  BY DEF Collision
<1>2. PICK old \in {rx, <<>>}, text \in {Garbled(FALSE), Garbled(ended \/ typed)} :
        rx' = Into(old, text, MAX_CON_CMD_SIZE)
  BY DEF Collision
<1>3. queue \in Seq(Signal) /\ Serial \in Parties
  BY NoParty DEF IInv, TypeOf
<1>4. /\ told \in Seq(Signal)
      /\ HasTx(queue) => HasTx(told)
      /\ HasRx(queue) => HasRx(told)
      /\ AllOf(queue, Serial) => AllOf(told, Serial)
      /\ \A p : FirstTxIs(queue, p) => FirstTxIs(told, p)
      /\ \A m \in lost : m \in missing
      /\ typed => "RX" \in missing \/ HasRx(told)
  BY <1>3, LineKeeps
<1> HIDE DEF told, missing
<1>5. /\ queue' \in Seq(Signal)
      /\ HasTx(told) => HasTx(queue')
      /\ HasRx(told) => HasRx(queue')
      /\ AllOf(told, from) => AllOf(queue', from)
      /\ \A p : FirstTxIs(told, p) => FirstTxIs(queue', p)
      /\ \A m \in missing : m \in lost'
      /\ ended => "RX" \in lost' \/ HasRx(queue')
  BY <1>1, <1>4, LineKeeps
<1>6. IsInput(rx') /\ (HasLine(rx') => ended \/ typed \/ HasLine(rx))
  <2>1. "ended" \in DOMAIN text /\ (text.ended => ended \/ typed)
    <3>1. /\ "ended" \in DOMAIN Garbled(FALSE) /\ ~Garbled(FALSE).ended
          /\ "ended" \in DOMAIN Garbled(ended \/ typed)
          /\ (Garbled(ended \/ typed).ended => (ended \/ typed))
      BY GarbledIs
    <3>2. text = Garbled(FALSE) \/ text = Garbled(ended \/ typed)
      OBVIOUS
    <3>3. QED
      BY <3>1, <3>2
  <2>2. IsInput(old) /\ (HasLine(old) => HasLine(rx))
    BY EmptyRing DEF IInv, RxTold
  <2>3. QED
    BY <1>2, <2>1, <2>2, IntoInput
<1>7. RxTold(rx, queue, lost)'
  <2>1. HasLine(rx) => "RX" \in lost' \/ HasRx(queue')
    BY <1>4, <1>5 DEF IInv, RxTold
  <2>2. typed => "RX" \in lost' \/ HasRx(queue')
    BY <1>4, <1>5
  <2>3. QED
    BY <1>5, <1>6, <2>1, <2>2 DEF RxTold
<1>8. /\ tx' = tx /\ disconnect' = disconnect /\ quitter' = quitter /\ asks' = asks
      /\ currentconn' = currentconn /\ deny_cb_conn' = deny_cb_conn
  BY <1>1 DEF sdkVars
<1>9. TypeOf(queue, currentconn, deny_cb_conn, disconnect)'
  BY <1>5, <1>8 DEF IInv, TypeOf
<1>10. TxTold(tx, queue, lost)' /\ HelpWhole(tx')
  BY <1>4, <1>5, <1>8 DEF IInv, TxTold
<1>11. OneUser(user, queue, asks, currentconn)'
  <2>1. ASSUME user' \in Parties PROVE Mine(user', queue', asks', currentconn')
    <3>1. user' = Serial /\ from = Serial /\ UsedBy(Serial)
      BY <1>1, <2>1, NoParty DEF UsedBy
    <3>2. Mine(Serial, queue, asks, currentconn)
      BY <1>3, <3>1, UsedByKeeps
    <3>3. QED
      BY <1>4, <1>5, <1>8, <3>1, <3>2 DEF Mine
  <2>2. QED
    BY <2>1 DEF OneUser
<1>12. QuitFirst(disconnect, quitter, queue)'
  BY <1>4, <1>5, <1>8 DEF IInv, QuitFirst
<1>13. QED
  BY <1>7, <1>9, <1>10, <1>11, <1>12 DEF IInv

LEMMA TaskTxKeeps == ASSUME IInv, TaskTx PROVE IInv'
<1>1. queue \in Seq(Signal) /\ queue # <<>> /\ IsTx(Head(queue)) /\ queue' = Tail(queue)
  BY DEF TaskTx, IInv, TypeOf
<1>2. /\ queue' \in Seq(Signal)
      /\ \A p : AllOf(queue, p) => AllOf(queue', p)
      /\ HasRx(queue) => HasRx(queue')
  BY <1>1, TailKeeps
<1>3. /\ disconnect' = FALSE /\ rx' = rx /\ currentconn' = currentconn
      /\ deny_cb_conn' = deny_cb_conn /\ asks' = asks
      /\ user' \in Parties => user' = user
  BY NoParty DEF TaskTx, Served
<1>4. /\ TxTold(tx', queue', lost') /\ HelpWhole(tx')
      /\ "RX" \in lost => "RX" \in lost'
  <2>1. CASE tx' = <<>> /\ lost' = lost \ {"TX"}
    BY <2>1, EmptyRing DEF TxTold
  <2>2. CASE tx' = tx /\ lost' = lost \cup {"TX"}
    BY <2>2 DEF TxTold, IInv
  <2>3. QED
    BY <2>1, <2>2 DEF TaskTx, SendResponse
<1>5. TypeOf(queue', currentconn', deny_cb_conn', disconnect')
  BY <1>2, <1>3 DEF IInv, TypeOf
<1>6. RxTold(rx', queue', lost')
  BY <1>2, <1>3, <1>4 DEF IInv, RxTold
<1>7. OneUser(user', queue', asks', currentconn')
  BY <1>2, <1>3 DEF IInv, OneUser, Mine
<1>8. QuitFirst(disconnect', quitter', queue')
  BY <1>3 DEF QuitFirst
<1>9. QED
  BY <1>4, <1>5, <1>6, <1>7, <1>8 DEF IInv

(* Who waits for an answer other than that of nslookup asked last. *)
LEMMA AskerIsCurrent ==
  ASSUME IInv, NEW a \in asks, a # <<"nslookup">>, user \in Parties
  PROVE  currentconn = user
BY DEF IInv, OneUser, Mine

LEMMA OtherRequests ==
  /\ <<"lookup">> # <<"nslookup">> /\ <<"scan">> # <<"nslookup">>
  /\ \A n : <<"ping", n>> # <<"nslookup">>
  /\ \A n : <<"update", n>> # <<"nslookup">>
<1>1. /\ "lookup" # "nslookup" /\ "scan" # "nslookup" /\ "ping" # "nslookup"
      /\ "update" # "nslookup"
  OBVIOUS
<1>2. <<"lookup">>[1] = "lookup" /\ <<"nslookup">>[1] = "nslookup" /\ <<"scan">>[1] = "scan"
  OBVIOUS
<1>3. \A n : <<"ping", n>>[1] = "ping" /\ <<"update", n>>[1] = "update"
  OBVIOUS
<1>4. QED
  BY <1>1, <1>2, <1>3

LEMMA SdkKeeps == ASSUME IInv, Sdk PROVE IInv'
<1>0. /\ "CONSOLE_TX" \in {"CONSOLE_TX", "CONSOLE_TX_RAW"}
      /\ "CONSOLE_TX_RAW" \in {"CONSOLE_TX", "CONSOLE_TX_RAW"}
  OBVIOUS
<1>1. CASE DnsResolved
  <2>1. LateAnswer("CONSOLE_TX", Line) /\ asks' = asks \ {<<"nslookup">>}
        /\ (user' \in Parties => user' = user /\ currentconn = user)
    BY <1>1, NoParty DEF DnsResolved
  <2>2. \A a \in asks' : a # <<"nslookup">> /\ user \in Parties => currentconn = user
    BY <2>1, AskerIsCurrent
  <2>3. QED
    BY <1>0, <2>1, <2>2, LateKeeps
<1>2. CASE PingResolved
  <2>1. <<"lookup">> \in asks /\ user' = user
    BY <1>2 DEF PingResolved
  <2>2. user \in Parties => currentconn = user
    BY <2>1, AskerIsCurrent, OtherRequests
  <2>3. CASE LateAnswer("CONSOLE_TX", Line)
    BY <1>0, <2>1, <2>2, <2>3, LateKeeps
  <2>4. CASE UNCHANGED <<rx, tx, queue, client, currentconn, deny_cb_conn, acl_debug,
                         disconnect, inputs, quitter, lost>>
    <3>1. OneUser(user', queue', asks', currentconn')
      BY <2>1, <2>2, <2>4 DEF IInv, OneUser, Mine
    <3>2. QED
      BY <2>4, <3>1 DEF IInv
  <2>5. QED
    BY <1>2, <2>3, <2>4 DEF PingResolved
<1>3. CASE user_ping_recv
  <2>1. PICK n \in 1 .. PingCount : <<"ping", n>> \in asks
    BY <1>3 DEF user_ping_recv
  <2>2. LateAnswer("CONSOLE_TX_RAW", Line) /\ user' = user
    BY <1>3 DEF user_ping_recv
  <2>3. user \in Parties => currentconn = user
    BY <2>1, AskerIsCurrent, OtherRequests
  <2>4. QED
    BY <1>0, <2>2, <2>3, LateKeeps
<1>4. CASE user_ping_sent
  <2>1. <<"ping", 0>> \in asks /\ LateAnswer("CONSOLE_TX", Line) /\ user' = user
    BY <1>4 DEF user_ping_sent
  <2>2. user \in Parties => currentconn = user
    BY <2>1, AskerIsCurrent, OtherRequests
  <2>3. QED
    BY <1>0, <2>1, <2>2, LateKeeps
<1>5. CASE scan_done
  <2>1. PICK n \in Tables : LateAnswer("CONSOLE_TX", 1 + 60 * n)
    BY <1>5 DEF scan_done
  <2>2. <<"scan">> \in asks /\ user' = user
    BY <1>5 DEF scan_done
  <2>3. user \in Parties => currentconn = user
    BY <2>2, AskerIsCurrent, OtherRequests
  <2>4. QED
    BY <1>0, <2>1, <2>2, <2>3, LateKeeps
<1>6. CASE acl_deny_cb
  <2>1. /\ Written("deny", 70) /\ Tell(queue, lost, "CONSOLE_TX", deny_cb_conn)
        /\ UsedBy(deny_cb_conn)
        /\ rx' = rx /\ currentconn' = currentconn /\ deny_cb_conn' = deny_cb_conn
        /\ asks' = asks /\ disconnect' = disconnect /\ quitter' = quitter
    BY <1>6 DEF acl_deny_cb, sdkVars
  <2>2. queue \in Seq(Signal) /\ deny_cb_conn \in Parties
    BY DEF IInv, TypeOf
  <2>3. /\ queue' \in Seq(Signal)
        /\ "TX" \in lost' \/ HasTx(queue')
        /\ HasRx(queue) => HasRx(queue')
        /\ \A m \in lost : m \in lost'
        /\ AllOf(queue, deny_cb_conn) => AllOf(queue', deny_cb_conn)
        /\ \A p : FirstTxIs(queue, p) => FirstTxIs(queue', p)
    BY <1>0, <2>1, <2>2, TellKeeps
  <2>4. HelpWhole(tx') /\ IsOutput(tx')
    BY <2>1, WrittenKeeps DEF IInv, TxTold
  <2>5. TypeOf(queue, currentconn, deny_cb_conn, disconnect)'
    BY <2>1, <2>3 DEF IInv, TypeOf
  <2>6. RxTold(rx, queue, lost)' /\ TxTold(tx, queue, lost)'
    BY <2>1, <2>3, <2>4 DEF IInv, RxTold, TxTold
  <2>7. OneUser(user, queue, asks, currentconn)'
    BY <2>1, <2>2, <2>3, UsedByKeeps DEF OneUser, Mine
  <2>8. QuitFirst(disconnect, quitter, queue)'
    BY <2>1, <2>3 DEF IInv, QuitFirst
  <2>9. QED
    BY <2>4, <2>5, <2>6, <2>7, <2>8 DEF IInv
<1>7. CASE update_tells
  <2>1. PICK n \in 1 .. UpdateTexts : <<"update", n>> \in asks
    BY <1>7 DEF update_tells
  <2>2. LateAnswer("CONSOLE_TX_RAW", Line) /\ user' = user
    BY <1>7 DEF update_tells
  <2>3. user \in Parties => currentconn = user
    BY <2>1, AskerIsCurrent, OtherRequests
  <2>4. QED
    BY <1>0, <2>2, <2>3, LateKeeps
<1>8. CASE OtaUpdate_CallBack
  <2>1. CASE Restarted
    BY <2>1, RestartedKeeps
  <2>2. CASE ~Restarted
    <3>1. /\ asks' = asks \ Updates /\ Written("failed", 26)
          /\ UNCHANGED <<rx, queue, currentconn, deny_cb_conn, disconnect, user,
                         quitter, lost>>
      BY <1>8, <2>2 DEF OtaUpdate_CallBack
    <3>2. /\ HelpWhole(tx') /\ IsOutput(tx')
          /\ HasAnswer(tx') => HasAnswer(tx)
      BY <3>1, WrittenKeeps DEF IInv, TxTold
    <3>3. TxTold(tx, queue, lost)'
      BY <3>1, <3>2 DEF IInv, TxTold
    <3>4. OneUser(user, queue, asks, currentconn)'
      BY <3>1 DEF IInv, OneUser, Mine
    <3>5. QED
      BY <3>1, <3>2, <3>3, <3>4 DEF IInv
  <2>3. QED
    BY <2>1, <2>2
<1>9. QED
  BY <1>1, <1>2, <1>3, <1>4, <1>5, <1>6, <1>7, <1>8 DEF Sdk

LEMMA LineIs == ASSUME NEW l \in Lines PROVE l[2] \in BOOLEAN
<1>1. CASE l = <<"half", FALSE>>
  <2>1. l[2] = FALSE
    BY <1>1
  <2>2. QED
    BY <2>1
<1>2. ASSUME NEW w \in Words, l = <<w, TRUE>> PROVE l[2] \in BOOLEAN
  <2>1. l[2] = TRUE
    BY <1>2
  <2>2. QED
    BY <2>1
<1>3. QED
  BY <1>1, <1>2 DEF Lines

LEMMA IncomingKeeps == ASSUME IInv, Incoming PROVE IInv'
<1>1. ASSUME NEW l \in Lines, SerialIn(l[1], l[2]) PROVE IInv'
  BY <1>1, LineIs, NoParty, InputKeeps DEF SerialIn
<1>2. ASSUME NEW c \in Conns, NEW l \in Lines, ClientIn(c, l[1], l[2]) PROVE IInv'
  BY <1>2, LineIs, InputKeeps DEF ClientIn, Parties
<1>3. ASSUME NEW w, MqttIn(w) PROVE IInv'
  <2>1. TRUE \in BOOLEAN
    OBVIOUS
  <2>2. QED
    BY <1>3, <2>1, NoParty, InputKeeps DEF MqttIn
<1>4. ASSUME NEW c \in Conns, NEW w, WebIn(c, w) PROVE IInv'
  BY <1>4, WebInKeeps
<1>5. QED
  BY <1>1, <1>2, <1>3, <1>4 DEF Incoming

LEMMA InterruptsKeep == ASSUME IInv, Interrupts PROVE IInv'
<1>1. ASSUME NEW p \in Parties, NEW ended \in BOOLEAN, NEW typed \in BOOLEAN,
             Collision(p, ended, typed)
      PROVE  IInv'
  BY <1>1, CollisionKeeps
<1>2. ASSUME NEW l \in Lines, TaskRxInterrupted(l[1], l[2]) PROVE IInv'
  BY <1>2, LineIs, TaskRxInterruptedKeeps
<1>3. ASSUME NEW c \in Conns, NEW w, NEW l \in Lines, WebInterrupted(c, w, l[1], l[2])
      PROVE  IInv'
  BY <1>3, LineIs, WebInterruptedKeeps
<1>4. QED
  BY <1>1, <1>2, <1>3 DEF Interrupts

LEMMA GoingKeeps == ASSUME IInv, Going PROVE IInv'
<1>1. PICK c \in Conns : Disconnected(c) \/ WebSent(c)
  BY DEF Going
<1>2. /\ UNCHANGED <<rx, tx, queue, currentconn, disconnect, asks, user, quitter, lost>>
      /\ deny_cb_conn' \in {Serial, deny_cb_conn}
  BY <1>1 DEF Disconnected, WebSent
<1>3. TypeOf(queue, currentconn, deny_cb_conn, disconnect)'
  BY <1>2, NoParty DEF IInv, TypeOf
<1>4. QED
  BY <1>2, <1>3 DEF IInv

LEMMA Step == IInv /\ [ConsoleNext]_consoleVars => IInv'
<1> SUFFICES ASSUME IInv, [ConsoleNext]_consoleVars PROVE IInv'
  OBVIOUS
<1>1. CASE Coming
  <2>1. PICK c \in Conns : ConsoleConnected(c) \/ WebConnected(c)
    BY <1>1 DEF Coming
  <2>2. QED
    BY <2>1, ConnectedKeeps DEF ConsoleConnected, WebConnected
<1>2. CASE UNCHANGED consoleVars
  BY <1>2 DEF consoleVars, sdkVars, IInv
<1>3. QED
  BY <1>1, <1>2, IncomingKeeps, InterruptsKeep, GoingKeeps, TaskRxKeeps, TaskTxKeeps, SdkKeeps
     DEF ConsoleNext

LEMMA InitIInv == ConsoleInit => IInv
<1> SUFFICES ASSUME ConsoleInit PROVE IInv
  OBVIOUS
<1>1. <<>> \in Seq(Signal) /\ DOMAIN <<>> = {}
  OBVIOUS
<1>2. TypeOf(queue, currentconn, deny_cb_conn, disconnect)
  BY <1>1, NoParty DEF ConsoleInit, TypeOf
<1>3. RxTold(rx, queue, lost) /\ TxTold(tx, queue, lost) /\ HelpWhole(tx)
  BY EmptyRing DEF ConsoleInit, RxTold, TxTold
<1>4. OneUser(user, queue, asks, currentconn) /\ QuitFirst(disconnect, quitter, queue)
  BY NoParty DEF ConsoleInit, OneUser, QuitFirst
<1>5. QED
  BY <1>2, <1>3, <1>4 DEF IInv

(* The inductive invariant of the console: console_handle_command, the task  *)
(* user_procTask and every callback that answers keep it.                   *)
THEOREM InvariantHolds == ConsoleSpec => []IInv
BY InitIInv, Step, PTL DEF ConsoleSpec

(* A line that was ended is handled and an answer that was written is sent:  *)
(* a signal for user_procTask waits, or was lost in the queue of two, or the  *)
(* sending found no memory.  The text with which OtaUpdate_CallBack tells of  *)
(* an update that failed is no such answer: nobody is told of it.            *)
THEOREM NobodyIsStranded == ConsoleSpec => []NothingStranded
<1>1. IInv => NothingStranded
  <2> SUFFICES ASSUME IInv PROVE NothingStranded
    OBVIOUS
  <2>1. (\E i \in DOMAIN rx : rx[i].ended) =>
           "RX" \in lost \/ \E i \in DOMAIN queue : ~IsTx(queue[i])
    BY DEF IInv, RxTold, HasLine, HasRx
  <2>2. HasTx(queue) => TxParties # {}
    BY DEF HasTx, TxParties
  <2>3. QED
    BY <2>1, <2>2 DEF IInv, TxTold, HasAnswer, NothingStranded
<1>2. QED
  BY InvariantHolds, <1>1, PTL

(* A party that uses the console alone gets all its answers, those of scan,  *)
(* ping and ota update that come late through currentconn included, and help  *)
(* whole.                                                                    *)
THEOREM AnswersReach == ConsoleSpec => []AnswersReachAsker
<1>1. IInv => AnswersReachAsker
  <2> SUFFICES ASSUME IInv PROVE AnswersReachAsker
    OBVIOUS
  <2>1. ASSUME user \in Parties PROVE TxParties \subseteq {user}
    <3>1. AllOf(queue, user)
      BY <2>1 DEF IInv, OneUser, Mine
    <3>2. QED
      BY <3>1 DEF AllOf, TxParties
  <2>2. ASSUME Len(tx) = 1, tx[1].what = "help" PROVE ~tx[1].cut
    <3>1. tx # <<>>
      BY <2>2
    <3>2. LastPiece(tx) = tx[1]
      BY <2>2 DEF LastPiece
    <3>3. QED
      BY <2>2, <3>1, <3>2 DEF IInv, HelpWhole
  <2>3. QED
    BY <2>1, <2>2 DEF AnswersReachAsker
<1>2. QED
  BY InvariantHolds, <1>1, PTL

(* quit ends the session it was typed in, unless another answer was before   *)
(* its own or its signal was lost: remote_console_disconnect is taken by the *)
(* first answer that is sent.                                               *)
THEOREM QuitReaches == ConsoleSpec => []QuitReachesAsker
<1>1. IInv => QuitReachesAsker
  BY DEF IInv, QuitFirst, FirstTxIs, QuitReachesAsker
<1>2. QED
  BY InvariantHolds, <1>1, PTL
=============================================================================
