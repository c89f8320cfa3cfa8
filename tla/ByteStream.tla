------------------------------- MODULE ByteStream -------------------------------
(***************************************************************************)
(* What a monitor's client may expect of what waits to be sent to it:      *)
(* whole records go in at the end, bytes come out at the front, and all of *)
(* it is given up only when a client connects or the monitor is stopped.   *)
(***************************************************************************)
EXTENDS Naturals, Sequences

CONSTANT Records   \* the byte sequences that go in as a whole

VARIABLE waiting   \* the bytes in the order they came in

Init == waiting = <<>>

(* The bytes after the first n of s. *)
After(s, n) == SubSeq(s, n + 1, Len(s))

(* A record goes in, and the first n bytes come out.  Either may be missing. *)
Move ==
  \E record \in Records \cup {<<>>} :
    LET all == waiting \o record
    IN  \E n \in 0 .. Len(all) : waiting' = After(all, n)

Reset == waiting' = <<>>

Next == Move \/ Reset

Spec == Init /\ [][Next]_waiting
=============================================================================
