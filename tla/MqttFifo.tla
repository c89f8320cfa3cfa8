------------------------------ MODULE MqttFifo ------------------------------
(***************************************************************************)
(* What the MQTT client may rely on of its outbound queue (mqtt/queue.c):  *)
(* messages leave it whole and in the order they were queued.  A message   *)
(* of the application pushes out the oldest ones when room is short, and   *)
(* when that does not help everything is lost, itself included.  A reply   *)
(* to the broker that finds no room is lost alone.                         *)
(***************************************************************************)
EXTENDS Naturals, Sequences

CONSTANT Messages

VARIABLES
  queue,      \* the messages waiting, oldest first
  got         \* what the last operation took out: a sequence of at most one

Without(k) == SubSeq(queue, k + 1, Len(queue))

Init == queue = <<>> /\ got = <<>>

Publish(m) ==
  /\ got' = <<>>
  /\ \/ \E k \in 0..Len(queue) : queue' = Append(Without(k), m)
     \/ queue' = <<>>

Reply(m) ==
  /\ got' = <<>>
  /\ queue' = Append(queue, m) \/ UNCHANGED queue

Take ==
  /\ queue # <<>>
  /\ got' = <<Head(queue)>> /\ queue' = Tail(queue)

(* Only remains of messages that did not fit were left. *)
TakeNothing == queue = <<>> /\ got' = <<>> /\ UNCHANGED queue

Next ==
  \/ \E m \in Messages : Publish(m) \/ Reply(m)
  \/ Take \/ TakeNothing

Spec == Init /\ [][Next]_<<queue, got>>
=============================================================================
