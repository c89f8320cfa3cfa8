----------------------------- MODULE MCMqttQueue -----------------------------
(* Packets that are plain, that hold marks, that hold what marks are turned *)
(* into, and one that is longer than the others together.                   *)
EXTENDS MqttQueue
MCPackets == {<<65>>, <<126>>, <<127, 93>>, <<125, 65, 65, 94>>}
=============================================================================
