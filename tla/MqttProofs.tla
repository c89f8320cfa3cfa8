----------------------------- MODULE MqttProofs -----------------------------
(***************************************************************************)
(* Proofs about the MQTT client and its outbound queue.                     *)
(*                                                                         *)
(* Of MqttClient, for every keep-alive, timeout, resolver and queue: types, *)
(* and which connection the states of the client stand for.                *)
(*                                                                         *)
(* Of MqttQueue, for every ring and all packets: reading starts where a     *)
(* frame starts, and the ring implements the queue of MqttFifo.  What the   *)
(* recursive definitions of that module compute is shown by induction over  *)
(* a set of numbers.                                                        *)
(***************************************************************************)
EXTENDS MqttClient, MqttQueue, WellFoundedInduction, TLAPS

(* The limit of the keep-alive counter is a number. *)
LEMMA HalfKeepAliveNat == HalfKeepAlive \in Nat
BY ClientAssumption DEF HalfKeepAlive

LEMMA InvInit == Init => IInv
<1> SUFFICES ASSUME Init PROVE IInv
  OBVIOUS
<1>1. TypeOK
  <2>1. FlagsOK
    BY DEF Init, FlagsOK
  <2>2. CountersOK
    BY HalfKeepAliveNat, ClientAssumption DEF Init, CountersOK
  <2>3. QED
    BY <2>1, <2>2 DEF Init, TypeOK, ConnStates, Links
<1>2. SessionStates /\ ConnectPending /\ DisconnectedIsTrue
  BY DEF Init, SessionStates, ConnectPending, DisconnectedIsTrue, InSession, Session
<1>3. Asking
  BY DEF Init, Asking
<1>4. DueTick /\ LeavingWithWifi
  BY DEF Init, DueTick, LeavingWithWifi
<1>5. QED
  BY <1>1, <1>2, <1>3, <1>4 DEF IInv

(* Each event, callback and run of the task keeps the invariant. *)
LEMMA InvStep == IInv /\ [Next]_vars => IInv'
<1> SUFFICES ASSUME IInv, [Next]_vars PROVE IInv'
  OBVIOUS
<1> USE DEF IInv, network, dns, ticks, history
<1>1. CASE GotIp
  <2>1. FlagsOK'
    BY <1>1 DEF GotIp, MQTT_Connect, FreePCon, EspconnConnect, dns, TypeOK, FlagsOK
  <2>2. CountersOK'
    BY <1>1, HalfKeepAliveNat, ClientAssumption
    DEF GotIp, MQTT_Connect, FreePCon, EspconnConnect, dns, TypeOK, CountersOK, DueTick
  <2>3. connState' \in ConnStates /\ link' \in Links
        /\ pending' \in {"connect", "other"} /\ unstarted' \in {"no", "memory", "name"}
    BY <1>1 DEF GotIp, MQTT_Connect, FreePCon, EspconnConnect, dns, TypeOK, ConnStates, Links
  <2>4. SessionStates' /\ ConnectPending' /\ DisconnectedIsTrue'
    BY <1>1 DEF GotIp, MQTT_Connect, FreePCon, EspconnConnect, dns, TypeOK,
    FlagsOK, SessionStates, ConnectPending, DisconnectedIsTrue, InSession, Session
  <2>5. Asking' /\ LeavingWithWifi'
    BY <1>1 DEF GotIp, MQTT_Connect, FreePCon, EspconnConnect, dns, TypeOK, Asking, LeavingWithWifi
  <2>6. DueTick'
    BY <1>1, HalfKeepAliveNat DEF GotIp, MQTT_Connect, FreePCon, EspconnConnect, dns, TypeOK, CountersOK, DueTick
  <2>7. QED
    BY <2>1, <2>2, <2>3, <2>4, <2>5, <2>6 DEF TypeOK
<1>2. CASE WifiLost
  <2>1. FlagsOK'
    BY <1>2 DEF WifiLost, TypeOK, FlagsOK
  <2>2. CountersOK'
    BY <1>2, HalfKeepAliveNat, ClientAssumption
    DEF WifiLost, TypeOK, CountersOK, DueTick
  <2>3. connState' \in ConnStates /\ link' \in Links
        /\ pending' \in {"connect", "other"} /\ unstarted' \in {"no", "memory", "name"}
    BY <1>2 DEF WifiLost, TypeOK, ConnStates, Links
  <2>4. SessionStates' /\ ConnectPending' /\ DisconnectedIsTrue'
    BY <1>2 DEF WifiLost, TypeOK,
    FlagsOK, SessionStates, ConnectPending, DisconnectedIsTrue, InSession, Session
  <2>5. Asking' /\ LeavingWithWifi'
    BY <1>2 DEF WifiLost, TypeOK, Asking, LeavingWithWifi
  <2>6. DueTick'
    BY <1>2, HalfKeepAliveNat DEF WifiLost, TypeOK, CountersOK, DueTick
  <2>7. QED
    BY <2>1, <2>2, <2>3, <2>4, <2>5, <2>6 DEF TypeOK
<1>3. CASE Publish
  <2>1. FlagsOK'
    BY <1>3 DEF Publish, AfterPublish, TypeOK, FlagsOK
  <2>2. CountersOK'
    BY <1>3, HalfKeepAliveNat, ClientAssumption
    DEF Publish, AfterPublish, TypeOK, CountersOK, DueTick
  <2>3. connState' \in ConnStates /\ link' \in Links
        /\ pending' \in {"connect", "other"} /\ unstarted' \in {"no", "memory", "name"}
    BY <1>3 DEF Publish, AfterPublish, TypeOK, ConnStates, Links
  <2>4. SessionStates' /\ ConnectPending' /\ DisconnectedIsTrue'
    BY <1>3 DEF Publish, AfterPublish, TypeOK,
    FlagsOK, SessionStates, ConnectPending, DisconnectedIsTrue, InSession, Session
  <2>5. Asking' /\ LeavingWithWifi'
    BY <1>3 DEF Publish, AfterPublish, TypeOK, Asking, LeavingWithWifi
  <2>6. DueTick'
    BY <1>3, HalfKeepAliveNat DEF Publish, AfterPublish, TypeOK, CountersOK, DueTick
  <2>7. QED
    BY <2>1, <2>2, <2>3, <2>4, <2>5, <2>6 DEF TypeOK
<1>4. CASE Forget
  <2>1. FlagsOK'
    BY <1>4 DEF Forget, TypeOK, FlagsOK
  <2>2. CountersOK'
    BY <1>4, HalfKeepAliveNat, ClientAssumption
    DEF Forget, TypeOK, CountersOK, DueTick
  <2>3. connState' \in ConnStates /\ link' \in Links
        /\ pending' \in {"connect", "other"} /\ unstarted' \in {"no", "memory", "name"}
    BY <1>4 DEF Forget, TypeOK, ConnStates, Links
  <2>4. SessionStates' /\ ConnectPending' /\ DisconnectedIsTrue'
    BY <1>4 DEF Forget, TypeOK,
    FlagsOK, SessionStates, ConnectPending, DisconnectedIsTrue, InSession, Session
  <2>5. Asking' /\ LeavingWithWifi'
    BY <1>4 DEF Forget, TypeOK, Asking, LeavingWithWifi
  <2>6. DueTick'
    BY <1>4, HalfKeepAliveNat DEF Forget, TypeOK, CountersOK, DueTick
  <2>7. QED
    BY <2>1, <2>2, <2>3, <2>4, <2>5, <2>6 DEF TypeOK
<1>5. CASE DnsFailed
  <2>1. FlagsOK'
    BY <1>5 DEF DnsFailed, NotFound, Answered, TypeOK, FlagsOK
  <2>2. CountersOK'
    BY <1>5, HalfKeepAliveNat, ClientAssumption
    DEF DnsFailed, NotFound, Answered, TypeOK, CountersOK, DueTick
  <2>3. connState' \in ConnStates /\ link' \in Links
        /\ pending' \in {"connect", "other"} /\ unstarted' \in {"no", "memory", "name"}
    BY <1>5 DEF DnsFailed, NotFound, Answered, TypeOK, ConnStates, Links
  <2>4. SessionStates' /\ ConnectPending' /\ DisconnectedIsTrue'
    BY <1>5 DEF DnsFailed, NotFound, Answered, TypeOK,
    FlagsOK, SessionStates, ConnectPending, DisconnectedIsTrue, InSession, Session
  <2>5. Asking' /\ LeavingWithWifi'
    BY <1>5 DEF DnsFailed, NotFound, Answered, TypeOK, CountersOK, Asking, LeavingWithWifi
  <2>6. DueTick'
    BY <1>5, HalfKeepAliveNat DEF DnsFailed, NotFound, Answered, TypeOK, CountersOK, DueTick
  <2>7. QED
    BY <2>1, <2>2, <2>3, <2>4, <2>5, <2>6 DEF TypeOK
<1>6. CASE DnsFound
  <2>1. FlagsOK'
    BY <1>6 DEF DnsFound, Found, Answered, EspconnConnect, TypeOK, FlagsOK
  <2>2. CountersOK'
    BY <1>6, HalfKeepAliveNat, ClientAssumption
    DEF DnsFound, Found, Answered, EspconnConnect, TypeOK, CountersOK, DueTick
  <2>3. connState' \in ConnStates /\ link' \in Links
        /\ pending' \in {"connect", "other"} /\ unstarted' \in {"no", "memory", "name"}
    BY <1>6 DEF DnsFound, Found, Answered, EspconnConnect, TypeOK, ConnStates, Links
  <2>4. SessionStates' /\ ConnectPending' /\ DisconnectedIsTrue'
    BY <1>6 DEF DnsFound, Found, Answered, EspconnConnect, TypeOK,
    FlagsOK, SessionStates, ConnectPending, DisconnectedIsTrue, InSession, Session
  <2>5. Asking' /\ LeavingWithWifi'
    BY <1>6 DEF DnsFound, Found, Answered, EspconnConnect, TypeOK, CountersOK, Asking, LeavingWithWifi
  <2>6. DueTick'
    BY <1>6, HalfKeepAliveNat DEF DnsFound, Found, Answered, EspconnConnect, TypeOK, CountersOK, DueTick
  <2>7. QED
    BY <2>1, <2>2, <2>3, <2>4, <2>5, <2>6 DEF TypeOK
<1>7. CASE Connected
  <2>1. FlagsOK'
    BY <1>7 DEF Connected, TypeOK, FlagsOK
  <2>2. CountersOK'
    BY <1>7, HalfKeepAliveNat, ClientAssumption
    DEF Connected, TypeOK, CountersOK, DueTick
  <2>3. connState' \in ConnStates /\ link' \in Links
        /\ pending' \in {"connect", "other"} /\ unstarted' \in {"no", "memory", "name"}
    BY <1>7 DEF Connected, TypeOK, ConnStates, Links
  <2>4. SessionStates' /\ ConnectPending' /\ DisconnectedIsTrue'
    BY <1>7 DEF Connected, TypeOK,
    FlagsOK, SessionStates, ConnectPending, DisconnectedIsTrue, InSession, Session
  <2>5. Asking' /\ LeavingWithWifi'
    BY <1>7 DEF Connected, TypeOK, Asking, LeavingWithWifi
  <2>6. DueTick'
    BY <1>7, HalfKeepAliveNat DEF Connected, TypeOK, CountersOK, DueTick
  <2>7. QED
    BY <2>1, <2>2, <2>3, <2>4, <2>5, <2>6 DEF TypeOK
<1>8. CASE Broken
  <2>1. FlagsOK'
    BY <1>8 DEF Broken, TypeOK, FlagsOK
  <2>2. CountersOK'
    BY <1>8, HalfKeepAliveNat, ClientAssumption
    DEF Broken, TypeOK, CountersOK, DueTick
  <2>3. connState' \in ConnStates /\ link' \in Links
        /\ pending' \in {"connect", "other"} /\ unstarted' \in {"no", "memory", "name"}
    BY <1>8 DEF Broken, TypeOK, ConnStates, Links
  <2>4. SessionStates' /\ ConnectPending' /\ DisconnectedIsTrue'
    BY <1>8 DEF Broken, TypeOK,
    FlagsOK, SessionStates, ConnectPending, DisconnectedIsTrue, InSession, Session
  <2>5. Asking' /\ LeavingWithWifi'
    BY <1>8 DEF Broken, TypeOK, Asking, LeavingWithWifi
  <2>6. DueTick'
    BY <1>8, HalfKeepAliveNat DEF Broken, TypeOK, CountersOK, DueTick
  <2>7. QED
    BY <2>1, <2>2, <2>3, <2>4, <2>5, <2>6 DEF TypeOK
<1>9. CASE Closed
  <2>1. FlagsOK'
    BY <1>9 DEF Closed, Disconnected, TypeOK, FlagsOK
  <2>2. CountersOK'
    BY <1>9, HalfKeepAliveNat, ClientAssumption
    DEF Closed, Disconnected, TypeOK, CountersOK, DueTick
  <2>3. connState' \in ConnStates /\ link' \in Links
        /\ pending' \in {"connect", "other"} /\ unstarted' \in {"no", "memory", "name"}
    BY <1>9 DEF Closed, Disconnected, TypeOK, ConnStates, Links
  <2>4. SessionStates' /\ ConnectPending' /\ DisconnectedIsTrue'
    BY <1>9 DEF Closed, Disconnected, TypeOK,
    FlagsOK, SessionStates, ConnectPending, DisconnectedIsTrue, InSession, Session
  <2>5. Asking' /\ LeavingWithWifi'
    BY <1>9 DEF Closed, Disconnected, TypeOK, Asking, LeavingWithWifi
  <2>6. DueTick'
    BY <1>9, HalfKeepAliveNat DEF Closed, Disconnected, TypeOK, CountersOK, DueTick
  <2>7. QED
    BY <2>1, <2>2, <2>3, <2>4, <2>5, <2>6 DEF TypeOK
<1>10. CASE PeerCloses
  <2>1. FlagsOK'
    BY <1>10 DEF PeerCloses, Disconnected, TypeOK, FlagsOK
  <2>2. CountersOK'
    BY <1>10, HalfKeepAliveNat, ClientAssumption
    DEF PeerCloses, Disconnected, TypeOK, CountersOK, DueTick
  <2>3. connState' \in ConnStates /\ link' \in Links
        /\ pending' \in {"connect", "other"} /\ unstarted' \in {"no", "memory", "name"}
    BY <1>10 DEF PeerCloses, Disconnected, TypeOK, ConnStates, Links
  <2>4. SessionStates' /\ ConnectPending' /\ DisconnectedIsTrue'
    BY <1>10 DEF PeerCloses, Disconnected, TypeOK,
    FlagsOK, SessionStates, ConnectPending, DisconnectedIsTrue, InSession, Session
  <2>5. Asking' /\ LeavingWithWifi'
    BY <1>10 DEF PeerCloses, Disconnected, TypeOK, Asking, LeavingWithWifi
  <2>6. DueTick'
    BY <1>10, HalfKeepAliveNat DEF PeerCloses, Disconnected, TypeOK, CountersOK, DueTick
  <2>7. QED
    BY <2>1, <2>2, <2>3, <2>4, <2>5, <2>6 DEF TypeOK
<1>11. CASE ConnAccepted
  <2>1. FlagsOK'
    BY <1>11 DEF ConnAccepted, Received, AfterPublish, TypeOK, FlagsOK
  <2>2. CountersOK'
    BY <1>11, HalfKeepAliveNat, ClientAssumption
    DEF ConnAccepted, Received, AfterPublish, TypeOK, CountersOK, DueTick
  <2>3. connState' \in ConnStates /\ link' \in Links
        /\ pending' \in {"connect", "other"} /\ unstarted' \in {"no", "memory", "name"}
    BY <1>11 DEF ConnAccepted, Received, AfterPublish, TypeOK, ConnStates, Links
  <2>4. SessionStates' /\ ConnectPending' /\ DisconnectedIsTrue'
    BY <1>11 DEF ConnAccepted, Received, AfterPublish, TypeOK,
    FlagsOK, SessionStates, ConnectPending, DisconnectedIsTrue, InSession, Session
  <2>5. Asking' /\ LeavingWithWifi'
    BY <1>11 DEF ConnAccepted, Received, AfterPublish, TypeOK, Asking, LeavingWithWifi
  <2>6. DueTick'
    BY <1>11, HalfKeepAliveNat DEF ConnAccepted, Received, AfterPublish, TypeOK, CountersOK, DueTick
  <2>7. QED
    BY <2>1, <2>2, <2>3, <2>4, <2>5, <2>6 DEF TypeOK
<1>12. CASE ConnRefused
  <2>1. FlagsOK'
    BY <1>12 DEF ConnRefused, Received, EspconnDisconnect, TypeOK, FlagsOK
  <2>2. CountersOK'
    BY <1>12, HalfKeepAliveNat, ClientAssumption
    DEF ConnRefused, Received, EspconnDisconnect, TypeOK, CountersOK, DueTick
  <2>3. connState' \in ConnStates /\ link' \in Links
        /\ pending' \in {"connect", "other"} /\ unstarted' \in {"no", "memory", "name"}
    BY <1>12 DEF ConnRefused, Received, EspconnDisconnect, TypeOK, ConnStates, Links
  <2>4. SessionStates' /\ ConnectPending' /\ DisconnectedIsTrue'
    BY <1>12 DEF ConnRefused, Received, EspconnDisconnect, TypeOK,
    FlagsOK, SessionStates, ConnectPending, DisconnectedIsTrue, InSession, Session
  <2>5. Asking' /\ LeavingWithWifi'
    BY <1>12 DEF ConnRefused, Received, EspconnDisconnect, TypeOK, Asking, LeavingWithWifi
  <2>6. DueTick'
    BY <1>12, HalfKeepAliveNat DEF ConnRefused, Received, EspconnDisconnect, TypeOK, CountersOK, DueTick
  <2>7. QED
    BY <2>1, <2>2, <2>3, <2>4, <2>5, <2>6 DEF TypeOK
<1>13. CASE Message
  <2>1. FlagsOK'
    BY <1>13 DEF Message, Received, TypeOK, FlagsOK
  <2>2. CountersOK'
    BY <1>13, HalfKeepAliveNat, ClientAssumption
    DEF Message, Received, TypeOK, CountersOK, DueTick
  <2>3. connState' \in ConnStates /\ link' \in Links
        /\ pending' \in {"connect", "other"} /\ unstarted' \in {"no", "memory", "name"}
    BY <1>13 DEF Message, Received, TypeOK, ConnStates, Links
  <2>4. SessionStates' /\ ConnectPending' /\ DisconnectedIsTrue'
    BY <1>13 DEF Message, Received, TypeOK,
    FlagsOK, SessionStates, ConnectPending, DisconnectedIsTrue, InSession, Session
  <2>5. Asking' /\ LeavingWithWifi'
    BY <1>13 DEF Message, Received, TypeOK, Asking, LeavingWithWifi
  <2>6. DueTick'
    BY <1>13, HalfKeepAliveNat DEF Message, Received, TypeOK, CountersOK, DueTick
  <2>7. QED
    BY <2>1, <2>2, <2>3, <2>4, <2>5, <2>6 DEF TypeOK
<1>14. CASE Sent
  <2>1. FlagsOK'
    BY <1>14 DEF Sent, TypeOK, FlagsOK
  <2>2. CountersOK'
    BY <1>14, HalfKeepAliveNat, ClientAssumption
    DEF Sent, TypeOK, CountersOK, DueTick
  <2>3. connState' \in ConnStates /\ link' \in Links
        /\ pending' \in {"connect", "other"} /\ unstarted' \in {"no", "memory", "name"}
    BY <1>14 DEF Sent, TypeOK, ConnStates, Links
  <2>4. SessionStates' /\ ConnectPending' /\ DisconnectedIsTrue'
    BY <1>14 DEF Sent, TypeOK,
    FlagsOK, SessionStates, ConnectPending, DisconnectedIsTrue, InSession, Session
  <2>5. Asking' /\ LeavingWithWifi'
    BY <1>14 DEF Sent, TypeOK, Asking, LeavingWithWifi
  <2>6. DueTick'
    BY <1>14, HalfKeepAliveNat DEF Sent, TypeOK, CountersOK, DueTick
  <2>7. QED
    BY <2>1, <2>2, <2>3, <2>4, <2>5, <2>6 DEF TypeOK
<1>15. CASE Tick
  <2>1. FlagsOK'
    BY <1>15 DEF Tick, TypeOK, FlagsOK
  <2>2. CountersOK'
    BY <1>15, HalfKeepAliveNat, ClientAssumption
    DEF Tick, TypeOK, CountersOK, DueTick
  <2>3. connState' \in ConnStates /\ link' \in Links
        /\ pending' \in {"connect", "other"} /\ unstarted' \in {"no", "memory", "name"}
    BY <1>15 DEF Tick, TypeOK, ConnStates, Links
  <2>4. SessionStates' /\ ConnectPending' /\ DisconnectedIsTrue'
    BY <1>15 DEF Tick, TypeOK,
    FlagsOK, SessionStates, ConnectPending, DisconnectedIsTrue, InSession, Session
  <2>5. Asking' /\ LeavingWithWifi'
    BY <1>15 DEF Tick, TypeOK, Asking, LeavingWithWifi
  <2>6. DueTick'
    BY <1>15, HalfKeepAliveNat DEF Tick, TypeOK, CountersOK, DueTick
  <2>7. QED
    BY <2>1, <2>2, <2>3, <2>4, <2>5, <2>6 DEF TypeOK
<1>16. CASE Nothing
  <2>1. FlagsOK'
    BY <1>16 DEF Nothing, Task, TypeOK, FlagsOK
  <2>2. CountersOK'
    BY <1>16, HalfKeepAliveNat, ClientAssumption
    DEF Nothing, Task, TypeOK, CountersOK, DueTick
  <2>3. connState' \in ConnStates /\ link' \in Links
        /\ pending' \in {"connect", "other"} /\ unstarted' \in {"no", "memory", "name"}
    BY <1>16 DEF Nothing, Task, TypeOK, ConnStates, Links
  <2>4. SessionStates' /\ ConnectPending' /\ DisconnectedIsTrue'
    BY <1>16 DEF Nothing, Task, TypeOK,
    FlagsOK, SessionStates, ConnectPending, DisconnectedIsTrue, InSession, Session
  <2>5. Asking' /\ LeavingWithWifi'
    BY <1>16 DEF Nothing, Task, TypeOK, Asking, LeavingWithWifi
  <2>6. DueTick'
    BY <1>16, HalfKeepAliveNat DEF Nothing, Task, TypeOK, CountersOK, DueTick
  <2>7. QED
    BY <2>1, <2>2, <2>3, <2>4, <2>5, <2>6 DEF TypeOK
<1>17. CASE Reconnect
  <2>1. FlagsOK'
    BY <1>17 DEF Reconnect, MQTT_Connect, FreePCon, EspconnConnect, dns, Task, TypeOK, FlagsOK
  <2>2. CountersOK'
    BY <1>17, HalfKeepAliveNat, ClientAssumption
    DEF Reconnect, MQTT_Connect, FreePCon, EspconnConnect, dns, Task, TypeOK, CountersOK, DueTick
  <2>3. connState' \in ConnStates /\ link' \in Links
        /\ pending' \in {"connect", "other"} /\ unstarted' \in {"no", "memory", "name"}
    BY <1>17 DEF Reconnect, MQTT_Connect, FreePCon, EspconnConnect, dns, Task, TypeOK, ConnStates, Links
  <2>4. SessionStates' /\ ConnectPending' /\ DisconnectedIsTrue'
    BY <1>17 DEF Reconnect, MQTT_Connect, FreePCon, EspconnConnect, dns, Task, TypeOK,
    FlagsOK, SessionStates, ConnectPending, DisconnectedIsTrue, InSession, Session
  <2>5. Asking' /\ LeavingWithWifi'
    BY <1>17 DEF Reconnect, MQTT_Connect, FreePCon, EspconnConnect, dns, Task, TypeOK, Asking, LeavingWithWifi
  <2>6. DueTick'
    BY <1>17, HalfKeepAliveNat DEF Reconnect, MQTT_Connect, FreePCon, EspconnConnect, dns, Task, TypeOK, CountersOK, DueTick
  <2>7. QED
    BY <2>1, <2>2, <2>3, <2>4, <2>5, <2>6 DEF TypeOK
<1>18. CASE Disconnect
  <2>1. FlagsOK'
    BY <1>18 DEF Disconnect, Task, EspconnDisconnect, TypeOK, FlagsOK
  <2>2. CountersOK'
    BY <1>18, HalfKeepAliveNat, ClientAssumption
    DEF Disconnect, Task, EspconnDisconnect, TypeOK, CountersOK, DueTick
  <2>3. connState' \in ConnStates /\ link' \in Links
        /\ pending' \in {"connect", "other"} /\ unstarted' \in {"no", "memory", "name"}
    BY <1>18 DEF Disconnect, Task, EspconnDisconnect, TypeOK, ConnStates, Links
  <2>4. SessionStates' /\ ConnectPending' /\ DisconnectedIsTrue'
    BY <1>18 DEF Disconnect, Task, EspconnDisconnect, TypeOK,
    FlagsOK, SessionStates, ConnectPending, DisconnectedIsTrue, InSession, Session
  <2>5. Asking' /\ LeavingWithWifi'
    BY <1>18 DEF Disconnect, Task, EspconnDisconnect, TypeOK, Asking, LeavingWithWifi
  <2>6. DueTick'
    BY <1>18, HalfKeepAliveNat DEF Disconnect, Task, EspconnDisconnect, TypeOK, CountersOK, DueTick
  <2>7. QED
    BY <2>1, <2>2, <2>3, <2>4, <2>5, <2>6 DEF TypeOK
<1>19. CASE Delete
  <2>1. FlagsOK'
    BY <1>19 DEF Delete, FreePCon, Task, TypeOK, FlagsOK
  <2>2. CountersOK'
    BY <1>19, HalfKeepAliveNat, ClientAssumption
    DEF Delete, FreePCon, Task, TypeOK, CountersOK, DueTick
  <2>3. connState' \in ConnStates /\ link' \in Links
        /\ pending' \in {"connect", "other"} /\ unstarted' \in {"no", "memory", "name"}
    BY <1>19 DEF Delete, FreePCon, Task, TypeOK, ConnStates, Links
  <2>4. SessionStates' /\ ConnectPending' /\ DisconnectedIsTrue'
    BY <1>19 DEF Delete, FreePCon, Task, TypeOK,
    FlagsOK, SessionStates, ConnectPending, DisconnectedIsTrue, InSession, Session
  <2>5. Asking' /\ LeavingWithWifi'
    BY <1>19 DEF Delete, FreePCon, Task, TypeOK, Asking, LeavingWithWifi
  <2>6. DueTick'
    BY <1>19, HalfKeepAliveNat DEF Delete, FreePCon, Task, TypeOK, CountersOK, DueTick
  <2>7. QED
    BY <2>1, <2>2, <2>3, <2>4, <2>5, <2>6 DEF TypeOK
<1>20. CASE KeepAlive
  <2>1. FlagsOK'
    BY <1>20 DEF KeepAlive, SendOk, SendFails, TypeOK, FlagsOK
  <2>2. CountersOK'
    BY <1>20, HalfKeepAliveNat, ClientAssumption
    DEF KeepAlive, SendOk, SendFails, TypeOK, CountersOK, DueTick
  <2>3. connState' \in ConnStates /\ link' \in Links
        /\ pending' \in {"connect", "other"} /\ unstarted' \in {"no", "memory", "name"}
    BY <1>20 DEF KeepAlive, SendOk, SendFails, TypeOK, ConnStates, Links
  <2>4. SessionStates' /\ ConnectPending' /\ DisconnectedIsTrue'
    BY <1>20 DEF KeepAlive, SendOk, SendFails, TypeOK,
    FlagsOK, SessionStates, ConnectPending, DisconnectedIsTrue, InSession, Session
  <2>5. Asking' /\ LeavingWithWifi'
    BY <1>20 DEF KeepAlive, SendOk, SendFails, TypeOK, Asking, LeavingWithWifi
  <2>6. DueTick'
    BY <1>20, HalfKeepAliveNat DEF KeepAlive, SendOk, SendFails, TypeOK, CountersOK, DueTick
  <2>7. QED
    BY <2>1, <2>2, <2>3, <2>4, <2>5, <2>6 DEF TypeOK
<1>21. CASE SendQueued
  <2>1. FlagsOK'
    BY <1>21 DEF SendQueued, Task, SendOk, SendFails, TypeOK, FlagsOK
  <2>2. CountersOK'
    BY <1>21, HalfKeepAliveNat, ClientAssumption
    DEF SendQueued, Task, SendOk, SendFails, TypeOK, CountersOK, DueTick
  <2>3. connState' \in ConnStates /\ link' \in Links
        /\ pending' \in {"connect", "other"} /\ unstarted' \in {"no", "memory", "name"}
    BY <1>21 DEF SendQueued, Task, SendOk, SendFails, TypeOK, ConnStates, Links
  <2>4. SessionStates' /\ ConnectPending' /\ DisconnectedIsTrue'
    BY <1>21 DEF SendQueued, Task, SendOk, SendFails, TypeOK,
    FlagsOK, SessionStates, ConnectPending, DisconnectedIsTrue, InSession, Session
  <2>5. Asking' /\ LeavingWithWifi'
    BY <1>21 DEF SendQueued, Task, SendOk, SendFails, TypeOK, Asking, LeavingWithWifi
  <2>6. DueTick'
    BY <1>21, HalfKeepAliveNat DEF SendQueued, Task, SendOk, SendFails, TypeOK, CountersOK, DueTick
  <2>7. QED
    BY <2>1, <2>2, <2>3, <2>4, <2>5, <2>6 DEF TypeOK
<1>24. CASE StrayFailed
  <2>1. FlagsOK'
    BY <1>24 DEF StrayFailed, NotFound, Answered, TypeOK, FlagsOK
  <2>2. CountersOK'
    BY <1>24, HalfKeepAliveNat, ClientAssumption
    DEF StrayFailed, NotFound, Answered, TypeOK, CountersOK, DueTick
  <2>3. connState' \in ConnStates /\ link' \in Links
        /\ pending' \in {"connect", "other"} /\ unstarted' \in {"no", "memory", "name"}
    BY <1>24 DEF StrayFailed, NotFound, Answered, TypeOK, ConnStates, Links
  <2>4. SessionStates' /\ ConnectPending' /\ DisconnectedIsTrue'
    BY <1>24 DEF StrayFailed, NotFound, Answered, TypeOK,
    FlagsOK, SessionStates, ConnectPending, DisconnectedIsTrue, InSession, Session
  <2>5. Asking' /\ LeavingWithWifi'
    BY <1>24 DEF StrayFailed, NotFound, Answered, TypeOK, CountersOK, Asking, LeavingWithWifi
  <2>6. DueTick'
    BY <1>24, HalfKeepAliveNat DEF StrayFailed, NotFound, Answered, TypeOK, CountersOK, DueTick
  <2>7. QED
    BY <2>1, <2>2, <2>3, <2>4, <2>5, <2>6 DEF TypeOK
<1>25. CASE StrayFound
  <2>1. FlagsOK'
    BY <1>25 DEF StrayFound, Found, Answered, EspconnConnect, TypeOK, FlagsOK
  <2>2. CountersOK'
    BY <1>25, HalfKeepAliveNat, ClientAssumption
    DEF StrayFound, Found, Answered, EspconnConnect, TypeOK, CountersOK, DueTick
  <2>3. connState' \in ConnStates /\ link' \in Links
        /\ pending' \in {"connect", "other"} /\ unstarted' \in {"no", "memory", "name"}
    BY <1>25 DEF StrayFound, Found, Answered, EspconnConnect, TypeOK, ConnStates, Links
  <2>4. SessionStates' /\ ConnectPending' /\ DisconnectedIsTrue'
    BY <1>25 DEF StrayFound, Found, Answered, EspconnConnect, TypeOK,
    FlagsOK, SessionStates, ConnectPending, DisconnectedIsTrue, InSession, Session
  <2>5. Asking' /\ LeavingWithWifi'
    BY <1>25 DEF StrayFound, Found, Answered, EspconnConnect, TypeOK, CountersOK, Asking, LeavingWithWifi
  <2>6. DueTick'
    BY <1>25, HalfKeepAliveNat DEF StrayFound, Found, Answered, EspconnConnect, TypeOK, CountersOK, DueTick
  <2>7. QED
    BY <2>1, <2>2, <2>3, <2>4, <2>5, <2>6 DEF TypeOK
<1>26. CASE StrayLost
  <2>1. FlagsOK'
    BY <1>26 DEF StrayLost, TypeOK, FlagsOK
  <2>2. CountersOK'
    BY <1>26, HalfKeepAliveNat, ClientAssumption
    DEF StrayLost, TypeOK, CountersOK, DueTick
  <2>3. connState' \in ConnStates /\ link' \in Links
        /\ pending' \in {"connect", "other"} /\ unstarted' \in {"no", "memory", "name"}
    BY <1>26 DEF StrayLost, TypeOK, ConnStates, Links
  <2>4. SessionStates' /\ ConnectPending' /\ DisconnectedIsTrue'
    BY <1>26 DEF StrayLost, TypeOK,
    FlagsOK, SessionStates, ConnectPending, DisconnectedIsTrue, InSession, Session
  <2>5. Asking' /\ LeavingWithWifi'
    BY <1>26 DEF StrayLost, TypeOK, Asking, LeavingWithWifi
  <2>6. DueTick'
    BY <1>26, HalfKeepAliveNat DEF StrayLost, TypeOK, CountersOK, DueTick
  <2>7. QED
    BY <2>1, <2>2, <2>3, <2>4, <2>5, <2>6 DEF TypeOK
<1>27. CASE StrayCrash
  <2>1. FlagsOK'
    BY <1>27 DEF StrayCrash, TypeOK, FlagsOK
  <2>2. CountersOK'
    BY <1>27, HalfKeepAliveNat, ClientAssumption
    DEF StrayCrash, TypeOK, CountersOK, DueTick
  <2>3. connState' \in ConnStates /\ link' \in Links
        /\ pending' \in {"connect", "other"} /\ unstarted' \in {"no", "memory", "name"}
    BY <1>27 DEF StrayCrash, TypeOK, ConnStates, Links
  <2>4. SessionStates' /\ ConnectPending' /\ DisconnectedIsTrue'
    BY <1>27 DEF StrayCrash, TypeOK,
    FlagsOK, SessionStates, ConnectPending, DisconnectedIsTrue, InSession, Session
  <2>5. Asking' /\ LeavingWithWifi'
    BY <1>27 DEF StrayCrash, TypeOK, Asking, LeavingWithWifi
  <2>6. DueTick'
    BY <1>27, HalfKeepAliveNat DEF StrayCrash, TypeOK, CountersOK, DueTick
  <2>7. QED
    BY <2>1, <2>2, <2>3, <2>4, <2>5, <2>6 DEF TypeOK
<1>22. CASE UNCHANGED vars
  BY <1>22 DEF vars, TypeOK, FlagsOK, CountersOK, SessionStates, ConnectPending, Asking, DisconnectedIsTrue,
     DueTick, LeavingWithWifi, InSession
<1>23. QED
  BY <1>1, <1>2, <1>3, <1>4, <1>5, <1>6, <1>7, <1>8, <1>9, <1>10, <1>11, <1>12, <1>13, <1>14, <1>15, <1>16, <1>17, <1>18, <1>19, <1>20, <1>21, <1>22, <1>24,
     <1>25, <1>26, <1>27 DEF Next

(* The invariant holds in every state the client reaches. *)
THEOREM InvariantHolds == Spec => []IInv
<1>1. Init => IInv
  BY InvInit
<1>2. IInv /\ [Next]_vars => IInv'
  BY InvStep
<1>3. QED
  BY <1>1, <1>2, PTL DEF Spec

(* Counters stay within their limits and states among their values: the     *)
(* keep-alive counter of mqtt_timer passes its limit by one at most.        *)
THEOREM TypeCorrect == Spec => []TypeOK
<1>1. IInv => TypeOK
  BY DEF IInv
<1>2. QED
  BY <1>1, InvariantHolds, PTL

(* MQTT_Task only sends on a connection whose CONNECT the broker accepted.  *)
THEOREM SendsInSessionOnly == Spec => []SessionStates
<1>1. IInv => SessionStates
  BY DEF IInv
<1>2. QED
  BY <1>1, InvariantHolds, PTL

(* The CONNACK that mqtt_tcpclient_recv waits for answers the CONNECT it    *)
(* looks for in pending_msg_type.                                           *)
THEOREM ConnackExpected == Spec => []ConnectPending
<1>1. IInv => ConnectPending
  BY DEF IInv
<1>2. QED
  BY <1>1, InvariantHolds, PTL

(* The timer, the keep-alive, the events of a connection and the task of the *)
(* client never free the pCon of a lookup under way (mqtt.c, mqtt_dns_found   *)
(* reads through it), unless a stray answer to an earlier lookup came first.  *)
(* What frees one is a Wi-Fi event, or the task after Wi-Fi was lost.         *)
THEOREM LookupKeepsItsPCon == Spec => LookupKeepsPCon
<1> DEFINE Kept == lookups > 0 /\ strays' > strays => GotIp \/ ~wifi \/ disturbed
<1>1. ASSUME IInv, [Next]_vars PROVE [Kept]_vars
  <2>1. ASSUME lookups > 0, strays' > strays PROVE GotIp \/ ~wifi \/ disturbed
    <3>1. strays \in Nat /\ strays' # strays /\ strays' # strays - 1 /\ strays' # 0
      <4>1. strays \in Nat
        BY <1>1, ClientAssumption DEF IInv, TypeOK, CountersOK
      <4>2. QED
        BY <2>1, <4>1
    <3>2. Next
      BY <1>1, <3>1 DEF vars, dns
    <3>3. ~(DnsFailed \/ DnsFound \/ StrayFailed \/ StrayFound \/ StrayLost \/ StrayCrash)
      BY <3>1 DEF DnsFailed, DnsFound, StrayFailed, StrayFound, StrayLost, StrayCrash
    <3>4. ~(WifiLost \/ Publish \/ Forget \/ Connected \/ Broken \/ Closed \/ PeerCloses)
      BY <3>1 DEF WifiLost, Publish, Forget, Connected, Broken, Closed, PeerCloses,
      Disconnected, dns
    <3>5. ~(ConnAccepted \/ ConnRefused \/ Message \/ Sent \/ Tick)
      BY <3>1 DEF ConnAccepted, ConnRefused, Message, Received, Sent, Tick, dns
    <3>6. ~(Nothing \/ Disconnect \/ KeepAlive \/ SendQueued)
      BY <3>1 DEF Nothing, Disconnect, KeepAlive, SendQueued, dns
    <3>7. GotIp \/ Reconnect \/ Delete
      BY <3>2, <3>3, <3>4, <3>5, <3>6 DEF Next
    <3>8. CASE Reconnect \/ Delete
      <4>1. connState # "TCP_CONNECTING"
        BY <3>8 DEF Reconnect, Delete
      <4>2. QED
        BY <1>1, <2>1, <4>1 DEF IInv, Asking
    <3>9. QED
      BY <3>7, <3>8
  <2>2. QED
    BY <2>1
<1>2. QED
  BY <1>1, InvariantHolds, PTL DEF Spec, LookupKeepsPCon

(* What the console reports as disconnected has no session.                 *)
THEOREM DisconnectedReport == Spec => []DisconnectedIsTrue
<1>1. IInv => DisconnectedIsTrue
  BY DEF IInv
<1>2. QED
  BY <1>1, InvariantHolds, PTL

-----------------------------------------------------------------------------
(***************************************************************************)
(* The queue.                                                              *)
(***************************************************************************)

(* Recursion and induction up to a number. *)

(* A set of numbers has a least one.                                        *)
LEMMA LeastNumber ==
  ASSUME NEW S, S \subseteq Nat, S # {}
  PROVE  \E s \in S : \A o \in S : ~(o < s)
<1> DEFINE R == {ss \in Nat \X Nat : ss[1] < ss[2]}
<1>1. IsWellFoundedOn(R, Nat)
  BY NatLessThanWellFounded DEF OpToRel
<1> HIDE DEF R
<1>2. PICK s \in S : \A o \in S : ~ (<<o, s>> \in R)
  BY <1>1, WFMin
<1>3. QED
  BY <1>2 DEF R

(* What holds of 0 and of each number with the one before it holds of all: G  *)
(* is the set of the numbers it holds of.                                   *)
LEMMA UpTo ==
  ASSUME NEW N \in Nat, NEW G, 0 \in G,
         \A n \in 1 .. N : n - 1 \in G => n \in G
  PROVE  \A n \in 0 .. N : n \in G
<1> DEFINE Bad == {n \in 0 .. N : n \notin G}
<1> SUFFICES ASSUME Bad # {} PROVE FALSE
  OBVIOUS
<1>1. Bad \subseteq Nat
  OBVIOUS
<1>2. PICK n \in Bad : \A o \in Bad : ~(o < n)
  BY <1>1, LeastNumber
<1>3. n \in 1 .. N /\ n - 1 \in 0 .. N /\ n - 1 < n
  BY <1>2
<1>4. n - 1 \in G
  BY <1>2, <1>3
<1>5. QED
  BY <1>2, <1>3, <1>4

(* A recursive definition over 0 .. N has a solution; s is its step. *)
Solves(f, a, s, N) == f = [n \in 0 .. N |-> IF n = 0 THEN a ELSE s[<<f[n - 1], n>>]]

LEMMA Recursion ==
  ASSUME NEW S, NEW a \in S, NEW N \in Nat, NEW s \in [S \X (1 .. N) -> S]
  PROVE  \E f \in [0 .. N -> S] : Solves(f, a, s, N)
<1> DEFINE G == {n \in 0 .. N : \E f \in [0 .. n -> S] : Solves(f, a, s, n)}
<1>1. 0 \in G
  <2> DEFINE f == [n \in 0 .. 0 |-> a]
  <2>1. f \in [0 .. 0 -> S] /\ Solves(f, a, s, 0)
    BY DEF Solves
  <2>2. QED
    BY <2>1
<1>2. ASSUME NEW n \in 1 .. N, n - 1 \in G PROVE n \in G
  <2>1. PICK f \in [0 .. n - 1 -> S] : Solves(f, a, s, n - 1)
    BY <1>2
  <2> DEFINE g == [k \in 0 .. n |-> IF k = n THEN s[<<f[n - 1], n>>] ELSE f[k]]
  <2>2. n \in Nat /\ n - 1 \in 0 .. n - 1 /\ n \in 1 .. N
    OBVIOUS
  <2>3. s[<<f[n - 1], n>>] \in S
    BY <2>1, <2>2
  <2>4. g \in [0 .. n -> S]
    BY <2>1, <2>3
  <2>5. \A k \in 0 .. n : g[k] = IF k = 0 THEN a ELSE s[<<g[k - 1], k>>]
    <3> SUFFICES ASSUME NEW k \in 0 .. n
                 PROVE  g[k] = IF k = 0 THEN a ELSE s[<<g[k - 1], k>>]
      OBVIOUS
    <3>1. CASE k = n
      <4>1. g[k] = s[<<f[n - 1], n>>] /\ k # 0 /\ k - 1 \in 0 .. n /\ k - 1 # n
        BY <2>2, <3>1
      <4>2. g[k - 1] = f[n - 1]
        BY <3>1, <4>1
      <4>3. QED
        BY <3>1, <4>1, <4>2
    <3>2. CASE k # n
      <4>1. k \in 0 .. n - 1 /\ g[k] = f[k]
        BY <2>2, <3>2
      <4>2. f[k] = IF k = 0 THEN a ELSE s[<<f[k - 1], k>>]
        BY <2>1, <4>1 DEF Solves
      <4>3. k # 0 => k - 1 \in 0 .. n /\ k - 1 # n
        BY <2>2, <4>1
      <4>4. k # 0 => g[k - 1] = f[k - 1]
        BY <4>3
      <4>5. QED
        BY <4>1, <4>2, <4>4
    <3>3. QED
      BY <3>1, <3>2
  <2> HIDE DEF g
  <2>6. Solves(g, a, s, n)
    BY <2>4, <2>5 DEF Solves
  <2>7. n \in 0 .. N
    OBVIOUS
  <2>8. QED
    BY <2>4, <2>6, <2>7
<1> HIDE DEF G
<1>3. N \in G
  <2>1. \A n \in 1 .. N : n - 1 \in G => n \in G
    BY <1>2
  <2>2. \A n \in 0 .. N : n \in G
    BY <1>1, <2>1, UpTo
  <2>3. QED
    BY <2>2
<1>4. QED
  BY <1>3 DEF G
-----------------------------------------------------------------------------
(* Packets with their escapes, and their frames. *)
Byte == 0 .. 255
Bytes == Seq(Byte)

LEMMA ConcatTyped ==
  ASSUME NEW a \in Bytes, NEW b \in Bytes
  PROVE  /\ a \o b \in Bytes /\ Len(a \o b) = Len(a) + Len(b)
         /\ Len(a) \in Nat /\ Len(b) \in Nat
         /\ \A i \in 1 .. Len(a) : (a \o b)[i] = a[i]
         /\ \A i \in 1 .. Len(b) : (a \o b)[Len(a) + i] = b[i]
BY DEF Bytes

(* c is a, of m elements, and behind it b, of n. *)
Joined(a, b, c, m, n) ==
  /\ c \in Bytes /\ Len(c) = m + n /\ m \in Nat /\ n \in Nat
  /\ \A i \in 1 .. m : c[i] = a[i]
  /\ \A i \in 1 .. n : c[m + i] = b[i]

LEMMA ConcatJoins ==
  ASSUME NEW a \in Bytes, NEW b \in Bytes
  PROVE  Joined(a, b, a \o b, Len(a), Len(b))
BY ConcatTyped DEF Joined

LEMMA PacketTyped ==
  ASSUME NEW p \in Packets
  PROVE  p \in Bytes /\ Len(p) \in Nat /\ Len(p) <= MQTT_BUF_SIZE /\ DOMAIN p = 1 .. Len(p)
BY QueueAssumption DEF Bytes, Byte

LEMMA FlipMark ==
  ASSUME NEW c \in Marks
  PROVE  Flip(c) \in Byte /\ Flip(c) \notin Marks /\ Flip(Flip(c)) = c
<1>1. (125 \div 32) % 2 = 1 /\ (126 \div 32) % 2 = 1 /\ (127 \div 32) % 2 = 1
  OBVIOUS
<1>2. (93 \div 32) % 2 = 0 /\ (94 \div 32) % 2 = 0 /\ (95 \div 32) % 2 = 0
  OBVIOUS
<1>3. Flip(125) = 93 /\ Flip(126) = 94 /\ Flip(127) = 95
  BY <1>1 DEF Flip
<1>4. Flip(93) = 125 /\ Flip(94) = 126 /\ Flip(95) = 127
  BY <1>2 DEF Flip
<1>5. QED
  BY <1>3, <1>4 DEF Marks, ESC, BEGIN, END, Byte

LEMMA EscapedTyped ==
  ASSUME NEW c \in Byte
  PROVE  /\ Escaped(c) \in Bytes /\ Len(Escaped(c)) \in {1, 2}
         /\ \A i \in 1 .. Len(Escaped(c)) : Escaped(c)[i] \notin {BEGIN, END}
<1>1. CASE c \in Marks
  <2>1. Escaped(c) = <<ESC, Flip(c)>> /\ Flip(c) \in Byte /\ Flip(c) \notin Marks
    BY <1>1, FlipMark DEF Escaped
  <2>2. QED
    BY <2>1 DEF Bytes, Byte, Marks, ESC, BEGIN, END
<1>2. CASE c \notin Marks
  <2>1. Escaped(c) = <<c>>
    BY <1>2 DEF Escaped
  <2>2. QED
    BY <1>2, <2>1 DEF Bytes, Marks
<1>3. QED
  BY <1>1, <1>2

LEMMA StuffingIs ==
  ASSUME NEW p \in Bytes
  PROVE  /\ Stuffing(p) \in [0 .. Len(p) -> Bytes]
         /\ Stuffing(p)[0] = <<>>
         /\ \A n \in 1 .. Len(p) :
              Stuffing(p)[n] = Stuffing(p)[n - 1] \o Escaped(p[n])
<1> DEFINE N == Len(p)
           s == [x \in Bytes \X (1 .. N) |-> x[1] \o Escaped(p[x[2]])]
           Is(f) == f = [n \in 0 .. N |-> IF n = 0 THEN <<>>
                                          ELSE f[n - 1] \o Escaped(p[n])]
<1>1. N \in Nat /\ <<>> \in Bytes /\ \A n \in 1 .. N : p[n] \in Byte
  BY DEF Bytes
<1>2. s \in [Bytes \X (1 .. N) -> Bytes]
  <2> SUFFICES ASSUME NEW b \in Bytes, NEW n \in 1 .. N PROVE b \o Escaped(p[n]) \in Bytes
    OBVIOUS
  <2>1. Escaped(p[n]) \in Bytes
    BY <1>1, EscapedTyped
  <2>2. QED
    BY <2>1 DEF Bytes
<1>3. PICK f \in [0 .. N -> Bytes] : Solves(f, <<>>, s, N)
  <2> HIDE DEF s, N
  <2>1. QED
    BY <1>1, <1>2, Recursion
<1>4. ASSUME NEW n \in 1 .. N PROVE s[<<f[n - 1], n>>] = f[n - 1] \o Escaped(p[n])
  <2>1. f[n - 1] \in Bytes
    <3>1. n - 1 \in 0 .. N
      BY <1>1
    <3>2. QED
      BY <3>1
  <2> DEFINE b == f[n - 1]
  <2>2. b \in Bytes
    BY <2>1
  <2> HIDE DEF b
  <2>3. s[<<b, n>>] = b \o Escaped(p[n])
    BY <2>2
  <2>4. QED
    BY <2>3 DEF b
<1>5. Is(f)
  <2>1. f = [n \in 0 .. N |-> IF n = 0 THEN <<>> ELSE s[<<f[n - 1], n>>]]
    BY <1>3 DEF Solves
  <2> HIDE DEF s
  <2>2. \A n \in 0 .. N : n # 0 => n \in 1 .. N
    BY <1>1
  <2>3. \A n \in 0 .. N : f[n] = IF n = 0 THEN <<>> ELSE f[n - 1] \o Escaped(p[n])
    BY <1>4, <2>1, <2>2
  <2>4. QED
    BY <1>3, <2>3
<1>6. Stuffing(p) = CHOOSE g : Is(g)
  BY DEF Stuffing
<1>7. Is(Stuffing(p))
  BY <1>5, <1>6
<1> DEFINE g == Stuffing(p)
<1> HIDE DEF g, Is, s
<1>8. g = [n \in 0 .. N |-> IF n = 0 THEN <<>> ELSE g[n - 1] \o Escaped(p[n])]
  BY <1>7 DEF g, Is
<1> HIDE DEF N
<1>9. DOMAIN g = 0 .. N /\ g[0] = <<>>
      /\ \A n \in 1 .. N : g[n] = g[n - 1] \o Escaped(p[n])
  BY <1>1, <1>8
<1>10. \A n \in 0 .. N : g[n] \in Bytes
  <2> DEFINE G == {n \in 0 .. N : g[n] \in Bytes}
  <2>1. 0 \in G
    BY <1>1, <1>9
  <2>2. ASSUME NEW n \in 1 .. N, n - 1 \in G PROVE n \in G
    <3>1. g[n - 1] \in Bytes /\ Escaped(p[n]) \in Bytes
      BY <1>1, <2>2, EscapedTyped
    <3>2. g[n] \in Bytes
      <4>1. g[n] = g[n - 1] \o Escaped(p[n])
        BY <1>9
      <4>2. QED
        BY <3>1, <4>1, ConcatTyped
    <3>3. n \in 0 .. N
      BY <1>1
    <3>4. QED
      BY <3>2, <3>3
  <2> HIDE DEF G
  <2>3. \A n \in 1 .. N : n - 1 \in G => n \in G
    BY <2>2
  <2>4. \A n \in 0 .. N : n \in G
    BY <1>1, <2>1, <2>3, UpTo
  <2>5. QED
    BY <2>4 DEF G
<1>11. g \in [0 .. N -> Bytes]
  BY <1>8, <1>9, <1>10
<1>12. QED
  BY <1>9, <1>11 DEF g, N

(* No begin or end mark is among them. *)
LEMMA StuffingUnmarked ==
  ASSUME NEW p \in Bytes
  PROVE  \A n \in 0 .. Len(p) : \A i \in 1 .. Len(Stuffing(p)[n]) :
           Stuffing(p)[n][i] \notin {BEGIN, END}
<1> DEFINE N == Len(p)
           g == Stuffing(p)
           G == {n \in 0 .. N : \A i \in 1 .. Len(g[n]) : g[n][i] \notin {BEGIN, END}}
<1>1. N \in Nat /\ \A n \in 1 .. N : p[n] \in Byte
  BY DEF Bytes
<1>2. /\ g \in [0 .. N -> Bytes] /\ g[0] = <<>>
      /\ \A n \in 1 .. N : g[n] = g[n - 1] \o Escaped(p[n])
  BY StuffingIs
<1> HIDE DEF g, N
<1>3. 0 \in G
  <2>1. 0 \in 0 .. N /\ Len(g[0]) = 0
    BY <1>1, <1>2
  <2>2. QED
    BY <2>1
<1>4. ASSUME NEW n \in 1 .. N, n - 1 \in G PROVE n \in G
  <2> DEFINE a == g[n - 1]
             b == Escaped(p[n])
  <2>1. n \in 0 .. N /\ n - 1 \in 0 .. N
    BY <1>1
  <2>2. a \in Bytes /\ b \in Bytes /\ g[n] = a \o b
    BY <1>1, <1>2, <2>1, EscapedTyped
  <2>3. /\ \A i \in 1 .. Len(a) : a[i] \notin {BEGIN, END}
        /\ \A i \in 1 .. Len(b) : b[i] \notin {BEGIN, END}
    BY <1>1, <1>4, EscapedTyped
  <2> HIDE DEF a, b, G
  <2>4. ASSUME NEW i \in 1 .. Len(a \o b) PROVE (a \o b)[i] \notin {BEGIN, END}
    <3>1. Len(a) \in Nat /\ Len(b) \in Nat /\ Len(a \o b) = Len(a) + Len(b)
      BY <2>2, ConcatTyped
    <3>2. CASE i \in 1 .. Len(a)
      BY <2>2, <2>3, <3>2, ConcatTyped
    <3>3. CASE i \notin 1 .. Len(a)
      <4>1. i - Len(a) \in 1 .. Len(b) /\ i = Len(a) + (i - Len(a))
        BY <3>1, <3>3
      <4>2. (a \o b)[i] = b[i - Len(a)]
        BY <2>2, <4>1, ConcatTyped
      <4>3. QED
        BY <2>3, <4>1, <4>2
    <3>4. QED
      BY <3>2, <3>3
  <2>5. QED
    BY <2>1, <2>2, <2>4 DEF G
<1> HIDE DEF G
<1>5. \A n \in 1 .. N : n - 1 \in G => n \in G
  BY <1>4
<1>6. \A n \in 0 .. N : n \in G
  BY <1>1, <1>3, <1>5, UpTo
<1>7. QED
  BY <1>6 DEF G, g, N

(* The bytes of the first k stay where they are when more follow. *)
Begins(a, b) == Len(a) <= Len(b) /\ \A i \in 1 .. Len(a) : b[i] = a[i]

LEMMA StuffingGrows ==
  ASSUME NEW p \in Bytes
  PROVE  \A n \in 0 .. Len(p) : \A k \in 0 .. n : Begins(Stuffing(p)[k], Stuffing(p)[n])
<1> DEFINE N == Len(p)
           g == Stuffing(p)
           G == {n \in 0 .. N : \A k \in 0 .. n : Begins(g[k], g[n])}
<1>1. N \in Nat /\ \A n \in 1 .. N : p[n] \in Byte
  BY DEF Bytes
<1>2. /\ g \in [0 .. N -> Bytes]
      /\ \A n \in 1 .. N : g[n] = g[n - 1] \o Escaped(p[n])
  BY StuffingIs
<1>3. ASSUME NEW b \in Bytes PROVE Begins(b, b) /\ Len(b) \in Nat
  BY DEF Begins, Bytes
<1> HIDE DEF g, N
<1>4. 0 \in G
  <2>1. 0 \in 0 .. N /\ \A k \in 0 .. 0 : k = 0
    BY <1>1
  <2>2. g[0] \in Bytes
    BY <1>2, <2>1
  <2>3. Begins(g[0], g[0])
    BY <1>3, <2>2
  <2>4. QED
    BY <2>1, <2>3
<1>5. ASSUME NEW n \in 1 .. N, n - 1 \in G PROVE n \in G
  <2> DEFINE a == g[n - 1]
             b == Escaped(p[n])
  <2>1. n \in 0 .. N /\ n - 1 \in 0 .. N
    BY <1>1
  <2>2. a \in Bytes /\ b \in Bytes /\ g[n] = a \o b /\ g[n] \in Bytes
    BY <1>1, <1>2, <2>1, EscapedTyped
  <2>3. \A k \in 0 .. n - 1 : Begins(g[k], a) /\ g[k] \in Bytes
    BY <1>1, <1>2, <1>5, <2>1
  <2> HIDE DEF a, b, G
  <2>4. /\ Len(a) \in Nat /\ Len(b) \in Nat /\ Len(a \o b) = Len(a) + Len(b)
        /\ \A i \in 1 .. Len(a) : (a \o b)[i] = a[i]
    BY <2>2, ConcatTyped
  <2>5. ASSUME NEW k \in 0 .. n PROVE Begins(g[k], g[n])
    <3>1. CASE k = n
      BY <1>3, <2>2, <3>1
    <3>2. CASE k # n
      <4>1. k \in 0 .. n - 1
        BY <2>1, <3>2
      <4>2. Len(g[k]) <= Len(a) /\ Len(g[k]) \in Nat /\ \A i \in 1 .. Len(g[k]) : a[i] = g[k][i]
        BY <1>3, <2>3, <4>1 DEF Begins
      <4>3. Len(g[k]) <= Len(a \o b) /\ \A i \in 1 .. Len(g[k]) : i \in 1 .. Len(a)
        BY <2>4, <4>2
      <4>4. QED
        BY <2>2, <2>4, <4>2, <4>3 DEF Begins
    <3>3. QED
      BY <3>1, <3>2
  <2>6. QED
    BY <2>1, <2>5 DEF G
<1> HIDE DEF G
<1>6. \A n \in 1 .. N : n - 1 \in G => n \in G
  BY <1>5
<1>7. \A n \in 0 .. N : n \in G
  BY <1>1, <1>4, <1>6, UpTo
<1>8. QED
  BY <1>7 DEF G, g, N

(* Where the k-th byte of a packet is in a frame: behind the begin mark and   *)
(* the bytes before it.                                                     *)
Offset(p, k) == 1 + Len(Stuffing(p)[k])

LEMMA FrameIs ==
  ASSUME NEW p \in Bytes
  PROVE  /\ Frame(p) \in Bytes /\ Len(Frame(p)) \in Nat
         /\ Len(Frame(p)) = Offset(p, Len(p)) + 1
         /\ Frame(p)[1] = BEGIN /\ Frame(p)[Len(Frame(p))] = END
         /\ Offset(p, 0) = 1
         /\ \A i \in 1 .. Len(Stuffed(p)) : Frame(p)[1 + i] = Stuffed(p)[i]
<1> DEFINE s == Stuffed(p)
<1>1. s \in Bytes /\ Len(s) \in Nat /\ Stuffing(p)[0] = <<>>
  <2>1. Len(p) \in 0 .. Len(p)
    BY DEF Bytes
  <2>2. Stuffing(p)[Len(p)] \in Bytes /\ Stuffing(p)[0] = <<>>
    BY <2>1, StuffingIs
  <2>3. QED
    BY <2>2 DEF Bytes, Stuffed
<1>2. Offset(p, 0) = 1 /\ Offset(p, Len(p)) = 1 + Len(s)
  BY <1>1 DEF Offset, Stuffed
<1> HIDE DEF s
<1>3. <<BEGIN>> \in Bytes /\ <<END>> \in Bytes
  BY DEF Bytes, Byte, BEGIN, END
<1> DEFINE b == <<BEGIN>>
           e == <<END>>
           f == (b \o s) \o e
<1>4. Len(b) = 1 /\ b[1] = BEGIN /\ Len(e) = 1 /\ e[1] = END
  OBVIOUS
<1>5. b \in Bytes /\ e \in Bytes
  BY <1>3
<1> HIDE DEF b, e
<1> DEFINE h == b \o s
           n == Len(s)
<1>6. /\ h \in Bytes /\ Len(h) = 1 + n /\ n \in Nat
      /\ h[1] = b[1]
      /\ \A i \in 1 .. n : h[1 + i] = s[i]
  <2>1. Joined(b, s, h, Len(b), n)
    BY <1>1, <1>5, ConcatJoins
  <2>2. Joined(b, s, h, 1, n)
    BY <1>4, <2>1
  <2> HIDE DEF h, n
  <2>3. QED
    BY <2>2 DEF Joined
<1>7. h[1] = BEGIN
  BY <1>4, <1>6
<1>8. f = h \o e
  OBVIOUS
<1> HIDE DEF h, f
<1> DEFINE m == 1 + n
<1>9. /\ f \in Bytes /\ Len(f) = m + 1 /\ m \in Nat
      /\ \A i \in 1 .. m : f[i] = h[i]
      /\ f[m + 1] = e[1]
  <2>1. m = Len(h) /\ 1 = Len(e)
    BY <1>4, <1>6
  <2>2. Joined(h, e, f, Len(h), Len(e))
    BY <1>5, <1>6, <1>8, ConcatJoins
  <2> HIDE DEF m
  <2>3. Joined(h, e, f, m, 1)
    BY <2>1, <2>2
  <2>4. QED
    BY <2>3 DEF Joined
<1>10. f[1] = BEGIN /\ f[Len(f)] = END
  <2>1. 1 \in 1 .. m /\ 1 \in 1 .. 1
    BY <1>6
  <2>2. f[1] = h[1] /\ f[m + 1] = e[1]
    BY <1>9, <2>1
  <2>3. QED
    BY <1>4, <1>7, <1>9, <2>2
<1>11. ASSUME NEW i \in 1 .. n PROVE f[1 + i] = s[i]
  <2>1. 1 + i \in 1 .. m
    BY <1>6
  <2>2. QED
    BY <1>6, <1>9, <2>1
<1>12. Frame(p) = f
  BY <1>8 DEF Frame, b, e, s, h
<1>13. Len(f) \in Nat /\ Len(f) = (1 + Len(s)) + 1
  BY <1>1, <1>9
<1> HIDE DEF f
<1>14. QED
  BY <1>2, <1>9, <1>10, <1>11, <1>12, <1>13 DEF s, n

(* The end mark of a frame is its last byte. *)
LEMMA FrameEndsOnce ==
  ASSUME NEW p \in Bytes
  PROVE  \A i \in 1 .. Len(Frame(p)) : Frame(p)[i] = END => i = Len(Frame(p))
<1> DEFINE f == Frame(p)
           s == Stuffed(p)
<1>1. /\ Len(f) = (1 + Len(s)) + 1 /\ Len(s) \in Nat /\ f[1] = BEGIN
      /\ \A i \in 1 .. Len(s) : f[1 + i] = s[i]
      /\ \A i \in 1 .. Len(s) : s[i] \notin {BEGIN, END}
  <2>1. Len(p) \in 0 .. Len(p)
    BY DEF Bytes
  <2>2. Stuffing(p)[Len(p)] \in Bytes
    BY <2>1, StuffingIs
  <2>3. Len(s) \in Nat
    BY <2>2 DEF Stuffed, Bytes
  <2>4. \A i \in 1 .. Len(s) : s[i] \notin {BEGIN, END}
    BY <2>1, StuffingUnmarked DEF Stuffed
  <2>5. Len(f) = (1 + Len(s)) + 1
    BY FrameIs DEF Offset, Stuffed
  <2>6. f[1] = BEGIN /\ \A i \in 1 .. Len(s) : f[1 + i] = s[i]
    BY FrameIs
  <2>7. QED
    BY <2>3, <2>4, <2>5, <2>6
<1> HIDE DEF f, s
<1> SUFFICES ASSUME NEW i \in 1 .. Len(f), f[i] = END, i # Len(f) PROVE FALSE
  BY DEF f
<1>2. CASE i = 1
  BY <1>1, <1>2 DEF BEGIN, END
<1>3. CASE i # 1
  <2>1. i - 1 \in 1 .. Len(s) /\ 1 + (i - 1) = i
    BY <1>1, <1>3
  <2>2. f[i] = s[i - 1]
    BY <1>1, <2>1
  <2>3. QED
    BY <1>1, <2>1, <2>2
<1>4. QED
  BY <1>2, <1>3

LEMMA ByteInFrame ==
  ASSUME NEW p \in Bytes, NEW k \in 1 .. Len(p)
  PROVE  /\ Offset(p, k - 1) \in Nat
         /\ Offset(p, k) = Offset(p, k - 1) + Len(Escaped(p[k]))
         /\ Offset(p, k) < Len(Frame(p))
         /\ \A i \in 1 .. Len(Escaped(p[k])) :
              Frame(p)[Offset(p, k - 1) + i] = Escaped(p[k])[i]
<1> DEFINE N == Len(p)
           g == Stuffing(p)
           a == g[k - 1]
           e == Escaped(p[k])
           f == Frame(p)
           s == Stuffed(p)
<1>1. k \in 0 .. N /\ k - 1 \in 0 .. N /\ N \in 0 .. N /\ p[k] \in Byte
  BY DEF Bytes
<1>2. a \in Bytes /\ e \in Bytes /\ g[k] = a \o e /\ s \in Bytes /\ g[k] \in Bytes
  BY <1>1, StuffingIs, EscapedTyped DEF Stuffed
<1>3. Begins(g[k], s)
  BY <1>1, StuffingGrows DEF Stuffed
<1>4. /\ Len(f) = (1 + Len(s)) + 1
      /\ \A i \in 1 .. Len(s) : f[1 + i] = s[i]
  BY FrameIs DEF Offset, Stuffed
<1> DEFINE m == Len(a)
           n == Len(e)
<1>5. Joined(a, e, g[k], m, n)
  BY <1>2, ConcatJoins
<1>6. Len(s) \in Nat
  BY <1>2 DEF Bytes
<1>7. Offset(p, k - 1) = 1 + m /\ Offset(p, k) = 1 + Len(g[k])
  BY DEF Offset
<1> HIDE DEF a, e, f, s, m, n
<1> DEFINE h == g[k]
<1>8. /\ Joined(a, e, h, m, n) /\ Begins(h, s) /\ Offset(p, k) = 1 + Len(h)
  BY <1>3, <1>5, <1>7
<1> HIDE DEF h, g
<1>9. /\ Len(h) = m + n /\ m \in Nat /\ n \in Nat /\ m + n <= Len(s)
      /\ \A i \in 1 .. m + n : s[i] = h[i]
      /\ \A i \in 1 .. n : h[m + i] = e[i]
  BY <1>8 DEF Joined, Begins
<1>10. ASSUME NEW i \in 1 .. n PROVE f[(1 + m) + i] = e[i]
  <2>1. m + i \in 1 .. m + n /\ m + i \in 1 .. Len(s) /\ 1 + (m + i) = (1 + m) + i
    BY <1>6, <1>9
  <2>2. f[1 + (m + i)] = s[m + i] /\ s[m + i] = h[m + i] /\ h[m + i] = e[i]
    BY <1>4, <1>9, <2>1
  <2>3. QED
    BY <2>1, <2>2
<1>11. Offset(p, k) = (1 + m) + n /\ Offset(p, k) < Len(f) /\ 1 + m \in Nat
  BY <1>4, <1>6, <1>8, <1>9
<1>12. QED
  BY <1>7, <1>10, <1>11 DEF e, f, n
-----------------------------------------------------------------------------
(* The parser. *)
Parser == [data : Bytes, isEsc : BOOLEAN, isBegin : BOOLEAN]

LEMMA FlipTyped == ASSUME NEW c \in Byte PROVE Flip(c) \in Byte
<1> DEFINE q == c \div 32
<1>1. q \in 0 .. 7 /\ 32 * q <= c /\ c < 32 * q + 32
  BY DEF Byte
<1>2. CASE q % 2 = 1
  <2>1. q # 0
    BY <1>2
  <2>2. c >= 32
    BY <1>1, <2>1 DEF Byte
  <2>3. Flip(c) = c - 32
    BY <1>2 DEF Flip
  <2>4. QED
    BY <2>2, <2>3 DEF Byte
<1>3. CASE q % 2 # 1
  <2>1. q # 7
    BY <1>3
  <2>2. c < 224
    BY <1>1, <2>1 DEF Byte
  <2>3. Flip(c) = c + 32
    BY <1>3 DEF Flip
  <2>4. QED
    BY <2>2, <2>3 DEF Byte
<1>4. QED
  BY <1>2, <1>3

LEMMA ParseByteTyped ==
  ASSUME NEW p \in Parser, NEW c \in Byte
  PROVE  PROTO_ParseByte(p, c) \in Parser
<1> DEFINE v == IF p.isEsc THEN Flip(c) ELSE c
           d == IF Len(p.data) < MQTT_BUF_SIZE THEN Append(p.data, v) ELSE p.data
<1>1. v \in Byte
  BY FlipTyped
<1> HIDE DEF v
<1>2. d \in Bytes /\ <<>> \in Bytes
  BY <1>1 DEF Parser, Bytes
<1>3. PROTO_ParseByte(p, c) =
        CASE c = ESC   -> [p EXCEPT !.isEsc = TRUE]
          [] c = BEGIN -> [data |-> <<>>, isEsc |-> FALSE, isBegin |-> TRUE]
          [] c = END   -> [p EXCEPT !.isBegin = FALSE]
          [] OTHER     -> IF ~p.isBegin THEN p ELSE [p EXCEPT !.isEsc = FALSE, !.data = d]
  BY DEF PROTO_ParseByte, d, v
<1> HIDE DEF d
<1>4. /\ [p EXCEPT !.isEsc = TRUE] \in Parser
      /\ [data |-> <<>>, isEsc |-> FALSE, isBegin |-> TRUE] \in Parser
      /\ [p EXCEPT !.isBegin = FALSE] \in Parser
      /\ [p EXCEPT !.isEsc = FALSE, !.data = d] \in Parser
  BY <1>2 DEF Parser
<1>5. CASE c = ESC
  BY <1>3, <1>4, <1>5
<1>6. CASE c = BEGIN
  BY <1>3, <1>4, <1>6 DEF ESC, BEGIN
<1>7. CASE c = END
  BY <1>3, <1>4, <1>7 DEF ESC, BEGIN, END
<1>8. CASE c \notin Marks
  BY <1>3, <1>4, <1>8 DEF Marks
<1>9. QED
  BY <1>5, <1>6, <1>7, <1>8 DEF Marks

LEMMA ParsingIs ==
  ASSUME NEW r \in Bytes, NEW garbage \in BOOLEAN
  PROVE  /\ Parsing(r, garbage) \in [0 .. Len(r) -> Parser]
         /\ \A n \in 1 .. Len(r) :
              Parsing(r, garbage)[n] = PROTO_ParseByte(Parsing(r, garbage)[n - 1], r[n])
<1> DEFINE N == Len(r)
           a == PROTO_Init(garbage)
           s == [x \in Parser \X (1 .. N) |-> PROTO_ParseByte(x[1], r[x[2]])]
           Is(f) == f = [n \in 0 .. N |-> IF n = 0 THEN a
                                          ELSE PROTO_ParseByte(f[n - 1], r[n])]
<1>1. N \in Nat /\ \A n \in 1 .. N : r[n] \in Byte
  BY DEF Bytes
<1>1a. a \in Parser
  <2>1. <<>> \in Bytes
    BY DEF Bytes
  <2>2. QED
    BY <2>1 DEF PROTO_Init, Parser
<1> HIDE DEF a
<1>2. s \in [Parser \X (1 .. N) -> Parser]
  <2> SUFFICES ASSUME NEW p \in Parser, NEW n \in 1 .. N PROVE PROTO_ParseByte(p, r[n]) \in Parser
    OBVIOUS
  <2>1. QED
    BY <1>1, ParseByteTyped
<1>3. PICK f \in [0 .. N -> Parser] : Solves(f, a, s, N)
  <2> HIDE DEF s, N
  <2>1. QED
    BY <1>1, <1>1a, <1>2, Recursion
<1>4. ASSUME NEW n \in 1 .. N
      PROVE  s[<<f[n - 1], n>>] = PROTO_ParseByte(f[n - 1], r[n])
  <2>1. f[n - 1] \in Parser
    <3>1. n - 1 \in 0 .. N
      BY <1>1
    <3>2. QED
      BY <3>1
  <2> DEFINE b == f[n - 1]
  <2>2. b \in Parser
    BY <2>1
  <2> HIDE DEF b
  <2>3. s[<<b, n>>] = PROTO_ParseByte(b, r[n])
    BY <2>2
  <2>4. QED
    BY <2>3 DEF b
<1>5. Is(f)
  <2>1. f = [n \in 0 .. N |-> IF n = 0 THEN a ELSE s[<<f[n - 1], n>>]]
    BY <1>3 DEF Solves
  <2> HIDE DEF s
  <2>2. \A n \in 0 .. N : n # 0 => n \in 1 .. N
    BY <1>1
  <2>3. \A n \in 0 .. N : f[n] = IF n = 0 THEN a ELSE PROTO_ParseByte(f[n - 1], r[n])
    BY <1>4, <2>1, <2>2
  <2>4. QED
    BY <1>3, <2>3
<1>6. Parsing(r, garbage) = CHOOSE g : Is(g)
  BY DEF Parsing, a
<1>7. Is(Parsing(r, garbage))
  BY <1>5, <1>6
<1> DEFINE g == Parsing(r, garbage)
<1> HIDE DEF g, Is, s
<1>8. g = [n \in 0 .. N |-> IF n = 0 THEN a ELSE PROTO_ParseByte(g[n - 1], r[n])]
  BY <1>7 DEF g, Is
<1> HIDE DEF N
<1>9. DOMAIN g = 0 .. N /\ g[0] = a
      /\ \A n \in 1 .. N : g[n] = PROTO_ParseByte(g[n - 1], r[n])
  BY <1>1, <1>8
<1>10. \A n \in 0 .. N : g[n] \in Parser
  <2> DEFINE G == {n \in 0 .. N : g[n] \in Parser}
  <2>1. 0 \in G
    BY <1>1, <1>1a, <1>9
  <2>2. ASSUME NEW n \in 1 .. N, n - 1 \in G PROVE n \in G
    <3>1. PROTO_ParseByte(g[n - 1], r[n]) \in Parser
      BY <1>1, <2>2, ParseByteTyped
    <3>2. n \in 0 .. N
      BY <1>1
    <3>3. QED
      BY <1>9, <3>1, <3>2
  <2> HIDE DEF G
  <2>3. \A n \in 1 .. N : n - 1 \in G => n \in G
    BY <2>2
  <2>4. \A n \in 0 .. N : n \in G
    BY <1>1, <2>1, <2>3, UpTo
  <2>5. QED
    BY <2>4 DEF G
<1>11. g \in [0 .. N -> Parser]
  BY <1>8, <1>9, <1>10
<1>12. QED
  BY <1>9, <1>11 DEF g, N

(* The frame of p begins at byte b of r. *)
FrameAt(r, b, p) ==
  /\ b \in 1 .. Len(r) /\ b + Len(Frame(p)) - 1 <= Len(r)
  /\ \A i \in 1 .. Len(Frame(p)) : r[(b - 1) + i] = Frame(p)[i]

(* Parsing one byte of a packet, escaped or not, in an open frame.           *)
Open(d) == [data |-> d, isEsc |-> FALSE, isBegin |-> TRUE]

LEMMA PlainByte ==
  ASSUME NEW d \in Bytes, Len(d) < MQTT_BUF_SIZE, NEW c \in Byte, c \notin Marks
  PROVE  PROTO_ParseByte(Open(d), c) = Open(Append(d, c))
BY DEF PROTO_ParseByte, Open, Marks

LEMMA EscapedByte ==
  ASSUME NEW d \in Bytes, Len(d) < MQTT_BUF_SIZE, NEW c \in Marks
  PROVE  PROTO_ParseByte(PROTO_ParseByte(Open(d), ESC), Flip(c)) = Open(Append(d, c))
<1> DEFINE q == [data |-> d, isEsc |-> TRUE, isBegin |-> TRUE]
           e == Flip(c)
<1>1. PROTO_ParseByte(Open(d), ESC) = q
  <2> DEFINE o == Open(d)
  <2>1. o \in Parser /\ q \in Parser /\ o.data = d /\ ~o.isEsc /\ o.isBegin
    BY DEF Open, Parser
  <2> HIDE DEF o
  <2> DEFINE x == [o EXCEPT !.isEsc = TRUE]
  <2>1a. x \in Parser /\ x.data = d /\ x.isEsc /\ x.isBegin
    BY <2>1 DEF Parser
  <2>1b. q.data = d /\ q.isEsc /\ q.isBegin
    OBVIOUS
  <2> HIDE DEF x, q
  <2>2. x = q
    BY <2>1, <2>1a, <2>1b DEF Parser
  <2>3. PROTO_ParseByte(o, ESC) = [o EXCEPT !.isEsc = TRUE]
    BY DEF PROTO_ParseByte, ESC, BEGIN, END
  <2>4. QED
    BY <2>2, <2>3 DEF o, x
<1>2. e \notin Marks /\ Flip(e) = c
  BY FlipMark
<1> HIDE DEF e
<1>3. PROTO_ParseByte(q, e) = Open(Append(d, c))
  BY <1>2 DEF PROTO_ParseByte, Open, Marks
<1>4. QED
  BY <1>1, <1>3 DEF e

(* However the parser was left, the bytes of a frame make it the packet.     *)
LEMMA Decode ==
  ASSUME NEW r \in Bytes, NEW garbage \in BOOLEAN, NEW p \in Packets, NEW b,
         FrameAt(r, b, p)
  PROVE  Parsing(r, garbage)[(b - 1) + Len(Frame(p))].data = p
<1> DEFINE g == Parsing(r, garbage)
           N == Len(p)
           o(k) == (b - 1) + Offset(p, k)
           first(k) == SubSeq(p, 1, k)
           G == {k \in 0 .. N : g[o(k)] = Open(first(k))}
<1>1. /\ p \in Bytes /\ N \in Nat /\ N <= MQTT_BUF_SIZE
      /\ \A k \in 1 .. N : p[k] \in Byte
  BY PacketTyped DEF Bytes
<1>2. \A n \in 1 .. Len(r) : g[n] = PROTO_ParseByte(g[n - 1], r[n])
  BY ParsingIs
<1>3. /\ b \in 1 .. Len(r) /\ Len(r) \in Nat /\ (b - 1) + Len(Frame(p)) <= Len(r)
      /\ \A i \in 1 .. Len(Frame(p)) : r[(b - 1) + i] = Frame(p)[i]
  <2>1. Len(r) \in Nat /\ Len(Frame(p)) \in Nat
    BY <1>1, FrameIs DEF Bytes
  <2>2. QED
    BY <2>1 DEF FrameAt
<1>4. /\ Len(Frame(p)) \in Nat /\ Len(Frame(p)) = Offset(p, N) + 1
      /\ Frame(p)[1] = BEGIN /\ Frame(p)[Len(Frame(p))] = END /\ Offset(p, 0) = 1
  BY <1>1, FrameIs
<1>5. MQTT_BUF_SIZE \in Nat
  BY QueueAssumption
<1> HIDE DEF g
<1>6. Offset(p, N) \in Nat
  <2>1. N \in 0 .. N
    BY <1>1
  <2>1a. Stuffing(p)[N] \in Bytes
    BY <1>1, <2>1, StuffingIs
  <2>2. QED
    BY <2>1a DEF Offset, Bytes
<1>7. 0 \in G
  <2>1. 1 \in 1 .. Len(Frame(p))
    BY <1>4, <1>6
  <2>2. r[(b - 1) + 1] = BEGIN
    BY <1>3, <1>4, <2>1
  <2>3. (b - 1) + 1 = b /\ o(0) = b
    BY <1>3, <1>4
  <2>4. g[b] = PROTO_ParseByte(g[b - 1], BEGIN)
    BY <1>2, <1>3, <2>2, <2>3
  <2>5. \A q : PROTO_ParseByte(q, BEGIN) = Open(<<>>)
    BY DEF PROTO_ParseByte, Open, ESC, BEGIN, END
  <2>6. first(0) = <<>>
    BY <1>1 DEF Bytes
  <2>7. g[o(0)] = Open(first(0)) /\ 0 \in 0 .. N
    <3>1. g[b] = Open(<<>>)
      BY <2>4, <2>5
    <3> HIDE DEF first, o
    <3>2. QED
      BY <1>1, <2>3, <2>6, <3>1
  <2>8. QED
    BY <2>7
<1>8. ASSUME NEW k \in 1 .. N, k - 1 \in G PROVE k \in G
  <2> DEFINE c == p[k]
             d == first(k - 1)
             m == Offset(p, k - 1)
             e == Escaped(c)
             a == (b - 1) + m
  <2>1. /\ m \in Nat /\ Offset(p, k) = m + Len(e) /\ m + Len(e) < Len(Frame(p))
        /\ \A i \in 1 .. Len(e) : Frame(p)[m + i] = e[i]
    BY <1>1, ByteInFrame
  <2>2. d \in Bytes /\ Len(d) = k - 1 /\ Append(d, c) = first(k) /\ Len(d) < MQTT_BUF_SIZE
    <3>1. p \in Seq(Byte) /\ k - 1 \in 0 .. Len(p)
      BY <1>1 DEF Bytes
    <3>2. d \in Seq(Byte) /\ Len(d) = k - 1 /\ \A i \in 1 .. k - 1 : d[i] = p[i]
      BY <3>1
    <3>3. first(k) \in Seq(Byte) /\ Len(first(k)) = k /\ \A i \in 1 .. k : first(k)[i] = p[i]
      BY <3>1
    <3>4. c \in Byte
      BY <1>1
    <3>5. Append(d, c) \in Seq(Byte) /\ Len(Append(d, c)) = k
          /\ \A i \in 1 .. k : Append(d, c)[i] = p[i]
      <4> HIDE DEF d
      <4>1. Append(d, c) \in Seq(Byte) /\ Len(Append(d, c)) = (k - 1) + 1
            /\ (\A i \in 1 .. k - 1 : Append(d, c)[i] = d[i]) /\ Append(d, c)[(k - 1) + 1] = c
        BY <3>2, <3>4
      <4>2. QED
        BY <3>2, <4>1
    <3>6. Append(d, c) = first(k)
      <4> DEFINE x == Append(d, c)
                 y == first(k)
      <4> HIDE DEF x, y
      <4>1. x \in Seq(Byte) /\ y \in Seq(Byte) /\ Len(x) = Len(y)
            /\ \A i \in 1 .. Len(x) : x[i] = y[i]
        BY <3>3, <3>5 DEF x, y
      <4>2. x = y
        BY <4>1
      <4>3. QED
        BY <4>2 DEF x, y
    <3>7. k - 1 < MQTT_BUF_SIZE
      BY <1>1, <1>5
    <3>8. QED
      BY <3>2, <3>6, <3>7 DEF Bytes
  <2>3. g[a] = Open(d)
    BY <1>8
  <2>4. /\ c \in Byte /\ a \in Nat /\ k \in 0 .. N
        /\ \A i \in 1 .. Len(e) : a + i \in 1 .. Len(r) /\ r[a + i] = e[i]
    <3>1. c \in Byte /\ k \in 0 .. N /\ Len(e) \in Nat
      <4>1. c \in Byte
        BY <1>1
      <4>2. Len(e) \in {1, 2}
        BY <4>1, EscapedTyped
      <4>3. QED
        BY <1>1, <4>1, <4>2
    <3> HIDE DEF m, e
    <3>2. ASSUME NEW i \in 1 .. Len(e)
          PROVE  a + i \in 1 .. Len(r) /\ r[a + i] = e[i]
      <4>1. m + i \in 1 .. Len(Frame(p)) /\ (b - 1) + (m + i) = a + i
        BY <1>3, <1>4, <2>1, <3>1
      <4>2. r[(b - 1) + (m + i)] = e[i]
        BY <1>3, <2>1, <4>1
      <4>3. a + i \in 1 .. Len(r)
        BY <1>3, <1>4, <2>1, <3>1, <4>1
      <4>4. QED
        BY <4>1, <4>2, <4>3
    <3>3. a \in Nat
      BY <1>3, <2>1
    <3>4. QED
      BY <3>1, <3>2, <3>3
  <2>5. \A n \in 1 .. Len(r) : (n - 1) \in Nat
    BY <1>3
  <2>6. o(k) = a + Len(e)
    <3> HIDE DEF e, m
    <3>1. Len(e) \in Nat
      BY <2>4, EscapedTyped DEF e
    <3>2. QED
      BY <1>3, <2>1, <3>1
  <2> HIDE DEF d, m, a, o, first
  <2>7. CASE c \notin Marks
    <3>1. e = <<c>> /\ Len(e) = 1 /\ e[1] = c
      BY <2>7 DEF Escaped
    <3> HIDE DEF e
    <3>2. a + 1 \in 1 .. Len(r) /\ r[a + 1] = c /\ (a + 1) - 1 = a
      BY <2>4, <3>1
    <3>3. g[a + 1] = PROTO_ParseByte(Open(d), c)
      BY <1>2, <2>3, <3>2
    <3>4. g[a + 1] = Open(Append(d, c))
      BY <2>2, <2>4, <2>7, <3>3, PlainByte
    <3>5. QED
      BY <2>2, <2>4, <2>6, <3>1, <3>4
  <2>8. CASE c \in Marks
    <3>1. e = <<ESC, Flip(c)>> /\ Len(e) = 2 /\ e[1] = ESC /\ e[2] = Flip(c)
      BY <2>8 DEF Escaped
    <3> HIDE DEF e
    <3>2. a + 1 \in 1 .. Len(r) /\ r[a + 1] = ESC /\ (a + 1) - 1 = a
      BY <2>4, <3>1
    <3>3. a + 2 \in 1 .. Len(r) /\ r[a + 2] = Flip(c) /\ (a + 2) - 1 = a + 1
      BY <2>4, <3>1
    <3>4. g[a + 1] = PROTO_ParseByte(Open(d), ESC)
      BY <1>2, <2>3, <3>2
    <3>5. g[a + 2] = PROTO_ParseByte(g[a + 1], Flip(c))
      BY <1>2, <3>3
    <3>6. g[a + 2] = Open(Append(d, c))
      BY <2>2, <2>8, <3>4, <3>5, EscapedByte
    <3>7. QED
      BY <2>2, <2>4, <2>6, <3>1, <3>6
  <2>9. QED
    BY <2>7, <2>8
<1> HIDE DEF G
<1>9. \A k \in 1 .. N : k - 1 \in G => k \in G
  BY <1>8
<1>10. N \in G
  <2>1. \A k \in 0 .. N : k \in G
    BY <1>1, <1>7, <1>9, UpTo
  <2>2. QED
    BY <1>1, <2>1
<1>11. first(N) = p
  BY <1>1 DEF Bytes
<1>12. g[o(N)] = Open(p)
  BY <1>10, <1>11 DEF G
<1> DEFINE l == (b - 1) + Len(Frame(p))
<1>13. l \in 1 .. Len(r) /\ l - 1 = o(N) /\ r[l] = END
  BY <1>3, <1>4, <1>6
<1>14. g[l] = PROTO_ParseByte(Open(p), END)
  BY <1>2, <1>12, <1>13
<1>15. PROTO_ParseByte(Open(p), END).data = p
  <2> DEFINE q == Open(p)
  <2>1. q.data = p /\ [q EXCEPT !.isBegin = FALSE].data = q.data
    BY DEF Open
  <2> HIDE DEF q
  <2>2. PROTO_ParseByte(q, END) = [q EXCEPT !.isBegin = FALSE]
    BY DEF PROTO_ParseByte, ESC, BEGIN, END
  <2>3. QED
    BY <2>1, <2>2 DEF q
<1>16. QED
  BY <1>14, <1>15 DEF g
-----------------------------------------------------------------------------
(* The ring.  Every end mark in it closes the frame of a packet, and a begin  *)
(* mark follows: this is what keeps reading where a frame starts.           *)
Closes(r, e, b, p) == FrameAt(r, b, p) /\ e = (b - 1) + Len(Frame(p))

Framed(r) ==
  /\ \A n \in 0 .. Len(r) - 1 : (n = 0 \/ r[n] = END) => r[n + 1] = BEGIN
  /\ \A e \in 1 .. Len(r) : r[e] = END =>
       \E p \in Packets : \E b \in 1 .. Len(r) : Closes(r, e, b, p)

(* c is r with as much of f behind it as the ring takes.                    *)
PutTo(r, f, c) ==
  /\ Begins(r, c) /\ Len(c) <= Len(r) + Len(f)
  /\ \A i \in 1 .. Len(f) : Len(r) + i <= Len(c) => c[Len(r) + i] = f[i]

(* t is what is left of r behind byte e.                                    *)
TakenTo(r, e, t) ==
  /\ e \in 1 .. Len(r) /\ Len(t) = Len(r) - e
  /\ \A i \in 1 .. Len(t) : t[i] = r[e + i]

LEMMA FrameTyped ==
  ASSUME NEW p \in Packets
  PROVE  /\ Frame(p) \in Bytes /\ Len(Frame(p)) \in Nat \ {0, 1}
         /\ Frame(p)[1] = BEGIN /\ Frame(p)[Len(Frame(p))] = END
         /\ \A i \in 1 .. Len(Frame(p)) : Frame(p)[i] = END => i = Len(Frame(p))
<1>1. p \in Bytes /\ Len(p) \in Nat
  BY PacketTyped
<1>2. /\ Frame(p) \in Bytes /\ Len(Frame(p)) \in Nat
      /\ Len(Frame(p)) = Offset(p, Len(p)) + 1
      /\ Frame(p)[1] = BEGIN /\ Frame(p)[Len(Frame(p))] = END
  BY <1>1, FrameIs
<1>3. Offset(p, Len(p)) \in Nat \ {0}
  <2>1. Len(p) \in 0 .. Len(p)
    BY <1>1
  <2>2. Stuffing(p)[Len(p)] \in Bytes
    BY <1>1, <2>1, StuffingIs
  <2>3. QED
    BY <2>2 DEF Offset, Bytes
<1>4. QED
  BY <1>1, <1>2, <1>3, FrameEndsOnce

LEMMA FrameStays ==
  ASSUME NEW r \in Bytes, NEW c \in Bytes, NEW b, NEW p \in Packets,
         FrameAt(r, b, p), Begins(r, c)
  PROVE  FrameAt(c, b, p)
<1> DEFINE f == Frame(p)
<1>1. Len(r) \in Nat /\ Len(c) \in Nat /\ Len(f) \in Nat /\ Len(r) <= Len(c)
  BY FrameTyped DEF Bytes, Begins
<1> HIDE DEF f
<1>2. /\ b \in 1 .. Len(r) /\ b + Len(f) - 1 <= Len(r)
      /\ \A i \in 1 .. Len(f) : r[(b - 1) + i] = f[i]
  BY DEF FrameAt, f
<1>3. ASSUME NEW i \in 1 .. Len(f) PROVE c[(b - 1) + i] = f[i]
  <2>1. (b - 1) + i \in 1 .. Len(r)
    BY <1>1, <1>2
  <2>2. c[(b - 1) + i] = r[(b - 1) + i]
    BY <2>1 DEF Begins
  <2>3. QED
    BY <1>2, <2>2
<1>4. b \in 1 .. Len(c) /\ b + Len(f) - 1 <= Len(c)
  BY <1>1, <1>2
<1>5. QED
  BY <1>3, <1>4 DEF FrameAt, f

(* A frame that closes behind an end mark begins behind it.                 *)
LEMMA FrameMoves ==
  ASSUME NEW r \in Bytes, NEW t \in Bytes, NEW e, NEW b, NEW p \in Packets,
         FrameAt(r, b, p), TakenTo(r, e, t), r[e] = END,
         e < (b - 1) + Len(Frame(p))
  PROVE  FrameAt(t, b - e, p)
<1> DEFINE f == Frame(p)
<1>1. /\ Len(r) \in Nat /\ Len(f) \in Nat \ {0, 1}
      /\ \A i \in 1 .. Len(f) : f[i] = END => i = Len(f)
  BY FrameTyped DEF Bytes
<1>2. e < (b - 1) + Len(f)
  OBVIOUS
<1>3. /\ b \in 1 .. Len(r) /\ b + Len(f) - 1 <= Len(r)
      /\ \A i \in 1 .. Len(f) : r[(b - 1) + i] = f[i]
  BY DEF FrameAt
<1>4. /\ e \in 1 .. Len(r) /\ Len(t) = Len(r) - e
      /\ \A i \in 1 .. Len(t) : t[i] = r[e + i]
  BY DEF TakenTo
<1> HIDE DEF f
<1>5. b > e
  <2> SUFFICES ASSUME ~(b > e) PROVE FALSE
    OBVIOUS
  <2> DEFINE i == (e - b) + 1
  <2>1. i \in 1 .. Len(f) /\ i # Len(f) /\ (b - 1) + i = e
    BY <1>1, <1>2, <1>3, <1>4
  <2> HIDE DEF i
  <2>2. f[i] = END
    BY <1>3, <2>1
  <2>3. QED
    BY <1>1, <2>1, <2>2
<1>6. ASSUME NEW i \in 1 .. Len(f) PROVE t[((b - e) - 1) + i] = f[i]
  <2> DEFINE j == ((b - e) - 1) + i
  <2>1. j \in 1 .. Len(t) /\ e + j = (b - 1) + i
    BY <1>1, <1>3, <1>4, <1>5
  <2> HIDE DEF j
  <2>2. t[j] = r[e + j] /\ r[e + j] = f[i]
    BY <1>3, <1>4, <2>1
  <2>3. QED
    BY <2>2 DEF j
<1>7. b - e \in 1 .. Len(t) /\ (b - e) + Len(f) - 1 <= Len(t)
  BY <1>1, <1>3, <1>4, <1>5
<1>8. QED
  BY <1>6, <1>7 DEF FrameAt, f

LEMMA PutKeepsFramed ==
  ASSUME NEW r \in Bytes, NEW c \in Bytes, NEW p \in Packets,
         Framed(r), PutTo(r, Frame(p), c)
  PROVE  Framed(c)
<1> DEFINE f == Frame(p)
           m == Len(r)
<1>1. /\ m \in Nat /\ Len(c) \in Nat /\ f \in Bytes /\ Len(f) \in Nat \ {0, 1}
      /\ f[1] = BEGIN /\ \A i \in 1 .. Len(f) : f[i] = END => i = Len(f)
  BY FrameTyped DEF Bytes
<1>2. /\ Begins(r, c) /\ m <= Len(c) /\ Len(c) <= m + Len(f)
      /\ \A i \in 1 .. m : c[i] = r[i]
      /\ \A i \in 1 .. Len(f) : m + i <= Len(c) => c[m + i] = f[i]
  BY DEF PutTo, Begins
<1> HIDE DEF f
<1>3. ASSUME NEW n \in 0 .. Len(c) - 1, n = 0 \/ c[n] = END PROVE c[n + 1] = BEGIN
  <2>1. n \in Nat /\ n + 1 <= Len(c)
    BY <1>1
  <2>2. CASE n < m
    <3>1. n \in 0 .. m - 1 /\ n + 1 \in 1 .. m /\ (n = 0 \/ n \in 1 .. m)
      BY <1>1, <2>1, <2>2
    <3>2. n = 0 \/ r[n] = END
      BY <1>2, <1>3, <3>1
    <3>3. r[n + 1] = BEGIN
      BY <3>1, <3>2 DEF Framed
    <3>4. QED
      BY <1>2, <3>1, <3>3
  <2>3. CASE n = m
    <3>1. 1 \in 1 .. Len(f) /\ m + 1 <= Len(c)
      BY <1>1, <2>1, <2>3
    <3>2. c[m + 1] = BEGIN
      BY <1>1, <1>2, <3>1
    <3>3. QED
      BY <2>3, <3>2
  <2>4. CASE n > m
    <3> DEFINE i == n - m
    <3>1. i \in 1 .. Len(f) /\ i # Len(f) /\ m + i = n /\ m + i <= Len(c) /\ n # 0
      BY <1>1, <1>2, <2>1, <2>4
    <3> HIDE DEF i
    <3>2. f[i] = END
      BY <1>2, <1>3, <3>1
    <3>3. QED
      BY <1>1, <3>1, <3>2
  <2>5. QED
    BY <1>1, <2>1, <2>2, <2>3, <2>4
<1>4. ASSUME NEW e \in 1 .. Len(c), c[e] = END
      PROVE  \E q \in Packets : \E b \in 1 .. Len(c) : Closes(c, e, b, q)
  <2>1. CASE e <= m
    <3>1. e \in 1 .. m
      BY <1>1, <2>1
    <3>2. r[e] = END
      BY <1>2, <1>4, <3>1
    <3>3. PICK q \in Packets : \E b \in 1 .. Len(r) : Closes(r, e, b, q)
      BY <3>1, <3>2 DEF Framed
    <3>4. PICK b \in 1 .. Len(r) : Closes(r, e, b, q)
      BY <3>3
    <3>5. FrameAt(c, b, q)
      BY <1>2, <3>4, FrameStays DEF Closes
    <3>6. b \in 1 .. Len(c)
      BY <1>1, <1>2
    <3>7. QED
      BY <3>4, <3>5, <3>6 DEF Closes
  <2>2. CASE ~(e <= m)
    <3> DEFINE i == e - m
    <3>1. i \in 1 .. Len(f) /\ m + i = e /\ m + i <= Len(c)
      BY <1>1, <1>2, <2>2
    <3> HIDE DEF i
    <3>2. f[i] = END
      BY <1>2, <1>4, <3>1
    <3>3. i = Len(f)
      BY <1>1, <3>1, <3>2
    <3> DEFINE b == m + 1
    <3>4. b \in 1 .. Len(c) /\ b + Len(f) - 1 <= Len(c) /\ e = (b - 1) + Len(f)
      BY <1>1, <3>1, <3>3
    <3>5. b - 1 = m
      BY <1>1
    <3>6. ASSUME NEW k \in 1 .. Len(f) PROVE c[(b - 1) + k] = f[k]
      <4>1. m + k <= Len(c)
        BY <1>1, <3>4, <3>5
      <4>2. c[m + k] = f[k]
        BY <1>2, <4>1
      <4>3. QED
        BY <3>5, <4>2
    <3> HIDE DEF b, m
    <3>7. FrameAt(c, b, p)
      BY <3>4, <3>6 DEF FrameAt, f
    <3>8. QED
      BY <3>4, <3>7 DEF Closes, f
  <2>3. QED
    BY <2>1, <2>2
<1>5. QED
  BY <1>3, <1>4 DEF Framed

LEMMA TakeKeepsFramed ==
  ASSUME NEW r \in Bytes, NEW t \in Bytes, NEW e,
         Framed(r), TakenTo(r, e, t), r[e] = END
  PROVE  Framed(t)
<1>1. /\ Len(r) \in Nat /\ Len(t) \in Nat
      /\ e \in 1 .. Len(r) /\ Len(t) = Len(r) - e
      /\ \A i \in 1 .. Len(t) : t[i] = r[e + i]
  BY DEF TakenTo, Bytes
<1>2. ASSUME NEW n \in 0 .. Len(t) - 1, n = 0 \/ t[n] = END PROVE t[n + 1] = BEGIN
  <2>1. e + n \in 0 .. Len(r) - 1 /\ e + n # 0 /\ n + 1 \in 1 .. Len(t)
        /\ e + (n + 1) = (e + n) + 1 /\ (n = 0 => e + n = e) /\ (n # 0 => n \in 1 .. Len(t))
    BY <1>1
  <2>2. r[e + n] = END
    BY <1>1, <1>2, <2>1
  <2> DEFINE m == e + n
  <2> HIDE DEF m
  <2>3. m \in 0 .. Len(r) - 1 /\ r[m] = END
    BY <2>1, <2>2 DEF m
  <2>4. r[m + 1] = BEGIN
    BY <2>3 DEF Framed
  <2>5. t[n + 1] = r[e + (n + 1)]
    BY <1>1, <2>1
  <2>6. QED
    BY <2>1, <2>4, <2>5 DEF m
<1>3. ASSUME NEW i \in 1 .. Len(t), t[i] = END
      PROVE  \E q \in Packets : \E b \in 1 .. Len(t) : Closes(t, i, b, q)
  <2>1. e + i \in 1 .. Len(r) /\ r[e + i] = END /\ e < e + i
    BY <1>1, <1>3
  <2>2. PICK q \in Packets : \E b \in 1 .. Len(r) : Closes(r, e + i, b, q)
    BY <2>1 DEF Framed
  <2>3. PICK b \in 1 .. Len(r) : Closes(r, e + i, b, q)
    BY <2>2
  <2>4. FrameAt(r, b, q) /\ e + i = (b - 1) + Len(Frame(q))
    BY <2>3 DEF Closes
  <2>5. FrameAt(t, b - e, q)
    BY <2>1, <2>4, FrameMoves
  <2>6. b - e \in 1 .. Len(t)
    BY <2>5 DEF FrameAt
  <2>7. Len(Frame(q)) \in Nat
    BY FrameTyped
  <2>8. i = ((b - e) - 1) + Len(Frame(q))
    BY <1>1, <2>4, <2>7
  <2>9. QED
    BY <2>5, <2>6, <2>8 DEF Closes
<1>4. QED
  BY <1>2, <1>3 DEF Framed
-----------------------------------------------------------------------------
(* The packets in a ring.                                                   *)
LEMMA PacketsUpToIs ==
  ASSUME NEW r \in Bytes
  PROVE  /\ PacketsUpTo(r) \in [0 .. Len(r) -> Seq(Bytes)]
         /\ PacketsUpTo(r)[0] = <<>>
         /\ \A n \in 1 .. Len(r) :
              PacketsUpTo(r)[n] = IF r[n] = END
                                  THEN Append(PacketsUpTo(r)[n - 1], Parsing(r, TRUE)[n].data)
                                  ELSE PacketsUpTo(r)[n - 1]
<1> DEFINE N == Len(r)
           parser == Parsing(r, TRUE)
           step(x, n) == IF r[n] = END THEN Append(x, parser[n].data) ELSE x
           s == [x \in Seq(Bytes) \X (1 .. N) |-> step(x[1], x[2])]
           Is(f) == f = [n \in 0 .. N |-> IF n = 0 THEN <<>>
                                          ELSE IF r[n] = END
                                               THEN Append(f[n - 1], parser[n].data)
                                               ELSE f[n - 1]]
<1>1. N \in Nat /\ <<>> \in Seq(Bytes)
  BY DEF Bytes
<1>2. \A n \in 1 .. N : parser[n].data \in Bytes
  <2>1. parser \in [0 .. N -> Parser]
    BY ParsingIs
  <2> HIDE DEF parser
  <2>2. QED
    BY <1>1, <2>1 DEF Parser
<1> HIDE DEF parser
<1>3. \A x \in Seq(Bytes) : \A n \in 1 .. N : step(x, n) \in Seq(Bytes)
  BY <1>2
<1>4. s \in [Seq(Bytes) \X (1 .. N) -> Seq(Bytes)]
  <2> HIDE DEF step
  <2>1. QED
    BY <1>3
<1>5. PICK f \in [0 .. N -> Seq(Bytes)] : Solves(f, <<>>, s, N)
  <2> HIDE DEF s, N
  <2>1. QED
    BY <1>1, <1>4, Recursion
<1>6. ASSUME NEW n \in 1 .. N PROVE s[<<f[n - 1], n>>] = step(f[n - 1], n)
  <2>1. f[n - 1] \in Seq(Bytes)
    <3>1. n - 1 \in 0 .. N
      BY <1>1
    <3>2. QED
      BY <3>1
  <2> DEFINE b == f[n - 1]
  <2>2. b \in Seq(Bytes)
    BY <2>1
  <2> HIDE DEF b, step
  <2>3. s[<<b, n>>] = step(b, n)
    BY <2>2
  <2>4. QED
    BY <2>3 DEF b
<1>7. Is(f)
  <2>1. f = [n \in 0 .. N |-> IF n = 0 THEN <<>> ELSE s[<<f[n - 1], n>>]]
    BY <1>5 DEF Solves
  <2> HIDE DEF s
  <2>2. \A n \in 0 .. N : n # 0 => n \in 1 .. N
    BY <1>1
  <2>3. \A n \in 0 .. N : f[n] = IF n = 0 THEN <<>> ELSE step(f[n - 1], n)
    BY <1>6, <2>1, <2>2
  <2>4. QED
    BY <1>5, <2>3
<1>8. PacketsUpTo(r) = CHOOSE g : Is(g)
  BY DEF PacketsUpTo, parser
<1>9. Is(PacketsUpTo(r))
  BY <1>7, <1>8
<1> DEFINE g == PacketsUpTo(r)
<1> HIDE DEF g, Is, s
<1>10. g = [n \in 0 .. N |-> IF n = 0 THEN <<>> ELSE step(g[n - 1], n)]
  BY <1>9 DEF g, Is
<1> HIDE DEF N, step
<1>11. DOMAIN g = 0 .. N /\ g[0] = <<>>
       /\ \A n \in 1 .. N : g[n] = step(g[n - 1], n)
  BY <1>1, <1>10
<1>12. \A n \in 0 .. N : g[n] \in Seq(Bytes)
  <2> DEFINE G == {n \in 0 .. N : g[n] \in Seq(Bytes)}
  <2>1. 0 \in G
    <3>1. 0 \in 0 .. N
      BY <1>1
    <3>2. g[0] \in Seq(Bytes)
      BY <1>1, <1>11, Zenon
    <3>3. QED
      BY <3>1, <3>2
  <2>2. ASSUME NEW n \in 1 .. N, n - 1 \in G PROVE n \in G
    <3>1. step(g[n - 1], n) \in Seq(Bytes)
      BY <1>3, <2>2
    <3>2. n \in 0 .. N
      BY <1>1
    <3>3. QED
      BY <1>11, <3>1, <3>2
  <2> HIDE DEF G
  <2>3. \A n \in 1 .. N : n - 1 \in G => n \in G
    BY <2>2
  <2>4. \A n \in 0 .. N : n \in G
    BY <1>1, <2>1, <2>3, UpTo
  <2>5. QED
    BY <2>4 DEF G
<1>13. g \in [0 .. N -> Seq(Bytes)]
  BY <1>10, <1>11, <1>12
<1>14. QED
  BY <1>11, <1>13 DEF g, N, step, parser

(* There are no more packets than bytes.                                    *)
LEMMA PacketsBounded ==
  ASSUME NEW r \in Bytes
  PROVE  PacketsOf(r) \in Seq(Bytes) /\ Len(PacketsOf(r)) <= Len(r)
<1> DEFINE u == PacketsUpTo(r)
           N == Len(r)
           G == {n \in 0 .. N : Len(u[n]) <= n}
<1>1. /\ N \in Nat /\ u \in [0 .. N -> Seq(Bytes)] /\ u[0] = <<>>
      /\ \A n \in 1 .. N : \/ u[n] = u[n - 1]
                           \/ u[n] = Append(u[n - 1], Parsing(r, TRUE)[n].data)
  <2>1. N \in Nat
    BY DEF Bytes
  <2>2. \A n \in 1 .. N : u[n] = IF r[n] = END THEN Append(u[n - 1], Parsing(r, TRUE)[n].data)
                                  ELSE u[n - 1]
    BY PacketsUpToIs
  <2>3. u \in [0 .. N -> Seq(Bytes)] /\ u[0] = <<>>
    BY PacketsUpToIs
  <2> HIDE DEF u, N
  <2>4. QED
    BY <2>1, <2>2, <2>3
<1> HIDE DEF u, N
<1>2. 0 \in G
  BY <1>1
<1>3. ASSUME NEW n \in 1 .. N, n - 1 \in G PROVE n \in G
  <2> DEFINE d == Parsing(r, TRUE)[n].data
             x == u[n - 1]
  <2>1. n \in 0 .. N /\ n - 1 \in 0 .. N
    BY <1>1
  <2>2. x \in Seq(Bytes) /\ Len(x) <= n - 1 /\ (u[n] = x \/ u[n] = Append(x, d))
    BY <1>1, <1>3, <2>1
  <2> HIDE DEF d, x
  <2>3. Len(Append(x, d)) = Len(x) + 1 /\ Len(x) \in Nat
    BY <2>2
  <2>4. Len(u[n]) <= n
    BY <2>1, <2>2, <2>3
  <2>5. QED
    BY <2>1, <2>4
<1> HIDE DEF G
<1>4. \A n \in 1 .. N : n - 1 \in G => n \in G
  BY <1>3
<1>5. \A n \in 0 .. N : n \in G
  BY <1>1, <1>2, <1>4, UpTo
<1>6. N \in 0 .. N
  BY <1>1
<1>7. QED
  BY <1>1, <1>5, <1>6 DEF G, PacketsOf, u, N

(* At the end mark of a frame the parser has the packet.                    *)
LEMMA AtEnd ==
  ASSUME NEW r \in Bytes, Framed(r), NEW e \in 1 .. Len(r), r[e] = END
  PROVE  \E p \in Packets : \E b \in 1 .. Len(r) :
           /\ Closes(r, e, b, p)
           /\ \A garbage \in BOOLEAN : Parsing(r, garbage)[e].data = p
<1>1. PICK p \in Packets : \E b \in 1 .. Len(r) : Closes(r, e, b, p)
  BY DEF Framed
<1>2. PICK b \in 1 .. Len(r) : Closes(r, e, b, p)
  BY <1>1
<1>3. \A garbage \in BOOLEAN : Parsing(r, garbage)[e].data = p
  BY <1>2, Decode DEF Closes
<1>4. QED
  BY <1>2, <1>3

(* What follows does not change the packets.                                *)
LEMMA PacketsStay ==
  ASSUME NEW r \in Bytes, NEW c \in Bytes, Framed(r), Begins(r, c)
  PROVE  \A n \in 0 .. Len(r) : PacketsUpTo(c)[n] = PacketsUpTo(r)[n]
<1> DEFINE u == PacketsUpTo(r)
           v == PacketsUpTo(c)
           N == Len(r)
           G == {n \in 0 .. N : v[n] = u[n]}
<1>1. /\ N \in Nat /\ Len(c) \in Nat /\ N <= Len(c)
      /\ \A n \in 1 .. N : c[n] = r[n]
  BY DEF Begins, Bytes
<1>2. /\ u[0] = <<>>
      /\ \A n \in 1 .. N : u[n] = IF r[n] = END THEN Append(u[n - 1], Parsing(r, TRUE)[n].data)
                                  ELSE u[n - 1]
  BY PacketsUpToIs
<1>3. /\ v[0] = <<>>
      /\ \A n \in 1 .. Len(c) : v[n] = IF c[n] = END THEN Append(v[n - 1], Parsing(c, TRUE)[n].data)
                                  ELSE v[n - 1]
  BY PacketsUpToIs
<1>4. ASSUME NEW n \in 1 .. N, r[n] = END
      PROVE  Parsing(c, TRUE)[n].data = Parsing(r, TRUE)[n].data
  <2>1. PICK p \in Packets : \E b \in 1 .. N :
           Closes(r, n, b, p) /\ \A garbage \in BOOLEAN : Parsing(r, garbage)[n].data = p
    BY <1>4, AtEnd
  <2>2. PICK b \in 1 .. N :
           Closes(r, n, b, p) /\ \A garbage \in BOOLEAN : Parsing(r, garbage)[n].data = p
    BY <2>1
  <2>3. FrameAt(c, b, p) /\ n = (b - 1) + Len(Frame(p))
    BY <2>2, FrameStays DEF Closes
  <2>4. Parsing(c, TRUE)[n].data = p
    BY <2>3, Decode
  <2>5. QED
    BY <2>2, <2>4
<1> HIDE DEF u, v, N
<1>5. 0 \in G
  BY <1>1, <1>2, <1>3
<1>6. ASSUME NEW n \in 1 .. N, n - 1 \in G PROVE n \in G
  <2>1. n \in 0 .. N /\ n \in 1 .. Len(c)
    BY <1>1
  <2>2. v[n - 1] = u[n - 1] /\ c[n] = r[n]
    BY <1>1, <1>6
  <2>3. v[n] = u[n]
    BY <1>2, <1>3, <1>4, <2>1, <2>2
  <2>4. QED
    BY <2>1, <2>3
<1> HIDE DEF G
<1>7. \A n \in 1 .. N : n - 1 \in G => n \in G
  BY <1>6
<1>8. \A n \in 0 .. N : n \in G
  BY <1>1, <1>5, <1>7, UpTo
<1>9. QED
  BY <1>8 DEF G, u, v, N

(* A packet that fits is the last one; of one that does not there is no trace *)
(* among the packets.                                                       *)
LEMMA PacketsPut ==
  ASSUME NEW r \in Bytes, NEW c \in Bytes, NEW p \in Packets,
         Framed(r), PutTo(r, Frame(p), c)
  PROVE  PacketsOf(c) = IF Len(c) = Len(r) + Len(Frame(p)) THEN Append(PacketsOf(r), p)
                        ELSE PacketsOf(r)
<1> DEFINE f == Frame(p)
           m == Len(r)
           v == PacketsUpTo(c)
           l == m + Len(f)
           G == {n \in 0 .. Len(c) : n >= m /\ n < l => v[n] = PacketsOf(r)}
<1>1. /\ m \in Nat /\ Len(c) \in Nat /\ Len(f) \in Nat \ {0, 1}
      /\ \A i \in 1 .. Len(f) : f[i] = END => i = Len(f)
      /\ f[Len(f)] = END
  BY FrameTyped DEF Bytes
<1>2. /\ Begins(r, c) /\ m <= Len(c) /\ Len(c) <= m + Len(f)
      /\ \A i \in 1 .. Len(f) : m + i <= Len(c) => c[m + i] = f[i]
  BY DEF PutTo, Begins
<1>3. \A n \in 1 .. Len(c) : v[n] = IF c[n] = END THEN Append(v[n - 1], Parsing(c, TRUE)[n].data)
                                    ELSE v[n - 1]
  BY PacketsUpToIs
<1>4. v[m] = PacketsOf(r)
  <2>1. m \in 0 .. m
    BY <1>1
  <2>2. QED
    BY <1>2, <2>1, PacketsStay DEF PacketsOf
<1>5. Framed(c)
  BY PutKeepsFramed
<1> HIDE DEF f, m, v
<1>6. 0 \in G
  <2>1. 0 \in 0 .. Len(c) /\ (0 >= m => m = 0)
    BY <1>1
  <2>2. QED
    BY <1>4, <2>1
<1>7. ASSUME NEW n \in 1 .. Len(c), n - 1 \in G PROVE n \in G
  <2> SUFFICES ASSUME n >= m, n < l PROVE v[n] = PacketsOf(r)
    BY <1>1
  <2>1. CASE n = m
    BY <1>4, <2>1
  <2>2. CASE n # m
    <3> DEFINE i == n - m
    <3>1. /\ i \in 1 .. Len(f) /\ i # Len(f) /\ m + i = n /\ m + i <= Len(c)
          /\ n - 1 >= m /\ n - 1 < l
      BY <1>1, <2>2
    <3> HIDE DEF i
    <3>2. c[n] # END
      BY <1>1, <1>2, <3>1
    <3>3. v[n] = v[n - 1]
      BY <1>3, <3>2
    <3>4. v[n - 1] = PacketsOf(r)
      BY <1>7, <3>1
    <3>5. QED
      BY <3>3, <3>4
  <2>3. QED
    BY <2>1, <2>2
<1> HIDE DEF G
<1>8. \A n \in 1 .. Len(c) : n - 1 \in G => n \in G
  BY <1>7
<1>9. \A n \in 0 .. Len(c) : n \in G
  BY <1>1, <1>6, <1>8, UpTo
<1>10. \A n \in 0 .. Len(c) : n >= m /\ n < l => v[n] = PacketsOf(r)
  BY <1>9 DEF G
<1>11. CASE Len(c) = l
  <2> DEFINE e == Len(c)
  <2>1. e \in 1 .. Len(c) /\ e = m + Len(f) /\ Len(f) \in 1 .. Len(f) /\ m + Len(f) <= Len(c)
    BY <1>1, <1>11
  <2>2. c[e] = END
    BY <1>1, <1>2, <2>1
  <2>3. v[e - 1] = PacketsOf(r)
    <3>1. e - 1 \in 0 .. Len(c) /\ e - 1 >= m /\ e - 1 < l
      BY <1>1, <1>11
    <3>2. QED
      BY <1>10, <3>1
  <2>4. FrameAt(c, m + 1, p)
    <3>1. m + 1 \in 1 .. Len(c) /\ (m + 1) + Len(f) - 1 <= Len(c) /\ (m + 1) - 1 = m
      BY <1>1, <2>1
    <3>2. ASSUME NEW i \in 1 .. Len(f) PROVE c[((m + 1) - 1) + i] = f[i]
      <4>1. m + i <= Len(c)
        BY <1>1, <2>1
      <4>2. c[m + i] = f[i]
        BY <1>2, <4>1
      <4>3. QED
        BY <3>1, <4>2
    <3>3. QED
      BY <3>1, <3>2 DEF FrameAt, f
  <2>5. ((m + 1) - 1) + Len(f) = e
    BY <1>1, <2>1
  <2>6. Parsing(c, TRUE)[((m + 1) - 1) + Len(f)].data = p
    BY <2>4, Decode DEF f
  <2>7. v[e] = Append(v[e - 1], Parsing(c, TRUE)[e].data)
    BY <1>3, <2>1, <2>2
  <2>8. v[e] = Append(PacketsOf(r), p)
    BY <2>3, <2>5, <2>6, <2>7
  <2>9. QED
    BY <1>11, <2>8 DEF PacketsOf, v, f, m
<1>12. CASE Len(c) # l
  <2>1. Len(c) \in 0 .. Len(c) /\ Len(c) >= m /\ Len(c) < l
    BY <1>1, <1>2, <1>12
  <2>2. v[Len(c)] = PacketsOf(r)
    BY <1>10, <2>1
  <2>3. QED
    BY <1>12, <2>2 DEF PacketsOf, v, f, m
<1>13. QED
  BY <1>11, <1>12

LEMMA NoPackets ==
  ASSUME NEW r \in Bytes, NEW e \in 0 .. Len(r), \A i \in 1 .. e : r[i] # END
  PROVE  PacketsUpTo(r)[e] = <<>>
<1> DEFINE u == PacketsUpTo(r)
           G == {n \in 0 .. e : u[n] = <<>>}
<1>1. Len(r) \in Nat /\ e \in Nat
  BY DEF Bytes
<1>2. u[0] = <<>> /\ \A n \in 1 .. Len(r) : r[n] # END => u[n] = u[n - 1]
  BY PacketsUpToIs
<1> HIDE DEF u
<1>3. 0 \in G
  BY <1>1, <1>2
<1>4. ASSUME NEW n \in 1 .. e, n - 1 \in G PROVE n \in G
  <2>1. n \in 0 .. e /\ n \in 1 .. Len(r)
    BY <1>1
  <2>2. u[n] = u[n - 1]
    BY <1>2, <2>1
  <2>3. QED
    BY <1>4, <2>1, <2>2
<1> HIDE DEF G
<1>5. \A n \in 1 .. e : n - 1 \in G => n \in G
  BY <1>4
<1>6. \A n \in 0 .. e : n \in G
  BY <1>1, <1>3, <1>5, UpTo
<1>7. e \in G
  BY <1>1, <1>6
<1>8. QED
  BY <1>7 DEF G, u

(* x is d and behind it y. *)
Heads(x, d, y) ==
  /\ x \in Seq(Bytes) /\ y \in Seq(Bytes) /\ Len(x) = Len(y) + 1
  /\ x[1] = d
  /\ \A i \in 1 .. Len(y) : x[i + 1] = y[i]

LEMMA HeadsAppend ==
  ASSUME NEW x, NEW d, NEW y, NEW z \in Bytes, Heads(x, d, y)
  PROVE  Heads(Append(x, z), d, Append(y, z))
<1> DEFINE a == Append(x, z)
           b == Append(y, z)
           n == Len(y)
<1>1. /\ x \in Seq(Bytes) /\ y \in Seq(Bytes) /\ Len(x) = n + 1 /\ n \in Nat
      /\ x[1] = d /\ \A i \in 1 .. n : x[i + 1] = y[i]
  BY DEF Heads
<1>2. /\ a \in Seq(Bytes) /\ Len(a) = Len(x) + 1
      /\ \A i \in 1 .. Len(x) : a[i] = x[i]
      /\ a[Len(x) + 1] = z
  BY <1>1
<1>3. /\ b \in Seq(Bytes) /\ Len(b) = n + 1
      /\ \A i \in 1 .. n : b[i] = y[i]
      /\ b[n + 1] = z
  BY <1>1
<1> HIDE DEF a, b, n
<1>4. a[1] = d
  <2>1. 1 \in 1 .. Len(x)
    BY <1>1
  <2>2. QED
    BY <1>1, <1>2, <2>1
<1>5. ASSUME NEW i \in 1 .. Len(b) PROVE a[i + 1] = b[i]
  <2>1. CASE i = n + 1
    BY <1>1, <1>2, <1>3, <2>1
  <2>2. CASE i # n + 1
    <3>1. i \in 1 .. n /\ i + 1 \in 1 .. Len(x)
      BY <1>1, <1>3, <2>2
    <3>2. QED
      BY <1>1, <1>2, <1>3, <3>1
  <2>3. QED
    BY <2>1, <2>2
<1>6. Len(a) = Len(b) + 1
  BY <1>1, <1>2, <1>3
<1>7. Heads(a, d, b)
  BY <1>2, <1>3, <1>4, <1>5, <1>6 DEF Heads
<1>8. QED
  BY <1>7 DEF a, b

LEMMA HeadsIs ==
  ASSUME NEW x, NEW d, NEW y, Heads(x, d, y)
  PROVE  x # <<>> /\ Head(x) = d /\ Tail(x) = y
<1>1. /\ x \in Seq(Bytes) /\ y \in Seq(Bytes) /\ Len(x) = Len(y) + 1
      /\ Len(y) \in Nat /\ x[1] = d
      /\ \A i \in 1 .. Len(y) : x[i + 1] = y[i]
  BY DEF Heads
<1>2. x # <<>>
  BY <1>1
<1> DEFINE t == Tail(x)
<1>3. t \in Seq(Bytes) /\ Len(t) = Len(x) - 1 /\ \A i \in 1 .. Len(x) - 1 : t[i] = x[i + 1]
  BY <1>1, <1>2
<1>4. Head(x) = d
  BY <1>1, <1>2
<1> HIDE DEF t
<1>5. Len(t) = Len(y) /\ \A i \in 1 .. Len(y) : t[i] = y[i]
  BY <1>1, <1>3
<1>6. t = y
  BY <1>1, <1>3, <1>5
<1>7. QED
  BY <1>2, <1>4, <1>6 DEF t

(* The first packet is the one the first end mark closes.                   *)
LEMMA PacketsTaken ==
  ASSUME NEW r \in Bytes, NEW t \in Bytes, NEW e, Framed(r), TakenTo(r, e, t),
         r[e] = END, \A i \in 1 .. e - 1 : r[i] # END
  PROVE  Heads(PacketsOf(r), Parsing(r, TRUE)[e].data, PacketsOf(t))
<1> DEFINE u == PacketsUpTo(r)
           v == PacketsUpTo(t)
           d == Parsing(r, TRUE)[e].data
           N == Len(t)
           G == {n \in 0 .. N : Heads(u[e + n], d, v[n])}
<1>1. /\ Len(r) \in Nat /\ N \in Nat /\ e \in 1 .. Len(r) /\ N = Len(r) - e
      /\ \A i \in 1 .. N : t[i] = r[e + i]
  BY DEF TakenTo, Bytes
<1>2. /\ u \in [0 .. Len(r) -> Seq(Bytes)]
      /\ \A n \in 1 .. Len(r) : u[n] = IF r[n] = END THEN Append(u[n - 1], Parsing(r, TRUE)[n].data)
                                  ELSE u[n - 1]
  BY PacketsUpToIs
<1>3. /\ v \in [0 .. N -> Seq(Bytes)] /\ v[0] = <<>>
      /\ \A n \in 1 .. N : v[n] = IF t[n] = END THEN Append(v[n - 1], Parsing(t, TRUE)[n].data)
                                  ELSE v[n - 1]
  BY PacketsUpToIs
<1>4. ASSUME NEW n \in 1 .. N, t[n] = END
      PROVE  /\ Parsing(t, TRUE)[n].data = Parsing(r, TRUE)[e + n].data
             /\ Parsing(t, TRUE)[n].data \in Bytes
  <2>1. e + n \in 1 .. Len(r) /\ r[e + n] = END /\ e < e + n
    BY <1>1, <1>4
  <2>2. PICK p \in Packets : \E b \in 1 .. Len(r) :
           Closes(r, e + n, b, p) /\ \A garbage \in BOOLEAN : Parsing(r, garbage)[e + n].data = p
    BY <2>1, AtEnd
  <2>3. PICK b \in 1 .. Len(r) :
           Closes(r, e + n, b, p) /\ \A garbage \in BOOLEAN : Parsing(r, garbage)[e + n].data = p
    BY <2>2
  <2>4. FrameAt(r, b, p) /\ e + n = (b - 1) + Len(Frame(p)) /\ Len(Frame(p)) \in Nat
    BY <2>3, FrameTyped DEF Closes
  <2>5. FrameAt(t, b - e, p)
    BY <2>1, <2>4, FrameMoves
  <2>6. Parsing(t, TRUE)[((b - e) - 1) + Len(Frame(p))].data = p
    BY <2>5, Decode
  <2>7. ((b - e) - 1) + Len(Frame(p)) = n
    BY <1>1, <2>4
  <2>8. p \in Bytes
    BY PacketTyped
  <2>9. QED
    BY <2>3, <2>6, <2>7, <2>8
<1>5. d \in Bytes
  <2>1. PICK p \in Packets : \E b \in 1 .. Len(r) :
           Closes(r, e, b, p) /\ \A garbage \in BOOLEAN : Parsing(r, garbage)[e].data = p
    BY <1>1, AtEnd
  <2>2. QED
    BY <2>1, PacketTyped
<1>6. u[e - 1] = <<>>
  <2>1. e - 1 \in 0 .. Len(r)
    BY <1>1
  <2>2. QED
    BY <2>1, NoPackets
<1> HIDE DEF u, v, N, d
<1>7. 0 \in G
  <2>1. u[e] = Append(<<>>, d)
    BY <1>1, <1>2, <1>6 DEF d
  <2> DEFINE a == <<d>>
  <2>2. Append(<<>>, d) = a
    OBVIOUS
  <2>3. a \in Seq(Bytes) /\ Len(a) = 1 /\ a[1] = d
    BY <1>5
  <2> DEFINE z == <<>>
  <2>4. z \in Seq(Bytes) /\ Len(z) = 0
    OBVIOUS
  <2>5. v[0] = z
    BY <1>3
  <2> HIDE DEF a, z
  <2>6. Heads(a, d, z)
    BY <2>3, <2>4 DEF Heads
  <2>7. e + 0 = e /\ 0 \in 0 .. N
    BY <1>1
  <2>8. u[e + 0] = a
    BY <2>1, <2>2, <2>7
  <2>9. QED
    BY <2>5, <2>6, <2>7, <2>8
<1>8. ASSUME NEW n \in 1 .. N, n - 1 \in G PROVE n \in G
  <2>1. /\ n \in 0 .. N /\ e + n \in 1 .. Len(r) /\ (e + n) - 1 = e + (n - 1)
        /\ t[n] = r[e + n]
    BY <1>1
  <2> DEFINE x == u[e + (n - 1)]
             y == v[n - 1]
             z == Parsing(t, TRUE)[n].data
  <2>2. Heads(x, d, y)
    BY <1>8
  <2>3. /\ u[e + n] = IF t[n] = END THEN Append(x, z) ELSE x
        /\ t[n] = END => z \in Bytes
    <3>1. u[e + n] = IF r[e + n] = END THEN Append(u[(e + n) - 1], Parsing(r, TRUE)[e + n].data)
                     ELSE u[(e + n) - 1]
      BY <1>2, <2>1
    <3>2. u[(e + n) - 1] = x
      BY <2>1
    <3>3. CASE t[n] = END
      <4>1. z = Parsing(r, TRUE)[e + n].data /\ z \in Bytes /\ r[e + n] = END
        BY <1>4, <2>1, <3>3
      <4> HIDE DEF x, z
      <4>2. QED
        BY <3>1, <3>2, <3>3, <4>1
    <3>4. CASE t[n] # END
      BY <2>1, <3>1, <3>2, <3>4
    <3>5. QED
      BY <3>3, <3>4
  <2>4. v[n] = IF t[n] = END THEN Append(y, z) ELSE y
    BY <1>3
  <2> HIDE DEF x, y, z
  <2>5. Heads(u[e + n], d, v[n])
    <3>1. CASE t[n] = END
      <4>1. Heads(Append(x, z), d, Append(y, z))
        BY <2>2, <2>3, <3>1, HeadsAppend
      <4>2. QED
        BY <2>3, <2>4, <3>1, <4>1
    <3>2. CASE t[n] # END
      BY <2>2, <2>3, <2>4, <3>2
    <3>3. QED
      BY <3>1, <3>2
  <2>6. QED
    BY <2>1, <2>5
<1> HIDE DEF G
<1>9. \A n \in 1 .. N : n - 1 \in G => n \in G
  BY <1>8
<1>10. \A n \in 0 .. N : n \in G
  BY <1>1, <1>7, <1>9, UpTo
<1>11. N \in G /\ e + N = Len(r)
  <2>1. N \in 0 .. N
    BY <1>1
  <2>2. QED
    BY <1>1, <1>10, <2>1
<1>12. Heads(u[Len(r)], d, v[N])
  BY <1>11 DEF G
<1>13. QED
  BY <1>12 DEF PacketsOf, u, v, d, N
-----------------------------------------------------------------------------
(* The operations. *)
LEMMA PutIs ==
  ASSUME NEW r \in Bytes, Len(r) <= QUEUE_BUFFER_SIZE, NEW p \in Packets, NEW c,
         c = RINGBUF_Put(r, Frame(p))
  PROVE  /\ c \in Bytes /\ Len(c) <= QUEUE_BUFFER_SIZE
         /\ PutTo(r, Frame(p), c)
         /\ Fits(r, p) <=> Len(c) = Len(r) + Len(Frame(p))
<1> DEFINE f == Frame(p)
           all == r \o f
           m == Len(r)
           n == Len(f)
<1>1. /\ f \in Bytes /\ n \in Nat /\ m \in Nat
      /\ QUEUE_BUFFER_SIZE \in Nat
  BY FrameTyped, QueueAssumption DEF Bytes
<1>2. Joined(r, f, all, m, n)
  BY <1>1, ConcatJoins
<1>3. m <= QUEUE_BUFFER_SIZE
  OBVIOUS
<1>4. c = IF Len(all) <= QUEUE_BUFFER_SIZE THEN all ELSE SubSeq(all, 1, QUEUE_BUFFER_SIZE)
  BY DEF RINGBUF_Put
<1>5. Fits(r, p) <=> m + n <= QUEUE_BUFFER_SIZE
  BY DEF Fits
<1> HIDE DEF f, all, m, n
<1>6. /\ all \in Bytes /\ Len(all) = m + n
      /\ \A i \in 1 .. m : all[i] = r[i]
      /\ \A i \in 1 .. n : all[m + i] = f[i]
  BY <1>2 DEF Joined
<1>7. /\ c \in Bytes /\ \A i \in 1 .. Len(c) : c[i] = all[i]
      /\ Len(c) = IF m + n <= QUEUE_BUFFER_SIZE THEN m + n ELSE QUEUE_BUFFER_SIZE
  <2>1. CASE m + n <= QUEUE_BUFFER_SIZE
    BY <1>4, <1>6, <2>1
  <2>2. CASE ~(m + n <= QUEUE_BUFFER_SIZE)
    <3> DEFINE k == QUEUE_BUFFER_SIZE
    <3>1. k \in 0 .. Len(all) /\ k \in Nat
      BY <1>1, <1>6, <2>2
    <3>2. c = SubSeq(all, 1, k)
      BY <1>4, <1>6, <2>2
    <3> HIDE DEF k
    <3>3. c \in Bytes /\ Len(c) = k /\ \A i \in 1 .. k : c[i] = all[i]
      BY <1>6, <3>1, <3>2 DEF Bytes
    <3>4. QED
      BY <2>2, <3>3 DEF k
  <2>3. QED
    BY <2>1, <2>2
<1>8. m <= Len(c) /\ Len(c) <= m + n /\ Len(c) \in Nat /\ Len(c) <= QUEUE_BUFFER_SIZE
      /\ (m + n <= QUEUE_BUFFER_SIZE <=> Len(c) = m + n)
  BY <1>1, <1>3, <1>7
<1>9. ASSUME NEW i \in 1 .. m PROVE c[i] = r[i]
  <2>1. i \in 1 .. Len(c)
    BY <1>1, <1>8
  <2>2. QED
    BY <1>6, <1>7, <2>1
<1>10. ASSUME NEW i \in 1 .. n, m + i <= Len(c) PROVE c[m + i] = f[i]
  <2>1. m + i \in 1 .. Len(c)
    BY <1>1, <1>8, <1>10
  <2>2. QED
    BY <1>6, <1>7, <2>1
<1>11. Begins(r, c)
  BY <1>8, <1>9 DEF Begins, m
<1>12. PutTo(r, f, c)
  BY <1>8, <1>10, <1>11 DEF PutTo, m, n
<1>13. QED
  BY <1>5, <1>7, <1>8, <1>12 DEF f, m, n

LEMMA FirstEndIs ==
  ASSUME NEW r \in Bytes, Ends(r) # {}
  PROVE  /\ FirstEnd(r) \in 1 .. Len(r) /\ r[FirstEnd(r)] = END
         /\ \A i \in 1 .. FirstEnd(r) - 1 : r[i] # END
<1>1. Ends(r) \subseteq 1 .. Len(r) /\ Len(r) \in Nat /\ DOMAIN r = 1 .. Len(r)
  BY DEF Ends, Bytes
<1>2. PICK s \in Ends(r) : \A o \in Ends(r) : ~(o < s)
  <2>1. Ends(r) \subseteq Nat
    BY <1>1
  <2>2. QED
    BY <2>1, LeastNumber
<1>3. \A o \in Ends(r) : s <= o
  BY <1>1, <1>2
<1> DEFINE e == FirstEnd(r)
<1>4. e \in Ends(r) /\ \A o \in Ends(r) : e <= o
  BY <1>2, <1>3 DEF FirstEnd
<1> HIDE DEF e
<1>5. e \in 1 .. Len(r) /\ r[e] = END
  BY <1>1, <1>4 DEF Ends
<1>6. ASSUME NEW i \in 1 .. e - 1 PROVE r[i] # END
  <2>1. i \in DOMAIN r /\ ~(e <= i)
    BY <1>1, <1>5
  <2>2. QED
    BY <1>4, <2>1 DEF Ends
<1>7. QED
  BY <1>5, <1>6 DEF e

LEMMA NoBytes == <<>> \in Bytes /\ Len(<<>>) = 0 /\ Framed(<<>>) /\ PacketsOf(<<>>) = <<>>
<1> DEFINE z == <<>>
<1>1. z \in Bytes /\ Len(z) = 0
  BY DEF Bytes
<1> HIDE DEF z
<1>2. Framed(z)
  BY <1>1 DEF Framed
<1>3. PacketsOf(z) = <<>>
  BY <1>1, PacketsUpToIs DEF PacketsOf
<1>4. QED
  BY <1>1, <1>2, <1>3 DEF z

LEMMA FromIs ==
  ASSUME NEW E, NEW q \in Seq(E), NEW k \in 0 .. Len(q)
  PROVE  /\ SubSeq(q, k + 1, Len(q)) \in Seq(E)
         /\ Len(SubSeq(q, k + 1, Len(q))) = Len(q) - k
         /\ \A i \in 1 .. Len(q) - k : SubSeq(q, k + 1, Len(q))[i] = q[k + i]
<1> DEFINE a == k + 1
           n == Len(q)
           t == SubSeq(q, a, n)
<1>1. n \in Nat /\ k \in Nat /\ k <= n
  OBVIOUS
<1>2. a \in 1 .. n + 1 /\ a = k + 1 /\ n = Len(q)
  BY <1>1
<1> HIDE DEF a, n
<1>3. t \in Seq(E)
  BY <1>1, <1>2
<1>4. Len(t) = (n - a) + 1
  BY <1>1, <1>2
<1>5. \A i \in 1 .. (n - a) + 1 : t[i] = q[(a + i) - 1]
  BY <1>1, <1>2
<1> HIDE DEF t
<1>6. Len(t) = n - k
  BY <1>1, <1>2, <1>4
<1>7. ASSUME NEW i \in 1 .. n - k PROVE t[i] = q[k + i]
  <2>1. (a + i) - 1 = k + i /\ i \in 1 .. (n - a) + 1
    BY <1>1, <1>2
  <2>2. QED
    BY <1>5, <2>1
<1>8. QED
  BY <1>3, <1>6, <1>7 DEF t, a, n

(* What taking a packet out does to a ring in order.                        *)
Out == [ok : BOOLEAN, packet : Bytes, rest : Bytes]

Taken(r, out) ==
  /\ out \in Out /\ Framed(out.rest) /\ Len(out.rest) <= Len(r)
  /\ out.ok => out.packet \in Packets /\ Heads(PacketsOf(r), out.packet, PacketsOf(out.rest))
  /\ ~out.ok => PacketsOf(r) = <<>> /\ out.rest = <<>>

LEMMA GetsIs ==
  ASSUME NEW r \in Bytes, Framed(r), NEW garbage \in BOOLEAN
  PROVE  Taken(r, QUEUE_Gets(r, garbage))
<1>1. Len(r) \in Nat /\ DOMAIN r = 1 .. Len(r)
  BY DEF Bytes
<1>2. CASE Ends(r) = {}
  <2> DEFINE out == [ok |-> FALSE, packet |-> <<>>, rest |-> <<>>]
  <2>1. QUEUE_Gets(r, garbage) = out
    BY <1>2 DEF QUEUE_Gets
  <2>2. \A i \in 1 .. Len(r) : r[i] # END
    BY <1>1, <1>2 DEF Ends
  <2>3. PacketsOf(r) = <<>>
    <3>1. Len(r) \in 0 .. Len(r)
      BY <1>1
    <3>2. QED
      BY <2>2, <3>1, NoPackets DEF PacketsOf
  <2>4. out.rest = <<>> /\ ~out.ok /\ out \in Out
    BY NoBytes DEF Out
  <2> HIDE DEF out
  <2>5. Taken(r, out)
    BY <1>1, <2>3, <2>4, NoBytes DEF Taken
  <2>6. QED
    BY <2>1, <2>5
<1>3. CASE Ends(r) # {}
  <2> DEFINE e == FirstEnd(r)
             t == SubSeq(r, e + 1, Len(r))
             d == Parsing(r, garbage)[e].data
             out == [ok |-> TRUE, packet |-> d, rest |-> t]
  <2>1. QUEUE_Gets(r, garbage) = out
    BY <1>3 DEF QUEUE_Gets
  <2>2. e \in 1 .. Len(r) /\ r[e] = END /\ \A i \in 1 .. e - 1 : r[i] # END
    BY <1>3, FirstEndIs
  <2>3. out.rest = t /\ out.ok = TRUE /\ out.packet = d
    OBVIOUS
  <2> HIDE DEF out, e, d
  <2>4. t \in Bytes /\ TakenTo(r, e, t)
    <3>1. t \in Seq(Byte) /\ Len(t) = Len(r) - e
          /\ \A i \in 1 .. Len(r) - e : t[i] = r[e + i]
      <4>1. r \in Seq(Byte) /\ e \in 0 .. Len(r)
        BY <1>1, <2>2 DEF Bytes
      <4>2. QED
        BY <4>1, FromIs
    <3> HIDE DEF t
    <3>2. QED
      BY <2>2, <3>1 DEF TakenTo, Bytes
  <2>5. Framed(t) /\ Len(t) <= Len(r)
    <3> HIDE DEF t
    <3>1. Framed(t)
      BY <2>2, <2>4, TakeKeepsFramed
    <3>2. Len(t) <= Len(r)
      BY <1>1, <2>4 DEF TakenTo
    <3>3. QED
      BY <3>1, <3>2
  <2> HIDE DEF t
  <2>6. Heads(PacketsOf(r), Parsing(r, TRUE)[e].data, PacketsOf(t))
    BY <2>2, <2>4, PacketsTaken
  <2>7. d \in Packets /\ d = Parsing(r, TRUE)[e].data
    <3>1. PICK p \in Packets : \E b \in 1 .. Len(r) :
            Closes(r, e, b, p) /\ \A x \in BOOLEAN : Parsing(r, x)[e].data = p
      BY <2>2, AtEnd
    <3>2. \A x \in BOOLEAN : Parsing(r, x)[e].data = p
      BY <3>1
    <3>3. d = p /\ Parsing(r, TRUE)[e].data = p
      BY <3>2 DEF d
    <3>4. QED
      BY <3>3
  <2>8. out \in Out
    <3>1. d \in Bytes
      BY <2>7, PacketTyped
    <3>2. QED
      BY <2>4, <3>1 DEF out, Out
  <2>9. Taken(r, out)
    BY <2>3, <2>5, <2>6, <2>7, <2>8 DEF Taken
  <2>10. QED
    BY <2>1, <2>9
<1>4. QED
  BY <1>2, <1>3

(* x is q without its first k elements.                                     *)
Behind(q, k, x) ==
  /\ x \in Seq(Bytes) /\ k \in 0 .. Len(q) /\ Len(x) = Len(q) - k
  /\ \A i \in 1 .. Len(x) : x[i] = q[k + i]

LEMMA BehindIs ==
  ASSUME NEW q \in Seq(Bytes), NEW k, NEW x, Behind(q, k, x)
  PROVE  x = SubSeq(q, k + 1, Len(q))
<1>1. /\ x \in Seq(Bytes) /\ k \in 0 .. Len(q) /\ Len(x) = Len(q) - k
      /\ \A i \in 1 .. Len(x) : x[i] = q[k + i]
  BY DEF Behind
<1> DEFINE t == SubSeq(q, k + 1, Len(q))
<1>2. t \in Seq(Bytes) /\ Len(t) = Len(q) - k /\ \A i \in 1 .. Len(q) - k : t[i] = q[k + i]
  BY <1>1, FromIs
<1> HIDE DEF t
<1>3. Len(x) = Len(t) /\ \A i \in 1 .. Len(x) : x[i] = t[i]
  BY <1>1, <1>2
<1>4. x = t
  BY <1>1, <1>2, <1>3
<1>5. QED
  BY <1>4 DEF t

LEMMA BehindHeads ==
  ASSUME NEW q \in Seq(Bytes), NEW k, NEW x, NEW d, NEW y, Behind(q, k, x), Heads(x, d, y)
  PROVE  Behind(q, k + 1, y)
<1>1. /\ k \in 0 .. Len(q) /\ Len(x) = Len(q) - k /\ Len(q) \in Nat
      /\ \A i \in 1 .. Len(x) : x[i] = q[k + i]
  BY DEF Behind
<1>2. /\ y \in Seq(Bytes) /\ Len(x) = Len(y) + 1 /\ Len(y) \in Nat
      /\ \A i \in 1 .. Len(y) : x[i + 1] = y[i]
  BY DEF Heads
<1>3. k + 1 \in 0 .. Len(q) /\ Len(y) = Len(q) - (k + 1)
  <2> DEFINE m == Len(q)
             n == Len(y)
  <2>1. k \in 0 .. m /\ m \in Nat /\ n \in Nat /\ n + 1 = m - k
    BY <1>1, <1>2
  <2> HIDE DEF m, n
  <2>2. k + 1 \in 0 .. m /\ n = m - (k + 1)
    BY <2>1
  <2>3. QED
    BY <2>2 DEF m, n
<1>4. ASSUME NEW i \in 1 .. Len(y) PROVE y[i] = q[(k + 1) + i]
  <2>1. i + 1 \in 1 .. Len(x) /\ k + (i + 1) = (k + 1) + i
    BY <1>1, <1>2
  <2>2. x[i + 1] = q[k + (i + 1)]
    BY <1>1, <2>1
  <2>3. QED
    BY <1>2, <2>1, <2>2
<1>5. QED
  BY <1>2, <1>3, <1>4 DEF Behind

(* The loop of PutForced: while packet p does not fit, each round has taken   *)
(* out one packet more of those that were in the ring.                      *)
InLoop == {x \in Out : Framed(x.rest) /\ Len(x.rest) <= QUEUE_BUFFER_SIZE}

Reached(q, p, n, x) ==
  /\ x.ok => \E k \in 0 .. Len(q) :
               Behind(q, k, PacketsOf(x.rest)) /\ (Fits(x.rest, p) \/ k = n)
  /\ ~x.ok => x.rest = <<>>

LEMMA RoundIs ==
  ASSUME NEW q \in Seq(Bytes), NEW p \in Packets, NEW x \in InLoop, NEW n \in Nat \ {0}
  PROVE  /\ Round(x, p) \in InLoop
         /\ Reached(q, p, n - 1, x) => Reached(q, p, n, Round(x, p))
<1>1. /\ x \in Out /\ x.rest \in Bytes /\ Framed(x.rest) /\ Len(x.rest) <= QUEUE_BUFFER_SIZE
      /\ QUEUE_BUFFER_SIZE \in Nat /\ Len(x.rest) \in Nat
  BY QueueAssumption DEF InLoop, Out, Bytes
<1>2. CASE ~x.ok \/ Fits(x.rest, p)
  <2>1. Round(x, p) = x
    BY <1>2 DEF Round
  <2>2. Reached(q, p, n - 1, x) => Reached(q, p, n, x)
    BY <1>2 DEF Reached
  <2>3. QED
    BY <2>1, <2>2
<1>3. CASE x.ok /\ ~Fits(x.rest, p)
  <2> DEFINE c == RINGBUF_Put(x.rest, Frame(p))
             y == QUEUE_Gets(c, FALSE)
  <2>1. Round(x, p) = y
    BY <1>3 DEF Round
  <2>2. /\ c \in Bytes /\ Len(c) <= QUEUE_BUFFER_SIZE /\ PutTo(x.rest, Frame(p), c)
        /\ Len(c) # Len(x.rest) + Len(Frame(p))
    <3> DEFINE r == x.rest
    <3>1. r \in Bytes /\ Len(r) <= QUEUE_BUFFER_SIZE
      BY <1>1
    <3>2. c = RINGBUF_Put(r, Frame(p))
      OBVIOUS
    <3> HIDE DEF c, r
    <3>3. /\ c \in Bytes /\ Len(c) <= QUEUE_BUFFER_SIZE /\ PutTo(r, Frame(p), c)
          /\ Fits(r, p) <=> Len(c) = Len(r) + Len(Frame(p))
      BY <3>1, <3>2, PutIs
    <3>4. QED
      BY <1>3, <3>3 DEF r
  <2> HIDE DEF c
  <2>3. Framed(c) /\ PacketsOf(c) = PacketsOf(x.rest)
    BY <1>1, <2>2, PutKeepsFramed, PacketsPut
  <2>4. Taken(c, y)
    BY <2>2, <2>3, GetsIs
  <2> HIDE DEF y
  <2>5. y \in InLoop
    <3>1. Len(c) \in Nat /\ y \in Out /\ Framed(y.rest) /\ Len(y.rest) <= Len(c)
      BY <2>2, <2>4 DEF Taken, Bytes
    <3>2. Len(y.rest) \in Nat
      BY <3>1 DEF Out, Bytes
    <3>3. Len(y.rest) <= QUEUE_BUFFER_SIZE
      BY <1>1, <2>2, <3>1, <3>2
    <3>4. QED
      BY <3>1, <3>3 DEF InLoop
  <2>6. ASSUME Reached(q, p, n - 1, x) PROVE Reached(q, p, n, y)
    <3>1. PICK k \in 0 .. Len(q) :
            Behind(q, k, PacketsOf(x.rest)) /\ (Fits(x.rest, p) \/ k = n - 1)
      BY <1>3, <2>6 DEF Reached
    <3>2. k + 1 = n
      BY <1>3, <3>1
    <3>3. ASSUME y.ok
          PROVE  n \in 0 .. Len(q) /\ Behind(q, n, PacketsOf(y.rest))
      <4>1. Heads(PacketsOf(x.rest), y.packet, PacketsOf(y.rest))
        BY <2>3, <2>4, <3>3 DEF Taken
      <4>2. Behind(q, k + 1, PacketsOf(y.rest))
        BY <3>1, <4>1, BehindHeads
      <4>3. QED
        BY <3>2, <4>2 DEF Behind
    <3>4. ~y.ok => y.rest = <<>>
      BY <2>4 DEF Taken
    <3>5. QED
      BY <3>3, <3>4 DEF Reached
  <2>7. QED
    BY <2>1, <2>5, <2>6
<1>4. QED
  BY <1>2, <1>3

LEMMA RoundsIs ==
  ASSUME NEW r \in Bytes, Framed(r), Len(r) <= QUEUE_BUFFER_SIZE, NEW p \in Packets
  PROVE  /\ Rounds(r, p)[Len(r) + 1] \in InLoop
         /\ Reached(PacketsOf(r), p, Len(r) + 1, Rounds(r, p)[Len(r) + 1])
<1> DEFINE N == Len(r) + 1
           q == PacketsOf(r)
           a == [ok |-> TRUE, packet |-> <<>>, rest |-> r]
           s == [x \in InLoop \X (1 .. N) |-> Round(x[1], p)]
           Is(f) == f = [n \in 0 .. N |-> IF n = 0 THEN a ELSE Round(f[n - 1], p)]
<1>1. N \in Nat /\ q \in Seq(Bytes)
  BY PacketsBounded DEF Bytes
<1>2. a \in InLoop /\ a.ok /\ a.rest = r
  BY NoBytes DEF InLoop, Out
<1>3. s \in [InLoop \X (1 .. N) -> InLoop]
  <2>1. \A x \in InLoop : Round(x, p) \in InLoop
    <3>1. 1 \in Nat \ {0}
      OBVIOUS
    <3>2. QED
      BY <1>1, <3>1, RoundIs
  <2> HIDE DEF N
  <2>2. QED
    BY <2>1
<1> HIDE DEF a, N
<1>4. PICK f \in [0 .. N -> InLoop] : Solves(f, a, s, N)
  <2> HIDE DEF s
  <2>1. QED
    BY <1>1, <1>2, <1>3, Recursion
<1>5. ASSUME NEW n \in 1 .. N PROVE s[<<f[n - 1], n>>] = Round(f[n - 1], p)
  <2>1. f[n - 1] \in InLoop
    <3>1. n - 1 \in 0 .. N
      BY <1>1
    <3>2. QED
      BY <3>1
  <2> DEFINE b == f[n - 1]
  <2>2. b \in InLoop
    BY <2>1
  <2> HIDE DEF b
  <2>3. s[<<b, n>>] = Round(b, p)
    BY <2>2
  <2>4. QED
    BY <2>3 DEF b
<1>6. Is(f)
  <2>1. f = [n \in 0 .. N |-> IF n = 0 THEN a ELSE s[<<f[n - 1], n>>]]
    BY <1>4 DEF Solves
  <2> HIDE DEF s
  <2>2. \A n \in 0 .. N : n # 0 => n \in 1 .. N
    BY <1>1
  <2>3. \A n \in 0 .. N : f[n] = IF n = 0 THEN a ELSE Round(f[n - 1], p)
    BY <1>5, <2>1, <2>2
  <2>4. QED
    BY <1>4, <2>3
<1>7. Rounds(r, p) = CHOOSE g : Is(g)
  BY DEF Rounds, a, N
<1>8. Is(Rounds(r, p))
  BY <1>6, <1>7
<1> DEFINE g == Rounds(r, p)
<1> HIDE DEF g, Is, s
<1>9. g = [n \in 0 .. N |-> IF n = 0 THEN a ELSE Round(g[n - 1], p)]
  BY <1>8 DEF g, Is
<1>10. DOMAIN g = 0 .. N /\ g[0] = a
       /\ \A n \in 1 .. N : g[n] = Round(g[n - 1], p)
  BY <1>1, <1>9
<1> DEFINE G == {n \in 0 .. N : g[n] \in InLoop /\ Reached(q, p, n, g[n])}
<1> HIDE DEF q
<1>11. 0 \in G
  <2>1. Reached(q, p, 0, a)
    <3>1. Behind(q, 0, q)
      BY <1>1 DEF Behind
    <3>2. 0 \in 0 .. Len(q)
      BY <1>1
    <3>3. PacketsOf(a.rest) = q
      BY <1>2 DEF q
    <3>4. QED
      BY <1>2, <3>1, <3>2, <3>3 DEF Reached
  <2>2. 0 \in 0 .. N
    BY <1>1
  <2>3. QED
    BY <1>2, <1>10, <2>1, <2>2
<1>12. ASSUME NEW n \in 1 .. N, n - 1 \in G PROVE n \in G
  <2>1. n \in Nat \ {0} /\ n \in 0 .. N
    BY <1>1
  <2> DEFINE x == g[n - 1]
  <2>2. x \in InLoop /\ Reached(q, p, n - 1, x) /\ g[n] = Round(x, p)
    BY <1>10, <1>12
  <2> HIDE DEF x, G
  <2>3. g[n] \in InLoop /\ Reached(q, p, n, g[n])
    BY <1>1, <2>1, <2>2, RoundIs
  <2>4. QED
    BY <2>1, <2>3 DEF G
<1> HIDE DEF G
<1>13. \A n \in 1 .. N : n - 1 \in G => n \in G
  BY <1>12
<1>14. \A n \in 0 .. N : n \in G
  BY <1>1, <1>11, <1>13, UpTo
<1>15. N \in G
  BY <1>1, <1>14
<1>16. QED
  BY <1>15 DEF G, g, q, N

(* The loop ends with the packet in the ring behind the youngest that were    *)
(* there, or with an empty ring.                                            *)
LEMMA ForcedIs ==
  ASSUME NEW r \in Bytes, Framed(r), Len(r) <= QUEUE_BUFFER_SIZE, NEW p \in Packets,
         NEW c, c = PutForced(r, p)
  PROVE  /\ c \in Bytes /\ Framed(c) /\ Len(c) <= QUEUE_BUFFER_SIZE
         /\ \/ PacketsOf(c) = <<>>
            \/ \E k \in 0 .. Len(PacketsOf(r)) :
                 PacketsOf(c) = Append(SubSeq(PacketsOf(r), k + 1, Len(PacketsOf(r))), p)
<1> DEFINE q == PacketsOf(r)
           x == Rounds(r, p)[Len(r) + 1]
           l == x.rest
<1>1. q \in Seq(Bytes) /\ Len(q) <= Len(r) /\ Len(q) \in Nat /\ Len(r) \in Nat
      /\ QUEUE_BUFFER_SIZE \in Nat
  BY PacketsBounded, QueueAssumption DEF Bytes
<1>2. x \in InLoop /\ Reached(q, p, Len(r) + 1, x)
  BY RoundsIs
<1>3. c = IF x.ok THEN RINGBUF_Put(l, Frame(p)) ELSE l
  BY DEF PutForced
<1> HIDE DEF q, x
<1>4. l \in Bytes /\ Framed(l) /\ Len(l) <= QUEUE_BUFFER_SIZE
  BY <1>2 DEF InLoop, Out
<1>5. CASE x.ok
  <2>1. PICK k \in 0 .. Len(q) : Behind(q, k, PacketsOf(l)) /\ (Fits(l, p) \/ k = Len(r) + 1)
    BY <1>2, <1>5 DEF Reached
  <2>2. Fits(l, p)
    BY <1>1, <2>1
  <2>3. c = RINGBUF_Put(l, Frame(p))
    BY <1>3, <1>5
  <2> HIDE DEF l
  <2>4. /\ c \in Bytes /\ Len(c) <= QUEUE_BUFFER_SIZE /\ PutTo(l, Frame(p), c)
        /\ Len(c) = Len(l) + Len(Frame(p))
    BY <1>4, <2>2, <2>3, PutIs
  <2>5. Framed(c) /\ PacketsOf(c) = Append(PacketsOf(l), p)
    BY <1>4, <2>4, PutKeepsFramed, PacketsPut
  <2>6. PacketsOf(l) = SubSeq(q, k + 1, Len(q))
    BY <1>1, <2>1, BehindIs
  <2>7. QED
    BY <2>4, <2>5, <2>6 DEF q
<1>6. CASE ~x.ok
  <2>1. l = <<>> /\ c = l
    BY <1>2, <1>3, <1>6 DEF Reached
  <2>2. QED
    BY <1>4, <2>1, NoBytes
<1>7. QED
  BY <1>5, <1>6
-----------------------------------------------------------------------------
(* Every end mark in the ring closes the frame of a packet that was queued.  *)
QueueInv ==
  /\ rb \in Bytes /\ Len(rb) <= QUEUE_BUFFER_SIZE /\ Framed(rb)
  /\ got \in Seq(Packets) /\ Len(got) <= 1

LEMMA QueueStarts == QueueInit => QueueInv /\ Fifo!Init
<1> SUFFICES ASSUME QueueInit PROVE QueueInv /\ Fifo!Init
  OBVIOUS
<1>1. rb = <<>> /\ got = <<>>
  BY DEF QueueInit
<1>2. rb \in Bytes /\ Len(rb) = 0 /\ Framed(rb) /\ PacketsOf(rb) = <<>>
  BY <1>1, NoBytes
<1>3. got \in Seq(Packets) /\ Len(got) = 0
  BY <1>1
<1>4. Len(rb) <= QUEUE_BUFFER_SIZE
  BY <1>2, QueueAssumption
<1>5. QED
  BY <1>1, <1>2, <1>3, <1>4 DEF QueueInv, Fifo!Init

LEMMA QueueSteps == QueueInv /\ QueueNext => QueueInv' /\ Fifo!Next
<1> SUFFICES ASSUME QueueInv, QueueNext PROVE QueueInv' /\ Fifo!Next
  OBVIOUS
<1> DEFINE q == PacketsOf(rb)
<1>1. rb \in Bytes /\ Len(rb) <= QUEUE_BUFFER_SIZE /\ Framed(rb)
  BY DEF QueueInv
<1>2. ASSUME got' = <<>> PROVE got' \in Seq(Packets) /\ Len(got') <= 1
  BY <1>2
<1>3. ASSUME NEW p \in Packets, Enqueue(p) PROVE QueueInv' /\ Fifo!Next
  <2>1. rb' = PutForced(rb, p) /\ got' = <<>>
    BY <1>3 DEF Enqueue
  <2>2. /\ rb' \in Bytes /\ Framed(rb') /\ Len(rb') <= QUEUE_BUFFER_SIZE
        /\ \/ PacketsOf(rb') = <<>>
           \/ \E k \in 0 .. Len(q) : PacketsOf(rb') = Append(SubSeq(q, k + 1, Len(q)), p)
    BY <1>1, <2>1, ForcedIs
  <2>3. Fifo!Publish(p)
    BY <2>1, <2>2 DEF Fifo!Publish, Fifo!Without
  <2>4. QED
    BY <1>2, <2>1, <2>2, <2>3 DEF QueueInv, Fifo!Next
<1>4. ASSUME NEW p \in Packets, Reply(p) PROVE QueueInv' /\ Fifo!Next
  <2>1. rb' = RINGBUF_Put(rb, Frame(p)) /\ got' = <<>>
    BY <1>4 DEF Reply
  <2>2. rb' \in Bytes /\ Len(rb') <= QUEUE_BUFFER_SIZE /\ PutTo(rb, Frame(p), rb')
    BY <1>1, <2>1, PutIs
  <2>3. Framed(rb') /\ (PacketsOf(rb') = Append(q, p) \/ PacketsOf(rb') = q)
    BY <1>1, <2>2, PutKeepsFramed, PacketsPut
  <2>4. Fifo!Reply(p)
    BY <2>1, <2>3 DEF Fifo!Reply
  <2>5. QED
    BY <1>2, <2>1, <2>2, <2>3, <2>4 DEF QueueInv, Fifo!Next
<1>5. ASSUME Take PROVE QueueInv' /\ Fifo!Next
  <2>1. PICK garbage \in BOOLEAN :
          /\ rb' = QUEUE_Gets(rb, garbage).rest
          /\ got' = IF QUEUE_Gets(rb, garbage).ok THEN <<QUEUE_Gets(rb, garbage).packet>> ELSE <<>>
    BY <1>5 DEF Take
  <2> DEFINE out == QUEUE_Gets(rb, garbage)
  <2>2. Taken(rb, out) /\ rb' = out.rest /\ got' = IF out.ok THEN <<out.packet>> ELSE <<>>
    BY <1>1, <2>1, GetsIs
  <2> HIDE DEF out
  <2>3. rb' \in Bytes /\ Framed(rb') /\ Len(rb') <= QUEUE_BUFFER_SIZE
    <3>1. rb' \in Bytes /\ Framed(rb') /\ Len(rb') <= Len(rb)
      BY <2>2 DEF Taken, Out
    <3>2. Len(rb') \in Nat /\ Len(rb) \in Nat
      BY <1>1, <3>1 DEF Bytes
    <3>3. QED
      BY <1>1, <3>1, <3>2, QueueAssumption
  <2>4. CASE out.ok
    <3>1. out.packet \in Packets /\ Heads(q, out.packet, PacketsOf(rb')) /\ got' = <<out.packet>>
      BY <2>2, <2>4 DEF Taken
    <3>2. q # <<>> /\ Head(q) = out.packet /\ Tail(q) = PacketsOf(rb')
      BY <3>1, HeadsIs
    <3>3. Fifo!Take
      BY <3>1, <3>2 DEF Fifo!Take
    <3>4. got' \in Seq(Packets) /\ Len(got') <= 1
      BY <3>1
    <3>5. QED
      BY <2>3, <3>3, <3>4 DEF QueueInv, Fifo!Next
  <2>5. CASE ~out.ok
    <3>1. q = <<>> /\ rb' = <<>> /\ got' = <<>>
      BY <2>2, <2>5 DEF Taken
    <3>2. PacketsOf(rb') = q
      BY <3>1, NoBytes
    <3>3. Fifo!TakeNothing
      BY <3>1, <3>2 DEF Fifo!TakeNothing
    <3>4. QED
      BY <1>2, <2>3, <3>1, <3>3 DEF QueueInv, Fifo!Next
  <2>6. QED
    BY <2>4, <2>5
<1>6. QED
  BY <1>3, <1>4, <1>5 DEF QueueNext

LEMMA QueueStutters == QueueInv /\ UNCHANGED queueVars =>
                         QueueInv' /\ UNCHANGED <<PacketsOf(rb), got>>
BY DEF QueueInv, queueVars

THEOREM QueueInvariant == QueueSpec => []QueueInv
<1>1. QueueInit => QueueInv
  BY QueueStarts
<1>2. QueueInv /\ [QueueNext]_queueVars => QueueInv'
  BY QueueSteps, QueueStutters
<1>3. QED
  BY <1>1, <1>2, PTL DEF QueueSpec

(* Type correctness: the ring never holds more than its size, and what MQTT_Task *)
(* takes out is a packet that was queued, byte for byte.                    *)
THEOREM QueueTyped == QueueSpec => []QueueTypeOK
<1>1. QueueInv => QueueTypeOK
  BY DEF QueueInv, QueueTypeOK, Bytes, Byte
<1>2. QED
  BY <1>1, QueueInvariant, PTL

(* The oldest byte of the ring is always a begin mark (queue.c, proto.c):    *)
(* PROTO_ParseByte never depends on the isBegin that PROTO_Init leaves unset. *)
THEOREM ReadingStartsAtFrame == QueueSpec => []StartsAtFrame
<1>1. QueueInv => StartsAtFrame
  <2> SUFFICES ASSUME QueueInv, rb # <<>> PROVE rb[1] = BEGIN
    BY DEF StartsAtFrame
  <2>1. Len(rb) \in Nat /\ Len(rb) # 0 /\ Framed(rb)
    BY DEF QueueInv, Bytes
  <2>2. 0 \in 0 .. Len(rb) - 1 /\ 0 + 1 = 1
    BY <2>1
  <2>3. QED
    BY <2>1, <2>2 DEF Framed
<1>2. QED
  BY <1>1, QueueInvariant, PTL

(* The ring with its marks, escapes and remains of packets implements the    *)
(* queue the client relies on (queue.c): packets leave it whole, unchanged and *)
(* in order; making room loses the oldest first.                            *)
THEOREM RingImplementsFifo == QueueSpec => ImplementsFifo
<1>1. QueueInit => Fifo!Init
  BY QueueStarts
<1>2. QueueInv /\ [QueueNext]_queueVars => [Fifo!Next]_<<PacketsOf(rb), got>>
  BY QueueSteps, QueueStutters
<1>3. QED
  BY <1>1, <1>2, QueueInvariant, PTL DEF QueueSpec, ImplementsFifo, Fifo!Spec
=============================================================================
