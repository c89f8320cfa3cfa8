----------------------------- MODULE MqttClient -----------------------------
(***************************************************************************)
(* The MQTT client of the router (mqtt/mqtt.c) and the callbacks that      *)
(* drive it: Wi-Fi events (user/user_main.c), the resolver, the espconn    *)
(* TCP library, a periodic timer, and the client's own task.  Each runs to *)
(* completion and so is one action; between any two of them anything else  *)
(* may happen.                                                             *)
(*                                                                         *)
(* espconn, the resolver and the broker are external: what they may do is  *)
(* read from how this code uses them.  A message is a unit of the outbound *)
(* queue, whose order and contents are the subject of MqttQueue.           *)
(***************************************************************************)
EXTENDS Naturals

CONSTANTS
  MQTT_KEEPALIVE,         \* seconds
  MQTT_RECONNECT_TIMEOUT, \* seconds
  MQTT_SEND_TIMOUT,       \* seconds (the source's spelling)
  DNS_TABLE_SIZE,         \* lookups the resolver can have under way
  QueueMax                \* bound: messages that fit into the queue

ASSUME ClientAssumption ==
  /\ MQTT_KEEPALIVE \in Nat /\ MQTT_RECONNECT_TIMEOUT \in Nat
  /\ MQTT_SEND_TIMOUT \in Nat \ {0} /\ DNS_TABLE_SIZE \in Nat \ {0}
  /\ QueueMax \in Nat \ {0}

VARIABLES
  wifi,           \* an address was obtained and the station did not lose it
  byName,         \* the host is a name, not an address in dotted form
  resolved,       \* the resolver may still hold the host's address
  lookups,        \* lookups of pCon under way, with a callback to come
  strays,         \* lookups of a pCon that was freed since
  ipKnown,        \* client->ip.addr # 0
  connState,
  posted,         \* the task's queue, of length one, is full
  timer,          \* mqttTimer is armed
  keepAliveTick, reconnectTick, sendTimeout,
  pending,        \* mqtt_state.pending_msg_type, connect or another
  link,           \* pCon is NULL, or what the TCP connection of pCon does
  inFlight,       \* what was sent is not yet acknowledged
  queued,         \* messages in msgQueue
  mqtt_connected, \* what the console reports
  accepted,       \* history: the broker accepted the CONNECT of this link
  disturbed,      \* history: a stray answer came since MQTT_Connect
  unstarted       \* history: why the last attempt to connect never began

network == <<wifi, byName, resolved>>
dns     == <<lookups, strays, ipKnown>>
ticks   == <<keepAliveTick, reconnectTick, sendTimeout>>
history == <<mqtt_connected, accepted, disturbed, unstarted>>
vars    == <<network, dns, connState, posted, timer, ticks, pending, link,
             inFlight, queued, history>>

ConnStates ==
  {"WIFI_INIT", "TCP_CONNECTING", "MQTT_CONNECT_SENDING", "MQTT_DATA",
   "MQTT_KEEPALIVE_SEND", "TCP_RECONNECT_REQ", "TCP_RECONNECT",
   "TCP_RECONNECT_DISCONNECTING", "TCP_DISCONNECTING", "TCP_DISCONNECTED"}
Session == {"MQTT_DATA", "MQTT_KEEPALIVE_SEND"}
InSession == connState \in Session

HalfKeepAlive == MQTT_KEEPALIVE \div 2     \* silence after which to ping
Links == {"null", "idle", "connecting", "open", "closing"}
-----------------------------------------------------------------------------
(* espconn_connect on a connection that is idle starts it, or returns an    *)
(* error for want of memory; on any other it returns an error.  The client  *)
(* looks at neither.                                                        *)
EspconnConnect(state) ==
  /\ \/ state = "idle" /\ link' = "connecting" /\ unstarted' = "no"
     \/ state = "idle" /\ link' = "idle" /\ unstarted' = "memory"
     \/ state # "idle" /\ link' = state /\ unstarted' = "no"

(* espconn_disconnect calls back later when the connection was open.  A     *)
(* connection that is not there, or not yet there, has no callback.         *)
EspconnDisconnect ==
  \/ link = "open" /\ link' = "closing"
  \/ link = "connecting" /\ link' \in {"idle", "connecting"}
  \/ link \in {"null", "idle", "closing"} /\ UNCHANGED link

(* espconn_send fails when there is no connection, and may fail while an    *)
(* earlier message is not acknowledged.                                     *)
SendOk   == link = "open"
SendFails == link # "open" \/ inFlight

(* mqtt_tcpclient_delete frees pCon.  Nothing takes back a lookup it asked  *)
(* for: the callback still comes, with the address of what was freed.       *)
FreePCon == strays' = strays + lookups

(* mqtt_tcpclient_delete, then a new pCon.  A dotted host is connected to   *)
(* at once.  A name is looked up; the resolver answers with a callback, or  *)
(* at once and without one, into client->ip, when it holds the address.     *)
MQTT_Connect ==
  /\ connState' = "TCP_CONNECTING"
  /\ keepAliveTick' = 0 /\ reconnectTick' = 0 /\ timer' = TRUE
  /\ inFlight' = FALSE /\ accepted' = FALSE /\ disturbed' = FALSE
  /\ FreePCon
  /\ \/ /\ ~byName /\ EspconnConnect("idle") /\ lookups' = 0 /\ UNCHANGED ipKnown
     \/ /\ byName /\ link' = "idle"
        /\ \/ /\ resolved /\ ipKnown' = TRUE /\ unstarted' = "name"
              /\ lookups' = 0
           \/ /\ strays' < DNS_TABLE_SIZE /\ lookups' = 1
              /\ unstarted' = "no" /\ UNCHANGED ipKnown
           \/ /\ strays' = DNS_TABLE_SIZE /\ lookups' = 0
              /\ unstarted' = "memory" /\ UNCHANGED ipKnown

(* MQTT_Publish and its like push out older messages, or lose everything.   *)
AfterPublish(n) == 0..(IF n = QueueMax THEN n ELSE n + 1)
-----------------------------------------------------------------------------
Init ==
  /\ wifi = FALSE /\ byName \in BOOLEAN /\ resolved = FALSE
  /\ lookups = 0 /\ strays = 0 /\ ipKnown = FALSE
  /\ connState = "WIFI_INIT" /\ posted = TRUE /\ timer = FALSE
  /\ keepAliveTick = 0 /\ reconnectTick = 0 /\ sendTimeout = 0
  /\ pending = "other" /\ link = "null" /\ inFlight = FALSE /\ queued = 0
  /\ mqtt_connected = FALSE /\ accepted = FALSE
  /\ disturbed = FALSE /\ unstarted = "no"

(* EVENT_STAMODE_GOT_IP; it also comes when the address changes.            *)
GotIp ==
  /\ wifi' = TRUE /\ MQTT_Connect
  /\ UNCHANGED <<byName, resolved, posted, sendTimeout, pending, queued,
                 mqtt_connected>>

(* EVENT_STAMODE_DISCONNECTED calls MQTT_Disconnect; it comes again with    *)
(* every attempt to associate that fails.                                   *)
WifiLost ==
  /\ wifi' = FALSE
  /\ connState' = "TCP_DISCONNECTING" /\ posted' = TRUE /\ timer' = FALSE
  /\ UNCHANGED <<byName, resolved, dns, ticks, pending, link, inFlight,
                 queued, history>>

(* The application: status topics, command output, GPIO changes.            *)
Publish ==
  /\ queued' \in AfterPublish(queued) /\ posted' = TRUE
  /\ UNCHANGED <<network, dns, connState, timer, ticks, pending, link,
                 inFlight, history>>

(* The address in the resolver expires.                                     *)
Forget ==
  /\ resolved /\ resolved' = FALSE
  /\ UNCHANGED <<wifi, byName, dns, connState, posted, timer, ticks, pending,
                 link, inFlight, queued, history>>
-----------------------------------------------------------------------------
(* mqtt_dns_found.  The callback gets the pCon that asked and finds the     *)
(* client through it; from there on it acts on the pCon of now.             *)
NotFound ==
  /\ connState' = "TCP_RECONNECT_REQ" /\ UNCHANGED <<resolved, posted, link, unstarted>>
Found ==
  /\ resolved' = TRUE /\ posted' = TRUE
  /\ \/ ~ipKnown /\ link # "null" /\ connState' = "TCP_CONNECTING" /\ EspconnConnect(link)
     \/ /\ ipKnown /\ UNCHANGED <<connState, link>>
        /\ unstarted' = IF link = "idle" THEN "name" ELSE unstarted
Answered ==
  UNCHANGED <<wifi, byName, ipKnown, timer, ticks, pending, inFlight, queued,
              mqtt_connected, accepted>>

DnsFailed ==
  /\ lookups > 0 /\ lookups' = lookups - 1 /\ UNCHANGED <<strays, disturbed>>
  /\ NotFound /\ Answered
DnsFound ==
  /\ lookups > 0 /\ lookups' = lookups - 1 /\ UNCHANGED <<strays, disturbed>>
  /\ Found /\ Answered

(* The answer to a lookup whose pCon was freed reads pCon->reverse there.   *)
(* The memory may still, or again, lead to the client.  Then it is taken    *)
(* for the answer to the lookup of now.                                     *)
StrayFailed ==
  /\ strays > 0 /\ strays' = strays - 1 /\ disturbed' = TRUE
  /\ UNCHANGED lookups /\ NotFound /\ Answered
StrayFound ==
  /\ strays > 0 /\ strays' = strays - 1 /\ disturbed' = TRUE
  /\ UNCHANGED lookups /\ Found /\ Answered

(* It may lead elsewhere: the client does not notice.                       *)
StrayLost ==
  /\ strays > 0 /\ strays' = strays - 1 /\ resolved' \in {resolved, TRUE}
  /\ UNCHANGED <<wifi, byName, lookups, ipKnown, connState, posted, timer, ticks,
                 pending, link, inFlight, queued, history>>

(* Or to an address that cannot be read or written, as the pCon of a client *)
(* that has none: an exception, and the processor starts again.             *)
StrayCrash ==
  /\ strays > 0 /\ UNCHANGED byName
  /\ wifi' = FALSE /\ resolved' = FALSE
  /\ lookups' = 0 /\ strays' = 0 /\ ipKnown' = FALSE
  /\ connState' = "WIFI_INIT" /\ posted' = TRUE /\ timer' = FALSE
  /\ keepAliveTick' = 0 /\ reconnectTick' = 0 /\ sendTimeout' = 0
  /\ pending' = "other" /\ link' = "null" /\ inFlight' = FALSE /\ queued' = 0
  /\ mqtt_connected' = FALSE /\ accepted' = FALSE
  /\ disturbed' = FALSE /\ unstarted' = "no"

(* mqtt_tcpclient_connect_cb sends the CONNECT. *)
Connected_mutant ==         \* queues the CONNECT instead of sending it
  /\ wifi /\ link = "connecting" /\ link' = "open"
  /\ queued' \in AfterPublish(queued)
  /\ connState' = "MQTT_CONNECT_SENDING" /\ posted' = TRUE
  /\ UNCHANGED <<network, dns, timer, ticks, pending, inFlight, history>>
Connected ==
  /\ wifi /\ link = "connecting" /\ link' = "open"
  /\ inFlight' = TRUE /\ sendTimeout' = MQTT_SEND_TIMOUT /\ pending' = "connect"
  /\ connState' = "MQTT_CONNECT_SENDING" /\ posted' = TRUE
  /\ UNCHANGED <<network, dns, timer, keepAliveTick, reconnectTick, queued, history>>

(* mqtt_tcpclient_recon_cb: no connection came about, or it broke.  The     *)
(* application is not told.                                                 *)
Broken_mutant ==            \* takes it for the end of an attempt, never of a session
  /\ link \in {"connecting", "open"} /\ link' = "idle"
  /\ inFlight' = FALSE /\ accepted' = FALSE /\ posted' = TRUE
  /\ connState' = IF connState = "TCP_CONNECTING" THEN "TCP_RECONNECT_REQ" ELSE connState
  /\ UNCHANGED <<network, dns, timer, ticks, pending, queued, mqtt_connected, disturbed,
                 unstarted>>
Broken ==
  /\ link \in {"connecting", "open"} /\ link' = "idle"
  /\ inFlight' = FALSE /\ accepted' = FALSE
  /\ connState' = "TCP_RECONNECT_REQ" /\ posted' = TRUE
  /\ UNCHANGED <<network, dns, timer, ticks, pending, queued, mqtt_connected, disturbed,
                 unstarted>>

(* mqtt_tcpclient_discon_cb, with mqttDisconnectedCb. *)
Disconnected_mutant ==      \* the state follows only when the client asked for it
  /\ link' = "idle" /\ inFlight' = FALSE /\ accepted' = FALSE
  /\ connState' = IF connState = "TCP_DISCONNECTING" THEN "TCP_DISCONNECTED" ELSE connState
  /\ mqtt_connected' = FALSE /\ posted' = TRUE
  /\ UNCHANGED <<network, dns, timer, ticks, pending, queued, disturbed, unstarted>>
Disconnected ==
  /\ link' = "idle" /\ inFlight' = FALSE /\ accepted' = FALSE
  /\ connState' = IF connState = "TCP_DISCONNECTING" THEN "TCP_DISCONNECTED"
                  ELSE "TCP_RECONNECT_REQ"
  /\ mqtt_connected' = FALSE /\ posted' = TRUE
  /\ UNCHANGED <<network, dns, timer, ticks, pending, queued, disturbed, unstarted>>
Closed     == link = "closing" /\ Disconnected
PeerCloses == link = "open" /\ Disconnected
-----------------------------------------------------------------------------
(* mqtt_tcpclient_recv, by what arrives and in which state. *)
Received ==
  /\ link = "open" /\ keepAliveTick' = 0 /\ posted' = TRUE
  /\ UNCHANGED <<network, dns, timer, reconnectTick, sendTimeout, pending, inFlight>>

(* CONNACK; mqttConnectedCb publishes "online" and subscribes.              *)
ConnAccepted ==
  /\ Received /\ connState = "MQTT_CONNECT_SENDING" /\ pending = "connect"
  /\ connState' = "MQTT_DATA" /\ accepted' = TRUE /\ mqtt_connected' = TRUE
  /\ \E n \in AfterPublish(queued) : queued' \in AfterPublish(n)
  /\ UNCHANGED <<link, disturbed, unstarted>>

ConnRefused ==
  /\ Received /\ connState = "MQTT_CONNECT_SENDING"
  /\ EspconnDisconnect
  /\ UNCHANGED <<connState, queued, history>>

(* What is answered is answered through the queue, if there is room.        *)
Message ==
  /\ Received
  /\ \/ UNCHANGED queued
     \/ InSession /\ queued < QueueMax /\ queued' = queued + 1
  /\ UNCHANGED <<connState, link, history>>

(* mqtt_tcpclient_sent_cb *)
Sent_mutant ==              \* the task is not posted
  /\ link = "open" /\ inFlight /\ inFlight' = FALSE
  /\ sendTimeout' = 0 /\ keepAliveTick' = 0
  /\ UNCHANGED <<network, dns, connState, posted, timer, reconnectTick, pending,
                 link, queued, history>>
Sent ==
  /\ link = "open" /\ inFlight /\ inFlight' = FALSE
  /\ sendTimeout' = 0 /\ keepAliveTick' = 0 /\ posted' = TRUE
  /\ UNCHANGED <<network, dns, connState, timer, reconnectTick, pending, link,
                 queued, history>>

(* mqtt_timer, each second while it is armed. *)
Tick_mutant ==              \* the reconnect is only counted, never asked for
  /\ timer
  /\ LET idle    == keepAliveTick + 1 > HalfKeepAlive
         due     == reconnectTick + 1 > MQTT_RECONNECT_TIMEOUT
     IN  /\ keepAliveTick' = IF connState = "MQTT_DATA" THEN keepAliveTick + 1 ELSE keepAliveTick
         /\ reconnectTick' = IF connState # "TCP_RECONNECT_REQ" THEN reconnectTick
                             ELSE IF due THEN 0 ELSE reconnectTick + 1
         /\ connState' = CASE connState = "MQTT_DATA" /\ idle -> "MQTT_KEEPALIVE_SEND"
                           [] OTHER -> connState
         /\ posted' = (posted \/ connState' # connState)
  /\ sendTimeout' = IF sendTimeout > 0 THEN sendTimeout - 1 ELSE 0
  /\ UNCHANGED <<network, dns, timer, pending, link, inFlight, queued, history>>
Tick_mutant_lookup ==       \* gives up an attempt that does not get anywhere
  /\ timer
  /\ LET idle    == keepAliveTick + 1 > HalfKeepAlive
         due     == reconnectTick + 1 > MQTT_RECONNECT_TIMEOUT
     IN  /\ keepAliveTick' = IF connState = "MQTT_DATA" THEN keepAliveTick + 1 ELSE keepAliveTick
         /\ reconnectTick' = IF connState \notin {"TCP_RECONNECT_REQ", "TCP_CONNECTING"} THEN reconnectTick
                             ELSE IF due THEN 0 ELSE reconnectTick + 1
         /\ connState' = CASE connState = "MQTT_DATA" /\ idle -> "MQTT_KEEPALIVE_SEND"
                           [] connState \in {"TCP_RECONNECT_REQ", "TCP_CONNECTING"} /\ due -> "TCP_RECONNECT"
                           [] OTHER -> connState
         /\ posted' = (posted \/ connState' # connState)
  /\ sendTimeout' = IF sendTimeout > 0 THEN sendTimeout - 1 ELSE 0
  /\ UNCHANGED <<network, dns, timer, pending, link, inFlight, queued, history>>
Tick ==
  /\ timer
  /\ LET idle    == keepAliveTick + 1 > HalfKeepAlive
         due     == reconnectTick + 1 > MQTT_RECONNECT_TIMEOUT
     IN  /\ keepAliveTick' = IF connState = "MQTT_DATA" THEN keepAliveTick + 1 ELSE keepAliveTick
         /\ reconnectTick' = IF connState # "TCP_RECONNECT_REQ" THEN reconnectTick
                             ELSE IF due THEN 0 ELSE reconnectTick + 1
         /\ connState' = CASE connState = "MQTT_DATA" /\ idle -> "MQTT_KEEPALIVE_SEND"
                           [] connState = "TCP_RECONNECT_REQ" /\ due -> "TCP_RECONNECT"
                           [] OTHER -> connState
         /\ posted' = (posted \/ connState' # connState)
  /\ sendTimeout' = IF sendTimeout > 0 THEN sendTimeout - 1 ELSE 0
  /\ UNCHANGED <<network, dns, timer, pending, link, inFlight, queued, history>>
-----------------------------------------------------------------------------
(* MQTT_Task, one action for each state that does something. *)
Task == posted /\ posted' = FALSE

Nothing ==
  /\ Task
  /\ \/ connState \in {"WIFI_INIT", "TCP_CONNECTING", "MQTT_CONNECT_SENDING",
                       "TCP_RECONNECT_REQ"}
     \/ connState = "MQTT_DATA" /\ (queued = 0 \/ sendTimeout # 0)
  /\ UNCHANGED <<network, dns, connState, timer, ticks, pending, link,
                 inFlight, queued, history>>

Reconnect ==
  /\ Task /\ connState = "TCP_RECONNECT" /\ MQTT_Connect
  /\ UNCHANGED <<network, sendTimeout, pending, queued, mqtt_connected>>

Disconnect ==
  /\ Task /\ connState \in {"TCP_DISCONNECTING", "TCP_RECONNECT_DISCONNECTING"}
  /\ EspconnDisconnect
  /\ UNCHANGED <<network, dns, connState, timer, ticks, pending, inFlight,
                 queued, history>>

Delete ==
  /\ Task /\ connState = "TCP_DISCONNECTED"
  /\ FreePCon /\ lookups' = 0
  /\ link' = "null" /\ inFlight' = FALSE /\ accepted' = FALSE
  /\ UNCHANGED <<network, ipKnown, connState, timer, ticks, pending, queued,
                 mqtt_connected, disturbed, unstarted>>

(* mqtt_send_keepalive posts the task again. *)
KeepAlive ==
  /\ posted /\ posted' = TRUE /\ connState = "MQTT_KEEPALIVE_SEND"
  /\ pending' = "other" /\ sendTimeout' = MQTT_SEND_TIMOUT
  /\ \/ /\ SendOk /\ inFlight' = TRUE
        /\ keepAliveTick' = 0 /\ connState' = "MQTT_DATA"
     \/ /\ SendFails /\ connState' = "TCP_RECONNECT_DISCONNECTING"
        /\ UNCHANGED <<keepAliveTick, inFlight>>
  /\ UNCHANGED <<network, dns, timer, reconnectTick, link, queued, history>>

(* The message is out of the queue whether or not it could be sent. *)
SendQueued ==
  /\ Task /\ connState = "MQTT_DATA" /\ queued > 0 /\ sendTimeout = 0
  /\ queued' = queued - 1 /\ pending' = "other" /\ sendTimeout' = MQTT_SEND_TIMOUT
  /\ \/ SendOk /\ inFlight' = TRUE
     \/ SendFails /\ UNCHANGED inFlight
  /\ UNCHANGED <<network, dns, connState, timer, keepAliveTick, reconnectTick,
                 link, history>>

Next ==
  \/ GotIp \/ WifiLost \/ Publish \/ Forget
  \/ DnsFailed \/ DnsFound \/ StrayFailed \/ StrayFound \/ StrayLost \/ StrayCrash
  \/ Connected \/ Broken \/ Closed \/ PeerCloses
  \/ ConnAccepted \/ ConnRefused \/ Message \/ Sent \/ Tick
  \/ Nothing \/ Reconnect \/ Disconnect \/ Delete \/ KeepAlive \/ SendQueued

(* The SDK runs what is posted and the timers that are armed, and calls     *)
(* back for what is under way.  A broker acknowledges what it receives,     *)
(* closes a connection that carries no session, and accepts some CONNECT    *)
(* if one arrives again and again; some attempt to reach it succeeds.  The  *)
(* timer counts seconds: it does not every time come before an answer is    *)
(* back (SF for Sent) or before a posted task runs (SF for SendQueued).     *)
TaskRuns == Nothing \/ Reconnect \/ Disconnect \/ Delete \/ KeepAlive \/ SendQueued
Fairness ==
  /\ SF_vars(connState = "MQTT_DATA" /\ Sent) /\ SF_vars(SendQueued)
  /\ WF_vars(TaskRuns) /\ WF_vars(Tick) /\ WF_vars(Sent) /\ WF_vars(Closed)
  /\ WF_vars(DnsFailed \/ DnsFound) /\ SF_vars(DnsFound)
  /\ WF_vars(~InSession /\ PeerCloses)
  /\ SF_vars(Connected) /\ SF_vars(ConnAccepted)

Spec == Init /\ [][Next]_vars
FairSpec == Spec /\ Fairness
-----------------------------------------------------------------------------
FlagsOK ==
  /\ wifi \in BOOLEAN /\ byName \in BOOLEAN /\ resolved \in BOOLEAN
  /\ ipKnown \in BOOLEAN /\ posted \in BOOLEAN /\ timer \in BOOLEAN
  /\ inFlight \in BOOLEAN /\ mqtt_connected \in BOOLEAN /\ accepted \in BOOLEAN
  /\ disturbed \in BOOLEAN
CountersOK ==
  /\ keepAliveTick \in 0..HalfKeepAlive + 1
  /\ reconnectTick \in 0..MQTT_RECONNECT_TIMEOUT
  /\ sendTimeout \in 0..MQTT_SEND_TIMOUT
  /\ lookups \in 0..1 /\ strays \in 0..DNS_TABLE_SIZE - lookups /\ queued \in 0..QueueMax
TypeOK ==
  /\ FlagsOK /\ CountersOK
  /\ connState \in ConnStates /\ link \in Links /\ pending \in {"connect", "other"}
  /\ unstarted \in {"no", "memory", "name"}

(* MQTT_Task sends queued messages and keep-alives by connState alone: in   *)
(* the states that send there must be a connection, and on it a CONNECT     *)
(* that the broker accepted, whichever callbacks came in whichever order.   *)
SessionStates == InSession => link = "open" /\ accepted

(* A CONNACK is never taken for an invalid packet: while the client waits   *)
(* for one, the CONNECT is still what pending_msg_type says was sent.       *)
ConnectPending == connState = "MQTT_CONNECT_SENDING" => pending = "connect"

(* mqtt_dns_found reads through the pCon that asked, and nothing takes a    *)
(* lookup back.  Wi-Fi events do free a pCon whose lookup is under way; but *)
(* the timer, the keep-alive, the events of a connection and the task of    *)
(* the client never do, unless a stray answer to an earlier lookup has put  *)
(* the client into a state that is not that of its attempt.                 *)
LookupKeepsPCon ==
  [][lookups > 0 /\ strays' > strays => GotIp \/ ~wifi \/ disturbed]_vars

(* When the console reports "disconnected" (user/user_main.c, show mqtt)    *)
(* there is no session.                                                     *)
DisconnectedIsTrue == ~mqtt_connected => ~InSession

(* The invariant the others follow from.  The keep-alive falls due one tick *)
(* at a time, and the states that tear a connection down for good belong to *)
(* a lost Wi-Fi, so that an address obtained since has left them.  An        *)
(* attempt that waits for the resolver is in no state a timer acts on.      *)
DueTick == connState = "MQTT_DATA" => keepAliveTick <= HalfKeepAlive
LeavingWithWifi == connState \in {"TCP_DISCONNECTING", "TCP_DISCONNECTED"} => ~wifi
Asking == wifi /\ lookups > 0 /\ ~disturbed => connState = "TCP_CONNECTING" /\ link = "idle"
IInv ==
  /\ TypeOK /\ SessionStates /\ ConnectPending /\ DisconnectedIsTrue
  /\ DueTick /\ LeavingWithWifi /\ Asking

(* As long as Wi-Fi stays, and every attempt to connect gets started, the   *)
(* client comes back into a session whatever happened to the last one.      *)
Reconnects == <>[](wifi /\ unstarted = "no") => []<>InSession

(* In a session that lasts the queue is worked off, although the answer to  *)
(* a message may be late and the timer posts no task when it gives up.      *)
QueueWorkedOff == <>[](InSession /\ queued > 0) => []<><<SendQueued>>_vars
=============================================================================
