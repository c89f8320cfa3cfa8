------------------------------ MODULE Console ------------------------------
(* The command console of user_main.c and the serial driver it sits on.      *)
(* The serial line, telnet clients, the web page and an MQTT topic put text  *)
(* into one ring of bytes, and every answer goes into another; the task is   *)
(* told by signals through a queue of two.  What a command does besides      *)
(* answering is in Device, Acl, Monitor, Ota and Gpio.                        *)
(*                                                                          *)
(* Handlers run one after the other, but the receive interrupt of the serial *)
(* line preempts them, and it writes the ring of what is typed: SerialIn is  *)
(* the interrupt between handlers, Interrupted and Collision are those that  *)
(* come while a handler reads or writes that ring.                           *)
(*                                                                          *)
(* Text is kept as pieces with their length: what a ring drops, it drops     *)
(* from the oldest piece.  A connection is known by its espconn, which the   *)
(* SDK may give to a later client again.                                     *)
EXTENDS Integers, FiniteSetsExt, SequencesExt

CONSTANTS
  Conns,        \* espconns
  Local,        \* those of them whose peer is on the access point's network
  ConfigAccess, \* config_access: the networks that may configure
  Words,        \* bound: the commands that are typed
  Tables,       \* bound: entries in a table that is shown
  PingCount,    \* echo requests of a ping (4)
  UpdateTexts,  \* bound: times an update tells how far it is
  MaxInputs     \* bound: pieces of text that arrive, and clients that connect

MAX_CON_CMD_SIZE  == 120
MAX_CON_SEND_SIZE == 1500
user_procTaskQueueLen == 2

AllWords == {"", "half", "long", "line", "help", "show", "quit", "nslookup",
             "ping", "scan", "acl_debug", "update", "reset"}

ASSUME ConsoleAssumption ==
  /\ Local \subseteq Conns /\ ConfigAccess \subseteq {"LOCAL", "REMOTE"}
  /\ Words \subseteq AllWords
  /\ Tables \subseteq Nat /\ PingCount \in Nat /\ UpdateTexts \in Nat
  /\ MaxInputs \in Nat
  /\ {"serial", "nobody", "many"} \cap Conns = {}

Serial == "serial"       \* a null espconn: the serial line, and MQTT
Parties == Conns \cup {Serial}

VARIABLES
  rx, tx,          \* console_rx_buffer and console_tx_buffer
  queue,           \* the signals posted to the task
  client,          \* what each espconn is: "none", "console", "web", or left
  currentconn,     \* who asked last for a scan or a ping
  deny_cb_conn, acl_debug,
  disconnect,      \* remote_console_disconnect
  asks,            \* requests the SDK has not answered
  inputs,
  user,            \* history: who uses the console: one party, "nobody", "many"
  quitter,         \* history: who typed quit, or "many": others were before it
  lost             \* history: the signals that were lost with text waiting

sdkVars  == <<client, currentconn, deny_cb_conn, acl_debug, asks>>
consoleVars == <<rx, tx, queue, sdkVars, disconnect, inputs, user, quitter, lost>>
-----------------------------------------------------------------------------
(* The two rings. *)
Bytes(ring) == FoldLeft(LAMBDA n, piece : n + piece.bytes, 0, ring)

(* What stays of a ring that keeps its youngest `room` bytes.                *)
Youngest(ring, room) ==
  LET Left(i) == Min({ring[i].bytes, room - Bytes(SubSeq(ring, i + 1, Len(ring)))})
      gone    == Cardinality({i \in DOMAIN ring : Left(i) <= 0})
  IN  [k \in 1 .. Len(ring) - gone |->
         [ring[gone + k] EXCEPT !.cut = @ \/ Left(gone + k) < ring[gone + k].bytes,
                                !.bytes = Left(gone + k)]]

Into(ring, piece, size) ==
  IF piece.bytes = 0 THEN ring
  ELSE IF piece.bytes < size THEN Append(Youngest(ring, size - piece.bytes), piece)
  ELSE <<[piece EXCEPT !.cut = @ \/ piece.bytes > size, !.bytes = size]>>

(* What one terminal sends at a time: a line, or the beginning of one.       *)
Typed(word, ended) ==
  [word |-> word, ended |-> ended, cut |-> FALSE,
   bytes |-> CASE word = "" -> 1 [] word = "long" -> 130 [] OTHER -> 10]

(* parse_str_into_tokens: the lines that wait are one to it.  The beginning  *)
(* of a word, or one the ring has cut, is a command nobody knows.            *)
Said(ring) == SelectSeq(ring, LAMBDA piece : piece.word # "")
Command(ring) ==
  IF Said(ring) = <<>> THEN ""
  ELSE IF Said(ring)[1].cut THEN "half" ELSE Said(ring)[1].word
MoreArguments(ring) == Len(Said(ring)) > 1

-----------------------------------------------------------------------------
(* system_os_post: a signal that finds the queue full is lost.               *)
Full(q) == Len(q) >= user_procTaskQueueLen
Posted(q, sig, par) == IF Full(q) THEN q ELSE Append(q, [sig |-> sig, par |-> par])

IsTx(signal) == signal.sig \in {"CONSOLE_TX", "CONSOLE_TX_RAW"}

(* to_console, and the task is told that it is for `to`.  q is the queue and  *)
(* missing the history to start from.                                        *)
Written(what, bytes) ==
  tx' = Into(tx, [what |-> what, bytes |-> bytes, cut |-> FALSE], MAX_CON_SEND_SIZE)

Tell(q, missing, sig, to) ==
  /\ queue' = Posted(q, sig, to)
  /\ lost' = IF Full(q) THEN missing \cup {"TX"} ELSE missing

(* Nothing of what was typed or asked is still to be done. *)
Quiet == rx = <<>> /\ tx = <<>> /\ queue = <<>> /\ asks = {}

(* History: party p uses the console. *)
UsedBy(p) == user' = IF Quiet \/ user = p THEN p ELSE "many"

(* History: and here it has been served. *)
Served == user' = IF Quiet' THEN "nobody" ELSE user

Counted == inputs < MaxInputs /\ inputs' = inputs + 1
-----------------------------------------------------------------------------
(* What comes in. *)

(* The task is told that a line has ended; q and missing as in Tell.         *)
LineTold(q, ended, from) == IF ended THEN Posted(q, "CONSOLE_RX", from) ELSE q
LineLost(q, missing, ended) == IF ended /\ Full(q) THEN missing \cup {"RX"} ELSE missing

(* What party `from` sends. *)
Typing(from, word, ended) ==
  /\ Counted /\ UsedBy(from)
  /\ rx' = Into(rx, Typed(word, ended), MAX_CON_CMD_SIZE)
  /\ queue' = LineTold(queue, ended, from)
  /\ lost' = LineLost(queue, lost, ended)
  /\ UNCHANGED <<tx, sdkVars, disconnect, quitter>>

(* uart0_rx_intr_handler, between handlers: characters, a carriage return    *)
(* among them is signalled.                                                  *)
SerialIn(word, ended) == Typing(Serial, word, ended)

(* tcp_client_recv_cb: the same with a line feed. *)
ClientIn(c, word, ended) == client[c] = "console" /\ Typing(c, word, ended)

(* mqttDataCb: a message on the command topic, and a line feed. *)
MqttIn_mutant(word) ==      \* does not tell the task
  /\ Counted /\ UsedBy(Serial)
  /\ rx' = Into(rx, Typed(word, TRUE), MAX_CON_CMD_SIZE)
  /\ UNCHANGED <<queue, lost, tx, sdkVars, disconnect, quitter>>
MqttIn(word) == Typing(Serial, word, TRUE)

(* uart0_rx_intr_handler while one of the last two writes: both write at one *)
(* head, ringbuf_memcpy_into moves it for each of them, and one that is full  *)
(* may seem empty.  What is left of the two texts is garbled.                *)
Garbled(ended) == [Typed("half", ended) EXCEPT !.cut = TRUE]

Collision(from, ended, typed) ==
  /\ from # Serial => client[from] = "console"
  /\ inputs + 2 <= MaxInputs /\ inputs' = inputs + 2
  /\ user' = IF from = Serial /\ (Quiet \/ user = Serial) THEN Serial ELSE "many"
  /\ \E old \in {rx} \cup {r \in {<<>>} : Bytes(rx) + 20 > MAX_CON_CMD_SIZE},
        text \in {Garbled(FALSE), Garbled(ended \/ typed)} :
       rx' = Into(old, text, MAX_CON_CMD_SIZE)
  /\ LET told == LineTold(queue, typed, Serial)
     IN  /\ queue' = LineTold(told, ended, from)
         /\ lost' = LineLost(told, LineLost(queue, lost, typed), ended)
  /\ UNCHANGED <<tx, sdkVars, disconnect, quitter>>

check_connection_access(c) == (IF c \in Local THEN "LOCAL" ELSE "REMOTE") \in ConfigAccess

(* A client connects: to the console (tcp_client_connected_cb) or to the web *)
(* page (web_config_client_connected_cb).  Both empty the rings.             *)
Connected(c, kind) ==
  /\ client[c] = "none" /\ check_connection_access(c)
  /\ Counted /\ UsedBy(c)
  /\ client' = [client EXCEPT ![c] = kind]
  /\ rx' = <<>> /\ tx' = <<>> /\ lost' = {}
  /\ UNCHANGED <<queue, currentconn, acl_debug, disconnect, asks, quitter>>

ConsoleConnected(c) == Connected(c, "console") /\ deny_cb_conn' = c
WebConnected(c)     == Connected(c, "web") /\ UNCHANGED deny_cb_conn

(* espconn_disconnect of c. *)
Closing(c) ==
  [client EXCEPT ![c] = CASE client[c] = "console" -> "quit"
                          [] client[c] = "web" -> "served" [] OTHER -> client[c]]

(* tcp_client_discon_cb, and web_config_client_discon_cb, which does nothing. *)
Disconnected(c) ==
  /\ client[c] # "none"
  /\ client' = [client EXCEPT ![c] = "none"]
  /\ IF client[c] \in {"console", "quit"}
       THEN acl_debug' = FALSE /\ deny_cb_conn' = Serial
       ELSE UNCHANGED <<acl_debug, deny_cb_conn>>
  /\ UNCHANGED <<rx, tx, queue, currentconn, disconnect, asks, inputs, user, quitter, lost>>

(* web_config_client_sent_cb: the page, or an answer, has reached its reader. *)
WebSent(c) ==
  /\ client[c] = "web" /\ client' = Closing(c)
  /\ UNCHANGED <<rx, tx, queue, currentconn, deny_cb_conn, acl_debug, disconnect,
                 asks, inputs, user, quitter, lost>>
-----------------------------------------------------------------------------
(* The answers, by their length. *)

Line == 40                 \* a usual answer of one line

(* help: one text after the other, all of which just fit the ring. *)
Help == 1460

(* show, with the lines of one table of n entries. *)
ShowConfig(n) == 430 + 47 * n      \* port mappings
ShowStats(n)  == 190 + 47 * n      \* stations
ShowRoute(n)  == 80 + 38 * n       \* routes and interfaces
ShowDhcp(n)   == 38 + 41 * n       \* leases
ShowMqtt      == 420
ShowGpio(n)   == 60 * n            \* pins that have a mode
ShowOta       == 90

Show ==
  UNION {{ShowConfig(n), ShowStats(n), ShowRoute(n), ShowDhcp(n), ShowGpio(n)} : n \in Tables}
    \cup {ShowMqtt, ShowOta}

(* The length of the answer to a command that answers at once.               *)
Answers(cmd, more) ==
  CASE cmd = "" -> {1}
    [] cmd = "help" -> {Help}
    [] cmd = "show" -> IF more THEN {Line} ELSE Show
    [] OTHER -> {Line}

(* The commands: who gave it is par; q and missing are the queue without its *)
(* signal, and the history.                                                  *)
(* command_handled: the answer goes into the ring and the task is told.      *)
Answer(par, q, missing, cmd, bytes) ==
  Written(cmd, bytes) /\ Tell(q, missing, "CONSOLE_TX", par)

(* The answer comes later. *)
Later(q, missing) == queue' = q /\ lost' = missing /\ UNCHANGED tx

Plain(par, q, missing, cmd, more) ==
  /\ \/ cmd \notin {"quit", "nslookup", "ping", "scan", "acl_debug", "update", "reset"}
     \/ cmd \in {"nslookup", "ping"} /\ more
  /\ \E bytes \in Answers(cmd, more) : Answer(par, q, missing, cmd, bytes)
  /\ UNCHANGED <<currentconn, asks, acl_debug, disconnect, quitter>>

AclDebug(par, q, missing, cmd) ==
  /\ cmd = "acl_debug"
  /\ Answer(par, q, missing, cmd, Line)
  /\ acl_debug' = TRUE
  /\ UNCHANGED <<currentconn, asks, disconnect, quitter>>

Quit(par, q, missing, cmd) ==
  /\ cmd = "quit"
  /\ disconnect' = TRUE
  /\ Answer(par, q, missing, cmd, Line)
  /\ quitter' = IF disconnect \/ Full(q) \/ \E i \in DOMAIN q : IsTx(q[i])
                  THEN "many" ELSE par
  /\ UNCHANGED <<currentconn, asks, acl_debug>>

(* The name is known, or cannot be; or the resolver has to ask.  Who wants   *)
(* to know is not noted.                                                    *)
NsLookup(par, q, missing, cmd, more) ==
  /\ cmd = "nslookup" /\ ~more
  /\ \/ Answer(par, q, missing, cmd, Line) /\ UNCHANGED asks
     \/ Later(q, missing) /\ asks' = asks \cup {<<"nslookup">>}
  /\ UNCHANGED <<currentconn, acl_debug, disconnect, quitter>>

Scan(par, q, missing, cmd) ==
  /\ cmd = "scan"
  /\ currentconn' = par /\ asks' = asks \cup {<<"scan">>}
  /\ Answer(par, q, missing, cmd, 13)
  /\ UNCHANGED <<acl_debug, disconnect, quitter>>

(* user_do_ping: ping_start, which forgets a ping that has not ended.        *)
Pings == {"ping"} \X (0 .. PingCount)
PingStarted(asked) == (asked \ Pings) \cup {<<"ping", PingCount>>}

Ping_mutant(par, q, missing, cmd, more) ==      \* does not note who asked
  /\ cmd = "ping" /\ ~more
  /\ \/ Answer(par, q, missing, cmd, 0) /\ asks' = PingStarted(asks)
     \/ Answer(par, q, missing, cmd, Line) /\ UNCHANGED asks
     \/ Later(q, missing) /\ asks' = asks \cup {<<"lookup">>}
  /\ UNCHANGED <<currentconn, acl_debug, disconnect, quitter>>
Ping(par, q, missing, cmd, more) ==
  /\ cmd = "ping" /\ ~more
  /\ currentconn' = par
  /\ \/ Answer(par, q, missing, cmd, 0) /\ asks' = PingStarted(asks)
     \/ Answer(par, q, missing, cmd, Line) /\ UNCHANGED asks
     \/ Later(q, missing) /\ asks' = asks \cup {<<"lookup">>}
  /\ UNCHANGED <<acl_debug, disconnect, quitter>>

(* ota update: OtaUpdate, which starts an update, or says that it cannot.    *)
Updates == {"update"} \X (0 .. UpdateTexts)

Update(par, q, missing, cmd) ==
  /\ cmd = "update"
  /\ currentconn' = par
  /\ \/ asks \cap Updates = {} /\ asks' = asks \cup {<<"update", UpdateTexts>>}
     \/ UNCHANGED asks
  /\ Answer(par, q, missing, cmd, Line)
  /\ UNCHANGED <<acl_debug, disconnect, quitter>>

(* system_restart, or an exception: nothing of the console is kept. *)
Restarted ==
  /\ rx' = <<>> /\ tx' = <<>> /\ queue' = <<>>
  /\ client' = [c \in Conns |-> "none"]
  /\ currentconn' = Serial /\ deny_cb_conn' = Serial
  /\ acl_debug' = FALSE /\ disconnect' = FALSE
  /\ asks' = {}
  /\ user' = "nobody" /\ quitter' = "nobody" /\ lost' = {}

(* console_handle_command takes all the ring holds, whosever it is; left is  *)
(* what is in the ring afterwards.                                           *)
Handle(ring, left, par, q, missing) ==
  LET cmd  == Command(ring)
      more == MoreArguments(ring)
  IN  /\ rx' = left
      /\ \/ Plain(par, q, missing, cmd, more)  \/ AclDebug(par, q, missing, cmd)
         \/ Quit(par, q, missing, cmd)         \/ NsLookup(par, q, missing, cmd, more)
         \/ Ping(par, q, missing, cmd, more)   \/ Scan(par, q, missing, cmd)
         \/ Update(par, q, missing, cmd)
      /\ UNCHANGED <<client, deny_cb_conn>>

Reset(ring) == Command(ring) = "reset" /\ Restarted

(* uart0_rx_intr_handler while console_handle_command works: the line that    *)
(* has begun stays in the ring, and its signal is posted before the answer's. *)
(* When the ring overflows before it is read, the number of bytes that was    *)
(* counted is read of what is left.  When it does while it is read, tail is   *)
(* moved by both: the command is garbled, and the ring too, or tail has left  *)
(* it.                                                                       *)
Rest(piece, room) ==
  IF room > 0 THEN <<[piece EXCEPT !.cut = TRUE, !.bytes = room]>> ELSE <<>>

Interrupted(ring, word, ended, par, q, who) ==
  LET typed   == Typed(word, ended)
      new     == Into(ring, typed, MAX_CON_CMD_SIZE)
      told    == LineTold(q, ended, Serial)
      missing == LineLost(q, lost \ {"RX"}, ended)
      overflows == Bytes(ring) + typed.bytes > MAX_CON_CMD_SIZE
  IN  \/ /\ \/ Handle(ring, Into(<<>>, typed, MAX_CON_CMD_SIZE), par, told, missing)
            \/ /\ overflows
               /\ \/ Handle(new, Rest(typed, Bytes(new) - Bytes(ring)), par, told, missing)
                  \/ \E left \in {<<>>, <<Garbled(ended)>>} :
                       Handle(<<Garbled(FALSE)>>, left, par, told, missing)
         /\ user' = who
      \/ overflows /\ Restarted

(* handle_set_cmd: a form field is put behind what was typed, and all of it  *)
(* is handled at once, by a handler that may itself be interrupted.          *)
WebIn(c, word) ==
  LET ring == Into(rx, Typed(word, FALSE), MAX_CON_CMD_SIZE)
  IN  /\ client[c] = "web"
      /\ \/ /\ Counted /\ UsedBy(c)
            /\ Handle(ring, <<>>, c, queue, lost \ {"RX"})
         \/ Counted /\ Reset(ring)

WebInterrupted(c, word, typed, ended) ==
  LET ring == Into(rx, Typed(word, FALSE), MAX_CON_CMD_SIZE)
  IN  /\ client[c] = "web"
      /\ inputs + 2 <= MaxInputs /\ inputs' = inputs + 2
      /\ \/ Interrupted(ring, typed, ended, c, queue, "many")
         \/ /\ Handle(<<Garbled(FALSE)>>, <<>>, c, LineTold(queue, ended, Serial),
                      LineLost(queue, lost \ {"RX"}, ended))
            /\ user' = "many"
-----------------------------------------------------------------------------
(* user_procTask, with the first signal. *)
TaskRx ==
  /\ queue # <<>> /\ Head(queue).sig = "CONSOLE_RX"
  /\ \/ Handle(rx, <<>>, Head(queue).par, Tail(queue), lost \ {"RX"}) /\ Served
     \/ Reset(rx)
  /\ UNCHANGED inputs

TaskRxInterrupted(word, ended) ==
  /\ queue # <<>> /\ Head(queue).sig = "CONSOLE_RX"
  /\ Counted
  /\ Interrupted(rx, word, ended, Head(queue).par, Tail(queue),
                 IF user = Serial THEN user ELSE "many")

(* console_send_response, which without memory leaves the text where it is.  *)
SendResponse ==
  \/ tx' = <<>> /\ lost' = lost \ {"TX"}
  \/ UNCHANGED tx /\ lost' = lost \cup {"TX"}

TaskTx_mutant ==      \* a quit on the serial line is remembered
  /\ queue # <<>> /\ IsTx(Head(queue))
  /\ SendResponse
  /\ queue' = Tail(queue)
  /\ LET par == Head(queue).par
     IN  IF par # Serial
           THEN /\ client' = IF disconnect THEN Closing(par) ELSE client
                /\ disconnect' = FALSE /\ quitter' = "nobody"
           ELSE UNCHANGED <<client, disconnect, quitter>>
  /\ UNCHANGED <<rx, currentconn, deny_cb_conn, acl_debug, asks, inputs>>
  /\ Served
TaskTx ==
  /\ queue # <<>> /\ IsTx(Head(queue))
  /\ SendResponse
  /\ queue' = Tail(queue)
  /\ LET par == Head(queue).par
     IN  client' = IF par # Serial /\ disconnect THEN Closing(par) ELSE client
  /\ disconnect' = FALSE /\ quitter' = "nobody"
  /\ UNCHANGED <<rx, currentconn, deny_cb_conn, acl_debug, asks, inputs>>
  /\ Served
-----------------------------------------------------------------------------
(* What the SDK was asked for.  The answer goes to currentconn. *)
LateAnswer(sig, bytes) ==
  /\ Written("late", bytes) /\ Tell(queue, lost, sig, currentconn)
  /\ UNCHANGED <<rx, client, currentconn, deny_cb_conn, acl_debug, disconnect,
                 inputs, quitter>>

(* dns_resolved.  (History: nslookup did not set currentconn, so that this    *)
(* is somebody else's console when it is not the asker's.)                   *)
DnsResolved ==
  /\ <<"nslookup">> \in asks /\ asks' = asks \ {<<"nslookup">>}
  /\ LateAnswer("CONSOLE_TX", Line)
  /\ user' = IF user = currentconn THEN user ELSE "many"

(* user_do_ping, called by the resolver. *)
PingResolved ==
  /\ <<"lookup">> \in asks
  /\ \/ /\ asks' = asks \ {<<"lookup">>}
        /\ LateAnswer("CONSOLE_TX", Line)
     \/ /\ asks' = PingStarted(asks \ {<<"lookup">>})
        /\ UNCHANGED <<rx, tx, queue, client, currentconn, deny_cb_conn, acl_debug,
                       disconnect, inputs, quitter, lost>>
  /\ UNCHANGED user

user_ping_recv ==
  /\ \E n \in 1 .. PingCount :
       <<"ping", n>> \in asks /\ asks' = (asks \ Pings) \cup {<<"ping", n - 1>>}
  /\ LateAnswer("CONSOLE_TX_RAW", Line)
  /\ UNCHANGED user

user_ping_sent ==
  /\ <<"ping", 0>> \in asks /\ asks' = asks \ Pings
  /\ LateAnswer("CONSOLE_TX", Line)
  /\ UNCHANGED user

scan_done ==
  /\ <<"scan">> \in asks /\ asks' = asks \ {<<"scan">>}
  /\ \E n \in Tables : LateAnswer("CONSOLE_TX", 1 + 60 * n)
  /\ UNCHANGED user

(* The update tells how far it is (upgrade_recvcb) ...                       *)
update_tells ==
  /\ \E n \in 1 .. UpdateTexts :
       <<"update", n>> \in asks /\ asks' = (asks \ Updates) \cup {<<"update", n - 1>>}
  /\ LateAnswer("CONSOLE_TX_RAW", Line)
  /\ UNCHANGED user

(* ... and ends with a restart, or in OtaUpdate_CallBack, which puts its text *)
(* into the ring and tells nobody.                                           *)
OtaUpdate_CallBack ==
  /\ asks \cap Updates # {}
  /\ \/ Restarted
     \/ /\ asks' = asks \ Updates
        /\ Written("failed", 26)
        /\ UNCHANGED <<rx, queue, client, currentconn, deny_cb_conn, acl_debug,
                       disconnect, user, quitter, lost>>
  /\ UNCHANGED inputs

(* acl_deny_cb: a packet was denied. *)
acl_deny_cb ==
  /\ acl_debug /\ Counted /\ UsedBy(deny_cb_conn)
  /\ Written("deny", 70) /\ Tell(queue, lost, "CONSOLE_TX", deny_cb_conn)
  /\ UNCHANGED <<rx, sdkVars, disconnect, quitter>>
-----------------------------------------------------------------------------
ConsoleInit ==
  /\ rx = <<>> /\ tx = <<>> /\ queue = <<>>
  /\ client = [c \in Conns |-> "none"]
  /\ currentconn = Serial /\ deny_cb_conn = Serial
  /\ acl_debug = FALSE /\ disconnect = FALSE
  /\ asks = {} /\ inputs = 0
  /\ user = "nobody" /\ quitter = "nobody" /\ lost = {}

Lines == {<<w, TRUE>> : w \in Words} \cup {<<"half", FALSE>>}

Incoming ==
  \/ \E l \in Lines : SerialIn(l[1], l[2])
  \/ \E c \in Conns, l \in Lines : ClientIn(c, l[1], l[2])
  \/ \E w \in Words \ {""} : MqttIn(w)
  \/ \E c \in Conns, w \in Words \ {""} : WebIn(c, w)

Interrupts ==
  \/ \E p \in Parties, ended \in BOOLEAN, typed \in BOOLEAN : Collision(p, ended, typed)
  \/ \E l \in Lines : TaskRxInterrupted(l[1], l[2])
  \/ \E c \in Conns, w \in Words \ {""}, l \in Lines : WebInterrupted(c, w, l[1], l[2])

Coming == \E c \in Conns : ConsoleConnected(c) \/ WebConnected(c)
Going  == \E c \in Conns : Disconnected(c) \/ WebSent(c)
Sdk    == \/ DnsResolved \/ PingResolved \/ user_ping_recv \/ user_ping_sent
          \/ scan_done \/ update_tells \/ OtaUpdate_CallBack \/ acl_deny_cb

ConsoleNext == Incoming \/ Interrupts \/ Coming \/ Going \/ TaskRx \/ TaskTx \/ Sdk

ConsoleSpec == ConsoleInit /\ [][ConsoleNext]_consoleVars
-----------------------------------------------------------------------------
TxParties == {queue[i].par : i \in {j \in DOMAIN queue : IsTx(queue[j])}}

(* What was typed to its end is handled, also when it was typed while a       *)
(* handler was at work, and what was answered is sent: the task has been      *)
(* told, or could not be (the queue of two was full, or the sending found no  *)
(* memory).  The one text that may wait without a signal is that of an update *)
(* that failed: OtaUpdate_CallBack writes it and posts nothing.               *)
NothingStranded ==
  /\ (\E i \in DOMAIN rx : rx[i].ended) =>
       "RX" \in lost \/ \E i \in DOMAIN queue : ~IsTx(queue[i])
  /\ (\E i \in DOMAIN tx : tx[i].what # "failed") =>
       "TX" \in lost \/ TxParties # {}

(* While only one party uses the console, it gets all the answers, late ones  *)
(* of scan, ping and ota update included, and the text of help as a whole.   *)
AnswersReachAsker ==
  /\ user \in Parties => TxParties \subseteq {user}
  /\ Len(tx) = 1 /\ tx[1].what = "help" => ~tx[1].cut

(* quit ends the session it was typed in, unless another answer was before   *)
(* its own, or its signal was lost: the flag says that somebody has quit,    *)
(* not who.                                                                 *)
QuitReachesAsker ==
  disconnect /\ quitter # "many" =>
    \E i \in DOMAIN queue :
      /\ IsTx(queue[i]) /\ queue[i].par = quitter
      /\ \A j \in 1 .. i - 1 : ~IsTx(queue[j])
=============================================================================
