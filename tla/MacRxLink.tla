------------------------------ MODULE MacRxLink ------------------------------
(***************************************************************************)
(* The conversation between ethernet_rx_server and its clients, token by   *)
(* token (ethernet_rx_server.xc, ethernet_rx_client.xc), and the link      *)
(* status that the tx server's thread hands to it (link_status.c).         *)
(*                                                                         *)
(* The server wakes a client with a bare END token, the same token that    *)
(* acknowledges the two halves of a request.  A client may start a command *)
(* while a notification is on its way to it and then takes that for the    *)
(* acknowledgement; the server knows (notified) and sends the notification *)
(* again after the command (renotify).                                     *)
(*                                                                         *)
(* Abstractions: a byte or word and the END that closes it are one message *)
(* to the server; a transaction or a synchronised value is one token; a    *)
(* client's queue is the number of frames in it (module RxFrames has the   *)
(* frames), and its filter is whether it has set one.                      *)
(***************************************************************************)
EXTENDS Integers, Sequences

CONSTANTS
  NumLinks,       \* num_link
  QueueSlots,     \* frames that a client's queue holds: NUM_MII_RX_BUF - 1
  Uses,           \* Uses[i]: the commands that client i sends
  MaxCmds,        \* bound: MaxCmds[i] commands of client i
  MaxLinkChanges  \* bound: how often the link goes up or down

Links == 1 .. NumLinks

\* The commands, by the shape of their exchange: FILTER stands for those that
\* store a value (filter, drop packets, queue size), CNT for those that
\* read values (link counters, global counters, timer offset).
Commands == {"FILTER_SET", "STATUS_SET", "CNT_REQ"}

ASSUME LinkAssumption ==
  /\ NumLinks \in Nat \ {0} /\ QueueSlots \in Nat \ {0}
  /\ MaxCmds \in [Links -> Nat] /\ MaxLinkChanges \in Nat
  /\ Uses \in [Links -> SUBSET Commands]

VARIABLES
  toServer, toClient, \* what is in the channel, in each direction
  cpc, ccmd,          \* each client: where it is, and the request it makes
  sent,               \* commands a client has sent so far
  notified,           \* link_status[i].notified
  wants,              \* link_status[i].wants_status_updates
  filter,             \* custom_filter_mask[i] # 0
  len,                \* frames in the client's queue
  spc, cur, renotify, \* the server: where it is, with which client
  changed,            \* its local copy of link_status.c's notify
  status, flag,       \* link_status.c: status and notify
  lpc, changes,       \* the thread that polls the link
  due                 \* history: a link change that client i must be told of

serverVars == <<spc, cur, renotify, changed>>
clientVars == <<cpc, ccmd, sent>>
linkVars == <<status, flag, lpc, changes>>
queueVars == <<notified, wants, filter, len>>
vars == <<toServer, toClient, serverVars, clientVars, linkVars, queueVars, due>>

Init ==
  /\ toServer = [i \in Links |-> <<>>] /\ toClient = [i \in Links |-> <<>>]
  /\ cpc = [i \in Links |-> "idle"] /\ ccmd = [i \in Links |-> "FRAME_REQ"]
  /\ sent = [i \in Links |-> 0]
  /\ notified = [i \in Links |-> FALSE] /\ wants = [i \in Links |-> 0]
  /\ filter = [i \in Links |-> FALSE] /\ len = [i \in Links |-> 0]
  /\ spc = "select" /\ cur = 1 /\ renotify = FALSE /\ changed = FALSE
  /\ status = 0 /\ flag = FALSE /\ lpc = "wait" /\ changes = 0
  /\ due = [i \in Links |-> FALSE]

Put(ch, i, s) == [ch EXCEPT ![i] = @ \o s]
Take(ch, i) == [ch EXCEPT ![i] = Tail(@)]
Sees(ch, i, t) == ch[i] # <<>> /\ Head(ch[i]) = t

-----------------------------------------------------------------------------
(* The client *)

\* mac_rx, ethernet_unified_get_data: woken by the notification, it asks for
\* the frame.
mac_rx(i) ==
  /\ cpc[i] = "idle" /\ Sees(toClient, i, "END")
  /\ toClient' = Take(toClient, i) /\ toServer' = Put(toServer, i, <<"rx">>)
  /\ cpc' = [cpc EXCEPT ![i] = "ack"] /\ ccmd' = [ccmd EXCEPT ![i] = "FRAME_REQ"]
  /\ UNCHANGED <<sent, serverVars, linkVars, queueVars, due>>

\* mac_set_custom_filter and the others, through send_cmd: at any time.
send_cmd(i) ==
  /\ cpc[i] = "idle" /\ sent[i] < MaxCmds[i]
  /\ sent' = [sent EXCEPT ![i] = @ + 1]
  /\ \E c \in Uses[i] : ccmd' = [ccmd EXCEPT ![i] = c]
  /\ toServer' = Put(toServer, i, <<"cmd">>)
  /\ cpc' = [cpc EXCEPT ![i] = "ack"]
  /\ UNCHANGED <<toClient, serverVars, linkVars, queueVars, due>>

\* The first END: send the command word.
ClientAck(i) ==
  /\ cpc[i] = "ack" /\ Sees(toClient, i, "END")
  /\ toClient' = Take(toClient, i)
  /\ toServer' = Put(toServer, i, <<ccmd[i]>>)
  /\ cpc' = [cpc EXCEPT ![i] = "chk"]
  /\ UNCHANGED <<ccmd, sent, serverVars, linkVars, queueVars, due>>

\* The second END: send the value, if the command has one.
ClientChk(i) ==
  /\ cpc[i] = "chk" /\ Sees(toClient, i, "END")
  /\ toClient' = Take(toClient, i)
  /\ toServer' = IF ccmd[i] \in {"FILTER_SET", "STATUS_SET"}
                 THEN Put(toServer, i, <<"value">>) ELSE toServer
  /\ cpc' = [cpc EXCEPT ![i] = "reply"]
  /\ UNCHANGED <<ccmd, sent, serverVars, linkVars, queueVars, due>>

Reply(c) == IF c = "FRAME_REQ" THEN {"frame", "status"} ELSE {"value"}

\* The frame, the status packet or the value; for a value sent, the end of
\* the synchronised output.
ClientDone(i) ==
  /\ cpc[i] = "reply" /\ \E t \in Reply(ccmd[i]) : Sees(toClient, i, t)
  /\ toClient' = Take(toClient, i)
  /\ cpc' = [cpc EXCEPT ![i] = "idle"]
  /\ UNCHANGED <<toServer, ccmd, sent, serverVars, linkVars, queueVars, due>>

Client(i) == mac_rx(i) \/ send_cmd(i) \/ ClientAck(i) \/ ClientChk(i) \/ ClientDone(i)

-----------------------------------------------------------------------------
(* The server *)

\* A client has a request waiting.
Asks(i) == Sees(toServer, i, "rx") \/ Sees(toServer, i, "cmd")

\* A service_link_cmd that acknowledges a command in every case.
Mut_Acknowledged_always(i) == TRUE

\* service_link_cmd sends the first END: unless a notification that the
\* client takes for it is already on its way.
Acknowledged(i) == ~notified[i] \/ Sees(toServer, i, "rx")

\* service_link_cmd up to its wait for the command word.  The select is
\* ordered: the first client that asks is served.
service_link_cmd ==
  /\ spc = "select"
  /\ \E i \in Links :
       /\ Asks(i) /\ \A j \in 1 .. i - 1 : ~Asks(j)
       /\ toServer' = Take(toServer, i)
       /\ toClient' = IF Acknowledged(i) THEN Put(toClient, i, <<"END">>)
                      ELSE toClient
       /\ renotify' = notified[i] /\ cur' = i
  /\ spc' = "cmd"
  /\ UNCHANGED <<changed, clientVars, linkVars, queueVars, due>>

\* A service_link_cmd that does not repeat the notification.
Mut_Renotify_never == <<>>

\* The notification that the client took for an acknowledgement, again.
Renotify == IF renotify THEN <<"END">> ELSE <<>>

\* The command word comes and is acknowledged.  A counter is sent at once.
ServerCmd ==
  /\ spc = "cmd" /\ toServer[cur] # <<>>
  /\ toServer' = Take(toServer, cur)
  /\ LET cmd == Head(toServer[cur]) IN
       \/ /\ cmd = "FRAME_REQ"
          /\ spc' = "frame" /\ renotify' = FALSE
          /\ toClient' = Put(toClient, cur, <<"END">>)
       \/ /\ cmd = "CNT_REQ"
          /\ spc' = "select" /\ renotify' = renotify
          /\ toClient' = Put(toClient, cur, <<"END", "value">> \o Renotify)
       \/ /\ cmd \in {"FILTER_SET", "STATUS_SET"}
          /\ spc' = cmd /\ renotify' = renotify
          /\ toClient' = Put(toClient, cur, <<"END">>)
  /\ UNCHANGED <<cur, changed, clientVars, linkVars, queueVars, due>>

\* The value of a command that stores one.
ServerSet ==
  /\ spc \in {"FILTER_SET", "STATUS_SET"} /\ Sees(toServer, cur, "value")
  /\ toServer' = Take(toServer, cur)
  /\ toClient' = Put(toClient, cur, <<"value">> \o Renotify)
  /\ IF spc = "STATUS_SET"
     THEN wants' = [wants EXCEPT ![cur] = 1] /\ UNCHANGED filter
     ELSE \E on \in BOOLEAN : filter' = [filter EXCEPT ![cur] = on] /\ UNCHANGED wants
  /\ spc' = "select"
  /\ UNCHANGED <<cur, renotify, changed, notified, len, clientVars, linkVars, due>>

\* A frame request: a status packet if one is due, else the oldest frame.
\* ("mac request without notification": neither, and no reply.)
ServerFrame ==
  /\ spc = "frame"
  /\ IF wants[cur] = 2
     THEN /\ toClient' = Put(toClient, cur, <<"status">>)
          /\ wants' = [wants EXCEPT ![cur] = 1]
          /\ due' = [due EXCEPT ![cur] = FALSE]
          /\ spc' = "sent" /\ UNCHANGED len
     ELSE IF len[cur] > 0
     THEN /\ toClient' = Put(toClient, cur, <<"frame">>)
          /\ len' = [len EXCEPT ![cur] = @ - 1]
          /\ spc' = "sent" /\ UNCHANGED <<wants, due>>
     ELSE spc' = "select" /\ UNCHANGED <<toClient, wants, due, len>>
  /\ UNCHANGED <<toServer, cur, renotify, changed, notified, filter, clientVars,
                 linkVars>>

\* A server that forgets to notify again.
Mut_ServerSent_no_notify ==
  /\ spc = "sent" /\ toClient[cur] = <<>>
  /\ notified' = [notified EXCEPT ![cur] = len[cur] > 0]
  /\ spc' = "select"
  /\ UNCHANGED <<toServer, toClient, cur, renotify, changed, wants, filter, len,
                 clientVars, linkVars, due>>

\* A server that leaves notified set.
Mut_ServerSent_no_reset ==
  /\ spc = "sent" /\ toClient[cur] = <<>>
  /\ IF len[cur] > 0 THEN toClient' = Put(toClient, cur, <<"END">>)
     ELSE UNCHANGED toClient
  /\ spc' = "select"
  /\ UNCHANGED <<toServer, cur, renotify, changed, queueVars, clientVars, linkVars, due>>

\* The client has taken the packet: notify it of the next one.
ServerSent ==
  /\ spc = "sent" /\ toClient[cur] = <<>>
  /\ IF len[cur] > 0
     THEN toClient' = Put(toClient, cur, <<"END">>) /\ UNCHANGED notified
     ELSE notified' = [notified EXCEPT ![cur] = FALSE] /\ UNCHANGED toClient
  /\ spc' = "select"
  /\ UNCHANGED <<toServer, cur, renotify, changed, wants, filter, len, clientVars,
                 linkVars, due>>

\* A queue that does not look at its limit.
Mut_QueueHasRoom_always(i) == TRUE

\* There is room in the client's queue.
QueueHasRoom(i) == len[i] < QueueSlots

\* No client asks, the select's default: process_received_frame for a frame
\* that the clients in S match, if there is one; then notify of link_status.c
\* is read.
ServerDefault ==
  /\ spc = "select" /\ \A i \in Links : ~Asks(i)
  /\ \E S \in SUBSET {i \in Links : filter[i]} :
       LET Q == {i \in S : QueueHasRoom(i)} IN
         /\ len' = [i \in Links |-> IF i \in Q THEN len[i] + 1 ELSE len[i]]
         /\ notified' = [i \in Links |-> notified[i] \/ i \in Q]
         /\ toClient' = [i \in Links |-> IF i \in Q /\ ~notified[i]
                                         THEN Append(toClient[i], "END")
                                         ELSE toClient[i]]
  /\ changed' = flag /\ spc' = "status"
  /\ UNCHANGED <<toServer, cur, renotify, wants, filter, clientVars, linkVars, due>>

\* A server that notes the change and does not wake the client.
Mut_ServerStatus_no_wake ==
  /\ spc = "status"
  /\ flag' = FALSE
  /\ wants' = [i \in Links |-> IF changed /\ wants[i] # 0 THEN 2 ELSE wants[i]]
  /\ spc' = "select"
  /\ UNCHANGED <<toServer, toClient, cur, renotify, changed, notified, filter, len,
                 clientVars, status, lpc, changes, due>>

\* notify is cleared, and if it was set the clients that asked are told.
ServerStatus ==
  /\ spc = "status"
  /\ flag' = FALSE
  /\ IF changed
     THEN /\ wants' = [i \in Links |-> IF wants[i] # 0 THEN 2 ELSE 0]
          /\ toClient' = [i \in Links |-> IF wants[i] # 0 /\ ~notified[i]
                                          THEN Append(toClient[i], "END")
                                          ELSE toClient[i]]
     ELSE UNCHANGED <<wants, toClient>>
  /\ spc' = "select"
  /\ UNCHANGED <<toServer, cur, renotify, changed, notified, filter, len, clientVars,
                 status, lpc, changes, due>>

Server == \/ service_link_cmd \/ ServerCmd \/ ServerSet \/ ServerFrame
          \/ ServerSent \/ ServerDefault \/ ServerStatus

-----------------------------------------------------------------------------
(* ethernet_update_link_status, in the tx server's thread *)

LinkChange ==
  /\ lpc = "wait" /\ changes < MaxLinkChanges
  /\ status' = 1 - status /\ changes' = changes + 1 /\ lpc' = "notify"
  /\ UNCHANGED <<toServer, toClient, serverVars, clientVars, flag, queueVars, due>>

LinkNotify ==
  /\ lpc = "notify"
  /\ flag' = TRUE /\ lpc' = "wait"
  /\ due' = [i \in Links |-> due[i] \/ wants[i] # 0]
  /\ UNCHANGED <<toServer, toClient, serverVars, clientVars, status, changes, queueVars>>

Next == \/ \E i \in Links : Client(i)
        \/ Server
        \/ LinkChange \/ LinkNotify

Spec == Init /\ [][Next]_vars

\* Threads run, and a client calls mac_rx when it is notified.  Nothing
\* makes a client send a command, or the link change.
Fairness ==
  /\ WF_vars(Server) /\ WF_vars(LinkNotify)
  /\ \A i \in Links : /\ WF_vars(mac_rx(i)) /\ WF_vars(ClientAck(i))
                      /\ WF_vars(ClientChk(i)) /\ WF_vars(ClientDone(i))

FairSpec == Spec /\ Fairness

-----------------------------------------------------------------------------
(* Properties *)

Tokens == {"END", "frame", "status", "value"}

TypeOK ==
  /\ toServer \in [Links -> Seq({"rx", "cmd", "value", "FRAME_REQ"} \cup Commands)]
  /\ toClient \in [Links -> Seq(Tokens)]
  /\ cpc \in [Links -> {"idle", "ack", "chk", "reply"}]
  /\ ccmd \in [Links -> Commands \cup {"FRAME_REQ"}]
  /\ sent \in [Links -> Nat] /\ \A i \in Links : sent[i] <= MaxCmds[i]
  /\ notified \in [Links -> BOOLEAN] /\ filter \in [Links -> BOOLEAN]
  /\ wants \in [Links -> 0 .. 2] /\ len \in [Links -> 0 .. QueueSlots]
  /\ spc \in {"select", "cmd", "FILTER_SET", "STATUS_SET", "frame", "sent", "status"}
  /\ cur \in Links /\ renotify \in BOOLEAN /\ changed \in BOOLEAN
  /\ status \in 0 .. 1 /\ flag \in BOOLEAN
  /\ lpc \in {"wait", "notify"} /\ changes \in 0 .. MaxLinkChanges
  /\ due \in [Links -> BOOLEAN]

\* chkct (ethernet_rx_client.xc:46,133,136) and the inputs of a reply: the
\* token in front of a client is the one that it is about to read, a control
\* token where it expects one and data where it expects data.
InStep ==
  \A i \in Links : toClient[i] # <<>> =>
    Head(toClient[i]) \in IF cpc[i] = "reply" THEN Reply(ccmd[i]) ELSE {"END"}

\* Between requests, a client has exactly one wake-up on its way if frames
\* are queued for it, and none otherwise; and no client asks for a frame when
\* there is nothing to send it (ethernet_rx_server.xc:452: it would wait for
\* the reply for ever).
OneWakeUp ==
  /\ spc = "frame" => len[cur] > 0 \/ wants[cur] = 2
  /\ \A i \in Links :
       spc = "select" /\ cpc[i] = "idle" =>
         IF len[i] > 0 THEN toClient[i] = <<"END">>
         ELSE wants[i] # 2 => toClient[i] = <<>>

\* Every request is answered.
RequestsAnswered == \A i \in Links : cpc[i] # "idle" ~> cpc[i] = "idle"

\* No wake-up is lost: a client for which frames are queued is sent one.
FramesSent == \A i \in Links : len[i] > 0 ~> spc = "sent" /\ cur = i

\* A client that is to be sent a status packet (wants_status_updates is 2) is
\* woken, asks and gets it.
StatusSent == \A i \in Links : wants[i] = 2 ~> wants[i] = 1

\* A client that has asked for status packets is told of a link change.
StatusReported == \A i \in Links : due[i] ~> ~due[i]

=============================================================================
