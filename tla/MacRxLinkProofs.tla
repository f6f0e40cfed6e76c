--------------------------- MODULE MacRxLinkProofs ---------------------------
(***************************************************************************)
(* The receive server and its clients stay in step, for any number of      *)
(* clients, of commands and of frames in a queue.  What is proved of a     *)
(* client holds whatever the other clients do.                             *)
(***************************************************************************)
EXTENDS MacRxLink, TLAPS, SequenceTheorems

\* The clients of which it holds: those that do not ask for status packets,
\* and those that do, once, and send no other command.
Good(i) ==
  "STATUS_SET" \in Uses[i] => Uses[i] = {"STATUS_SET"} /\ MaxCmds[i] <= 1

\* What it takes for a client that asks for status packets: the server tells of
\* a link change only when every client has been sent the status packet of
\* the one before. Polls of the link are 100 ms apart; nothing in the code
\* makes a client fetch a packet within that time.
SpacedStep == ServerStatus /\ changed => \A i \in Links : wants[i] # 2
Spaced == [][SpacedStep]_vars

\* The client is, or will be, awake: a notification is out, or was taken and
\* is not served yet.
Woken(i) == notified[i] \/ wants[i] = 2

\* Where the client is, and what is in its channel in each direction.
At(i, pc, s, c) == cpc[i] = pc /\ toServer[i] = s /\ toClient[i] = c

-----------------------------------------------------------------------------
(* A client that the server does not serve *)

Idle(i) == At(i, "idle", <<>>, IF Woken(i) THEN <<"END">> ELSE <<>>)

AsksFrame(i) == At(i, "ack", <<"rx">>, <<>>) /\ ccmd[i] = "FRAME_REQ" /\ Woken(i)

\* It has sent a command; and it may have taken the notification for the
\* acknowledgement.
AsksCmd(i) ==
  /\ ccmd[i] \in Uses[i] /\ wants[i] = 0
  /\ \/ At(i, "ack", <<"cmd">>, IF Woken(i) THEN <<"END">> ELSE <<>>)
     \/ At(i, "chk", <<"cmd", ccmd[i]>>, <<>>) /\ Woken(i)

\* The server is done with its command, and has notified it again.
Finishes(i) ==
  /\ ccmd[i] \in Uses[i]
  /\ \/ /\ At(i, "chk", <<>>, IF Woken(i) THEN <<"END", "value", "END">>
                              ELSE <<"END", "value">>)
        /\ ccmd[i] = "CNT_REQ"
     \/ At(i, "reply", <<>>, IF Woken(i) THEN <<"value", "END">> ELSE <<"value">>)

-----------------------------------------------------------------------------
(* The client that the server serves *)

Served(i) == cur = i /\ spc \notin {"select", "status"}

AtCmd(i) ==
  /\ renotify = notified[i]
  /\ \/ ccmd[i] = "FRAME_REQ" /\ Woken(i)
     \/ ccmd[i] \in Uses[i] /\ wants[i] = 0
  /\ \/ At(i, "ack", <<>>, <<"END">>)
     \/ At(i, "chk", <<ccmd[i]>>, <<>>)

AtSet(i) ==
  /\ renotify = notified[i] /\ spc = ccmd[i] /\ ccmd[i] \in Uses[i] /\ wants[i] = 0
  /\ \/ At(i, "chk", <<>>, <<"END">>)
     \/ At(i, "reply", <<"value">>, <<>>)

AtFrame(i) ==
  /\ ccmd[i] = "FRAME_REQ" /\ Woken(i)
  /\ \/ At(i, "chk", <<>>, <<"END">>)
     \/ At(i, "reply", <<>>, <<>>)

\* The client has the packet, or will have it; it may have gone on to a
\* command.
AtSent(i) ==
  /\ wants[i] # 2
  /\ \/ /\ ccmd[i] = "FRAME_REQ"
        /\ \E t \in {"frame", "status"} : \/ At(i, "chk", <<>>, <<"END", t>>)
                                          \/ At(i, "reply", <<>>, <<t>>)
     \/ At(i, "idle", <<>>, <<>>)
     \/ At(i, "ack", <<"cmd">>, <<>>) /\ ccmd[i] \in Uses[i] /\ wants[i] = 0

AtSelect(i) == Idle(i) \/ AsksFrame(i) \/ AsksCmd(i) \/ Finishes(i)

TalkInv(i) ==
  IF Served(i)
  THEN /\ spc = "cmd" => AtCmd(i)
       /\ spc \in {"FILTER_SET", "STATUS_SET"} => AtSet(i)
       /\ spc = "frame" => AtFrame(i)
       /\ spc = "sent" => AtSent(i)
  ELSE AtSelect(i)

\* A client that does not ask for status packets is notified if and only if
\* its queue is not empty, except while it is sent a frame.  One that does
\* has no frames.
QueueInv(i) ==
  IF "STATUS_SET" \notin Uses[i]
  THEN /\ wants[i] = 0
       /\ len[i] > 0 => notified[i]
       /\ notified[i] => len[i] > 0 \/ (Served(i) /\ spc = "sent")
  ELSE /\ ~notified[i] /\ len[i] = 0 /\ ~filter[i]
       /\ ccmd[i] # "FRAME_REQ" \/ wants[i] # 0 => sent[i] > 0

\* The server has read, or will read, that the link has changed.
Told == flag \/ (spc = "status" /\ changed)

\* With at most one change of the link, a client is told of it once.
OnceInv ==
  /\ lpc = "notify" => changes > 0 /\ ~Told
  /\ Told => changes > 0
  /\ \A i \in Links : wants[i] = 2 => changes > 0 /\ lpc = "wait" /\ ~Told

ClientInv(i) == TypeOK /\ QueueInv(i) /\ TalkInv(i)

LinkInv == \A i \in Links : ClientInv(i)

-----------------------------------------------------------------------------
(* Types *)

\* What a client sends.
Requests == {"rx", "cmd", "value", "FRAME_REQ"} \cup Commands

ChannelTypes ==
  toServer \in [Links -> Seq(Requests)] /\ toClient \in [Links -> Seq(Tokens)]

\* The messages that are sent in one step.
LEMMA Messages ==
  /\ \A t \in Tokens : <<t>> \in Seq(Tokens)
  /\ \A t \in Requests : <<t>> \in Seq(Requests)
  /\ <<"END", "value">> \in Seq(Tokens)
  /\ Renotify \in Seq(Tokens)
  /\ <<"value">> \o Renotify \in Seq(Tokens)
  /\ <<"END", "value">> \o Renotify \in Seq(Tokens)
<1>1. \A t \in Tokens : <<t>> \in Seq(Tokens)
  OBVIOUS
<1>2. \A t \in Requests : <<t>> \in Seq(Requests)
  OBVIOUS
<1>3. <<"END", "value">> \in Seq(Tokens) /\ <<"END">> \in Seq(Tokens)
      /\ <<"value">> \in Seq(Tokens)
  BY DEF Tokens
<1>4. Renotify \in Seq(Tokens)
  BY <1>3 DEF Renotify
<1>5. QED  BY <1>1, <1>2, <1>3, <1>4

\* Sending and receiving keep the types of the channels.
LEMMA ChannelSteps ==
  ASSUME ChannelTypes, NEW i \in Links
  PROVE  /\ \A t \in Requests : Put(toServer, i, <<t>>) \in [Links -> Seq(Requests)]
         /\ \A t \in Tokens : Put(toClient, i, <<t>>) \in [Links -> Seq(Tokens)]
         /\ Put(toClient, i, <<"value">> \o Renotify) \in [Links -> Seq(Tokens)]
         /\ Put(toClient, i, <<"END", "value">> \o Renotify) \in [Links -> Seq(Tokens)]
         /\ toServer[i] # <<>> => Take(toServer, i) \in [Links -> Seq(Requests)]
         /\ toClient[i] # <<>> => Take(toClient, i) \in [Links -> Seq(Tokens)]
<1>1. ASSUME NEW s \in Seq(Tokens)  PROVE Put(toClient, i, s) \in [Links -> Seq(Tokens)]
  <2>1. toClient[i] \o s \in Seq(Tokens)
    BY DEF ChannelTypes
  <2>2. QED  BY <2>1 DEF Put, ChannelTypes
<1>2. ASSUME NEW s \in Seq(Requests)
      PROVE  Put(toServer, i, s) \in [Links -> Seq(Requests)]
  <2>1. toServer[i] \o s \in Seq(Requests)
    BY DEF ChannelTypes
  <2>2. QED  BY <2>1 DEF Put, ChannelTypes
<1>3. /\ toServer[i] # <<>> => Tail(toServer[i]) \in Seq(Requests)
      /\ toClient[i] # <<>> => Tail(toClient[i]) \in Seq(Tokens)
  BY DEF ChannelTypes
<1>4. /\ toServer[i] # <<>> => Take(toServer, i) \in [Links -> Seq(Requests)]
      /\ toClient[i] # <<>> => Take(toClient, i) \in [Links -> Seq(Tokens)]
  BY <1>3 DEF Take, ChannelTypes
<1>5. QED  BY <1>1, <1>2, <1>4, Messages

\* The types hold at first.
LEMMA InitTypes == Init => TypeOK
<1> SUFFICES ASSUME Init PROVE TypeOK
  OBVIOUS
<1> USE LinkAssumption DEF Init
<1>1. /\ toServer \in [Links -> Seq(Requests)]
      /\ toClient \in [Links -> Seq(Tokens)]
  OBVIOUS
<1>2. /\ cpc \in [Links -> {"idle", "ack", "chk", "reply"}]
      /\ ccmd \in [Links -> Commands \cup {"FRAME_REQ"}]
      /\ notified \in [Links -> BOOLEAN] /\ filter \in [Links -> BOOLEAN]
      /\ due \in [Links -> BOOLEAN]
  OBVIOUS
<1>3. /\ sent \in [Links -> Nat] /\ \A i \in Links : sent[i] <= MaxCmds[i]
      /\ wants \in [Links -> 0 .. 2] /\ len \in [Links -> 0 .. QueueSlots]
      /\ cur \in Links /\ status \in 0 .. 1 /\ changes \in 0 .. MaxLinkChanges
  BY DEF Links
<1>4. /\ spc \in {"select", "cmd", "FILTER_SET", "STATUS_SET", "frame", "sent", "status"}
      /\ renotify \in BOOLEAN /\ changed \in BOOLEAN /\ flag \in BOOLEAN
      /\ lpc \in {"wait", "notify"}
  OBVIOUS
<1> HIDE DEF Init
<1>5. QED  BY <1>1, <1>2, <1>3, <1>4, Zenon DEF TypeOK, Requests

\* A client's steps keep the types.
LEMMA ClientTypes ==
  ASSUME TypeOK, NEW i \in Links, Client(i)
  PROVE  TypeOK'
<1> USE DEF serverVars, linkVars, queueVars, Sees
<1>0. /\ ChannelTypes
      /\ ccmd[i] \in Requests /\ "rx" \in Requests /\ "cmd" \in Requests
      /\ "value" \in Requests
  BY DEF TypeOK, ChannelTypes, Requests
<1>1. CASE mac_rx(i)
  <2>1. toServer' \in [Links -> Seq(Requests)] /\ toClient' \in [Links -> Seq(Tokens)]
    BY <1>0, <1>1, ChannelSteps DEF mac_rx
  <2>2. QED  BY <1>1, <2>1 DEF mac_rx, TypeOK, Requests
<1>2. CASE send_cmd(i)
  <2>1. toServer' \in [Links -> Seq(Requests)]
    BY <1>0, <1>2, ChannelSteps DEF send_cmd
  <2>2. sent' \in [Links -> Nat] /\ \A j \in Links : sent'[j] <= MaxCmds[j]
    <3>1. /\ sent \in [Links -> Nat] /\ \A j \in Links : sent[j] <= MaxCmds[j]
          /\ sent[i] < MaxCmds[i] /\ MaxCmds[i] \in Nat
          /\ sent' = [sent EXCEPT ![i] = @ + 1]
      BY <1>2, LinkAssumption DEF send_cmd, TypeOK
    <3>2. QED  BY <3>1
  <2>3. ccmd' \in [Links -> Commands \cup {"FRAME_REQ"}]
    <3>1. PICK c \in Uses[i] : ccmd' = [ccmd EXCEPT ![i] = c]
      BY <1>2 DEF send_cmd
    <3>2. c \in Commands /\ ccmd \in [Links -> Commands \cup {"FRAME_REQ"}]
      BY LinkAssumption DEF TypeOK
    <3>3. QED  BY <3>1, <3>2
  <2>4. QED  BY <1>2, <2>1, <2>2, <2>3 DEF send_cmd, TypeOK, Requests
<1>3. CASE ClientAck(i) \/ ClientChk(i)
  <2>1. toServer' \in [Links -> Seq(Requests)] /\ toClient' \in [Links -> Seq(Tokens)]
    BY <1>0, <1>3, ChannelSteps DEF ClientAck, ClientChk, ChannelTypes
  <2>2. QED  BY <1>3, <2>1 DEF ClientAck, ClientChk, TypeOK, Requests
<1>4. CASE ClientDone(i)
  <2>1. toClient' \in [Links -> Seq(Tokens)]
    BY <1>0, <1>4, ChannelSteps DEF ClientDone
  <2>2. QED  BY <1>4, <2>1 DEF ClientDone, TypeOK
<1>5. QED  BY <1>1, <1>2, <1>3, <1>4 DEF Client

\* The server's steps keep the types; the queue never holds more than it has
\* room for.
LEMMA ServerTypes == ASSUME TypeOK, Server  PROVE TypeOK'
<1> USE DEF clientVars, linkVars, queueVars, Sees
<1>0. ChannelTypes /\ cur \in Links /\ "END" \in Tokens
  BY DEF TypeOK, ChannelTypes, Requests, Tokens
<1>1. CASE service_link_cmd
  <2>1. toServer' \in [Links -> Seq(Requests)]
    BY <1>0, <1>1, ChannelSteps DEF service_link_cmd, Asks
  <2>2. toClient' \in [Links -> Seq(Tokens)]
    <3>1. toClient' = toClient \/ \E i \in Links : toClient' = Put(toClient, i, <<"END">>)
      BY <1>1 DEF service_link_cmd
    <3>2. QED  BY <1>0, <3>1, ChannelSteps DEF ChannelTypes
  <2>3. spc' = "cmd" /\ cur' \in Links /\ renotify' \in BOOLEAN
    BY <1>1 DEF service_link_cmd, TypeOK
  <2>4. QED  BY <1>1, <2>1, <2>2, <2>3 DEF service_link_cmd, TypeOK, Requests
<1>2. CASE ServerCmd
  <2>1. toServer' \in [Links -> Seq(Requests)]
    BY <1>0, <1>2, ChannelSteps DEF ServerCmd
  <2>2. toClient' \in [Links -> Seq(Tokens)]
    <3>1. \/ toClient' = Put(toClient, cur, <<"END">>)
          \/ toClient' = Put(toClient, cur, <<"END", "value">> \o Renotify)
      BY <1>2 DEF ServerCmd
    <3>2. QED  BY <1>0, <3>1, ChannelSteps
  <2>3. /\ spc' \in {"select", "FILTER_SET", "STATUS_SET", "frame"}
        /\ renotify' \in BOOLEAN
    BY <1>2 DEF ServerCmd, TypeOK
  <2>4. QED  BY <1>2, <2>1, <2>2, <2>3 DEF ServerCmd, TypeOK, Requests
<1>3. CASE ServerSet
  <2>1. toServer' \in [Links -> Seq(Requests)]
    BY <1>0, <1>3, ChannelSteps DEF ServerSet
  <2>2. toClient' \in [Links -> Seq(Tokens)]
    BY <1>0, <1>3, ChannelSteps DEF ServerSet
  <2>3. wants' \in [Links -> 0 .. 2]
    <3>1. wants \in [Links -> 0 .. 2]
      BY DEF TypeOK
    <3>2. wants' = wants \/ wants' = [wants EXCEPT ![cur] = 1]
      BY <1>3 DEF ServerSet
    <3>3. QED  BY <3>1, <3>2
  <2>4. filter' \in [Links -> BOOLEAN]
    BY <1>0, <1>3 DEF ServerSet, TypeOK
  <2>5. QED  BY <1>3, <2>1, <2>2, <2>3, <2>4 DEF ServerSet, TypeOK, Requests
<1>4. CASE ServerFrame
  <2>1. toClient' \in [Links -> Seq(Tokens)]
    <3>1. \/ toClient' = toClient
          \/ toClient' = Put(toClient, cur, <<"frame">>)
          \/ toClient' = Put(toClient, cur, <<"status">>)
      BY <1>4 DEF ServerFrame
    <3>2. "frame" \in Tokens /\ "status" \in Tokens
      BY DEF Tokens
    <3>3. QED  BY <1>0, <3>1, <3>2, ChannelSteps DEF ChannelTypes
  <2>2. wants' \in [Links -> 0 .. 2] /\ len' \in [Links -> 0 .. QueueSlots]
    <3>1. wants \in [Links -> 0 .. 2] /\ len \in [Links -> 0 .. QueueSlots]
      BY DEF TypeOK
    <3>2. /\ wants' = wants \/ wants' = [wants EXCEPT ![cur] = 1]
          /\ len' = len \/ (len[cur] > 0 /\ len' = [len EXCEPT ![cur] = @ - 1])
      BY <1>4 DEF ServerFrame
    <3>3. wants' \in [Links -> 0 .. 2]
      BY <3>1, <3>2
    <3>4. len' \in [Links -> 0 .. QueueSlots]
      BY <1>0, <3>1, <3>2, LinkAssumption
    <3>5. QED  BY <3>3, <3>4
  <2>3. due' \in [Links -> BOOLEAN]
    BY <1>0, <1>4 DEF ServerFrame, TypeOK
  <2>4. QED  BY <1>4, <2>1, <2>2, <2>3 DEF ServerFrame, TypeOK
<1>5. CASE ServerSent
  <2>1. toClient' \in [Links -> Seq(Tokens)]
    <3>1. toClient' = toClient \/ toClient' = Put(toClient, cur, <<"END">>)
      BY <1>5 DEF ServerSent
    <3>2. QED  BY <1>0, <3>1, ChannelSteps DEF ChannelTypes
  <2>2. notified' \in [Links -> BOOLEAN]
    BY <1>0, <1>5 DEF ServerSent, TypeOK
  <2>3. QED  BY <1>5, <2>1, <2>2 DEF ServerSent, TypeOK
<1>6. CASE ServerDefault
  <2>1. PICK Q \in SUBSET Links :
          /\ \A i \in Q : QueueHasRoom(i)
          /\ len' = [i \in Links |-> IF i \in Q THEN len[i] + 1 ELSE len[i]]
          /\ notified' = [i \in Links |-> notified[i] \/ i \in Q]
          /\ toClient' = [i \in Links |-> IF i \in Q /\ ~notified[i]
                                          THEN Append(toClient[i], "END")
                                          ELSE toClient[i]]
    BY <1>6 DEF ServerDefault
  <2>2. toClient' \in [Links -> Seq(Tokens)]
    <3>1. \A i \in Links : Append(toClient[i], "END") \in Seq(Tokens)
      BY <1>0 DEF Tokens, ChannelTypes
    <3>2. QED  BY <1>0, <2>1, <3>1 DEF ChannelTypes
  <2>3. len' \in [Links -> 0 .. QueueSlots]
    BY <2>1, LinkAssumption DEF QueueHasRoom, TypeOK
  <2>4. notified' \in [Links -> BOOLEAN]
    BY <2>1 DEF TypeOK
  <2>5. changed' \in BOOLEAN
    BY <1>6 DEF ServerDefault, TypeOK
  <2>6. QED  BY <1>6, <2>2, <2>3, <2>4, <2>5 DEF ServerDefault, TypeOK
<1>7. CASE ServerStatus
  <2>1. toClient' \in [Links -> Seq(Tokens)]
    <3>1. \A i \in Links : Append(toClient[i], "END") \in Seq(Tokens)
      BY <1>0 DEF Tokens, ChannelTypes
    <3>2. QED  BY <1>0, <1>7, <3>1 DEF ServerStatus, ChannelTypes
  <2>2. wants' \in [Links -> 0 .. 2]
    BY <1>7 DEF ServerStatus, TypeOK
  <2>3. QED  BY <1>7, <2>1, <2>2 DEF ServerStatus, TypeOK
<1>8. QED  BY <1>1, <1>2, <1>3, <1>4, <1>5, <1>6, <1>7 DEF Server

\* The types are inductive.
LEMMA StepTypes == ASSUME TypeOK, [Next]_vars  PROVE TypeOK'
<1> USE DEF serverVars, clientVars, linkVars, queueVars
<1>1. CASE UNCHANGED vars
  BY <1>1 DEF vars, TypeOK
<1>2. CASE LinkChange
  BY <1>2, LinkAssumption DEF LinkChange, TypeOK
<1>3. CASE LinkNotify
  <2>1. due' \in [Links -> BOOLEAN]
    BY <1>3 DEF LinkNotify, TypeOK
  <2>2. QED  BY <1>3, <2>1 DEF LinkNotify, TypeOK
<1>4. QED  BY <1>1, <1>2, <1>3, ClientTypes, ServerTypes DEF Next

\* The types of the variables, for any use of the commands: no queue holds
\* more than QueueSlots frames, and wants_status_updates stays in 0 .. 2.
THEOREM MacRxLinkTypes == Spec => []TypeOK
<1>1. QED  BY InitTypes, StepTypes, PTL DEF Spec
-----------------------------------------------------------------------------
(* The channel and the status of one client *)

\* Nothing that belongs to client i changes.
Same(i) ==
  /\ toServer'[i] = toServer[i] /\ toClient'[i] = toClient[i]
  /\ cpc'[i] = cpc[i] /\ ccmd'[i] = ccmd[i] /\ sent'[i] = sent[i]
  /\ notified'[i] = notified[i] /\ wants'[i] = wants[i]
  /\ filter'[i] = filter[i] /\ len'[i] = len[i]

\* A step that leaves client i alone and does not start or stop serving it.
LEMMA Untouched ==
  ASSUME NEW i \in Links, QueueInv(i), TalkInv(i), Same(i),
         (~Served(i) /\ ~Served(i)') \/ UNCHANGED <<spc, cur, renotify>>
  PROVE  QueueInv(i)' /\ TalkInv(i)'
<1> USE DEF Same
<1>1. Served(i)' <=> Served(i)
  BY DEF Served
<1>2. Served(i) => UNCHANGED <<spc, cur, renotify>>
  OBVIOUS
<1>3. QueueInv(i)'
  BY <1>1, <1>2 DEF QueueInv
<1>4. CASE ~Served(i)
  <2>1. AtSelect(i)'
    BY <1>4 DEF TalkInv, AtSelect, Idle, AsksFrame, AsksCmd, Finishes, At, Woken
  <2>2. QED  BY <1>1, <1>3, <1>4, <2>1 DEF TalkInv
<1>5. CASE Served(i)
  <2>1. TalkInv(i)'
    BY <1>1, <1>2, <1>5 DEF TalkInv, AtCmd, AtSet, AtFrame, AtSent, At, Woken
  <2>2. QED  BY <1>3, <2>1
<1>6. QED  BY <1>4, <1>5

\* The contents of a channel after sending and receiving.
LEMMA ChannelValues ==
  ASSUME TypeOK, NEW i \in Links, NEW j \in Links, NEW s
  PROVE  /\ Put(toServer, i, s)[j] = IF i = j THEN toServer[j] \o s ELSE toServer[j]
         /\ Put(toClient, i, s)[j] = IF i = j THEN toClient[j] \o s ELSE toClient[j]
         /\ Take(toServer, i)[j] = IF i = j THEN Tail(toServer[j]) ELSE toServer[j]
         /\ Take(toClient, i)[j] = IF i = j THEN Tail(toClient[j]) ELSE toClient[j]
<1>1. toServer \in [Links -> Seq(Requests)] /\ toClient \in [Links -> Seq(Tokens)]
  BY DEF TypeOK, Requests
<1>2. QED  BY <1>1 DEF Put, Take

\* Two messages, one after the other.
LEMMA Pair == ASSUME NEW x, NEW y  PROVE <<x>> \o <<y>> = <<x, y>>
<1> DEFINE S == {x, y}
           u == <<x>>
           v == <<y>>
           s == u \o v
<1>1. u \in Seq(S) /\ Len(u) = 1 /\ u[1] = x /\ v \in Seq(S) /\ Len(v) = 1 /\ v[1] = y
  OBVIOUS
<1> HIDE DEF u, v, S
<1>2. s \in Seq(S) /\ Len(s) = 2 /\ s[1] = x /\ s[2] = y
  BY <1>1, ConcatProperties
<1> HIDE DEF s
<1>3. s = <<x, y>>
  BY <1>2 DEF S
<1>4. QED  BY <1>3 DEF s, u, v

\* Two messages and a third.
LEMMA Triple == ASSUME NEW x, NEW y, NEW z  PROVE <<x, y>> \o <<z>> = <<x, y, z>>
<1> DEFINE S == {x, y, z}
           u == <<x, y>>
           v == <<z>>
           s == u \o v
<1>1. /\ u \in Seq(S) /\ Len(u) = 2 /\ u[1] = x /\ u[2] = y
      /\ v \in Seq(S) /\ Len(v) = 1 /\ v[1] = z
  OBVIOUS
<1> HIDE DEF u, v, S
<1>2. s \in Seq(S) /\ Len(s) = 3 /\ s[1] = x /\ s[2] = y /\ s[3] = z
  <2>1. /\ s \in Seq(S) /\ Len(s) = Len(u) + Len(v)
        /\ \A i \in 1 .. Len(u) + Len(v) :
             s[i] = IF i <= Len(u) THEN u[i] ELSE v[i - Len(u)]
    BY <1>1, ConcatProperties, Zenon
  <2> HIDE DEF s
  <2>2. QED  BY <1>1, <2>1
<1> HIDE DEF s
<1>3. s = <<x, y, z>>
  BY <1>2 DEF S
<1>4. QED  BY <1>3 DEF s, u, v

\* Short sequences.
LEMMA ShortSeqs ==
  ASSUME NEW x, NEW y, NEW z
  PROVE  /\ <<>> \o <<x>> = <<x>> /\ <<x>> \o <<y>> = <<x, y>>
         /\ <<>> \o <<x, y>> = <<x, y>> /\ <<x>> \o <<>> = <<x>>
         /\ <<>> \o <<x, y, z>> = <<x, y, z>>
         /\ <<x, y>> \o <<z>> = <<x, y, z>> /\ <<x, y>> \o <<>> = <<x, y>>
         /\ Append(<<>>, x) = <<x>> /\ Append(<<x>>, y) = <<x, y>>
         /\ Append(<<x, y>>, z) = <<x, y, z>>
         /\ Tail(<<x>>) = <<>> /\ Tail(<<x, y>>) = <<y>> /\ Tail(<<x, y, z>>) = <<y, z>>
         /\ Head(<<x>>) = x /\ Head(<<x, y>>) = x /\ Head(<<x, y, z>>) = x
         /\ <<x>> # <<>> /\ <<x, y>> # <<>> /\ <<x, y, z>> # <<>>
<1>1. <<>> \o <<x>> = <<x>> /\ <<>> \o <<x, y>> = <<x, y>>
  OBVIOUS
<1>2. <<x>> \o <<>> = <<x>> /\ <<x, y>> \o <<>> = <<x, y>>
  OBVIOUS
<1>3. <<>> \o <<x, y, z>> = <<x, y, z>> /\ Append(<<>>, x) = <<x>>
  OBVIOUS
<1>4. Append(<<x>>, y) = <<x, y>>
  <2>1. <<x>> \in Seq({x, y}) /\ y \in {x, y}
    OBVIOUS
  <2>2. QED  BY <2>1, AppendIsConcat, Pair, Zenon
<1>5. Append(<<x, y>>, z) = <<x, y, z>>
  <2>1. <<x, y>> \in Seq({x, y, z}) /\ z \in {x, y, z}
    OBVIOUS
  <2>2. QED  BY <2>1, AppendIsConcat, Triple, Zenon
<1>6. Tail(<<x>>) = <<>> /\ Tail(<<x, y>>) = <<y>> /\ Tail(<<x, y, z>>) = <<y, z>>
  OBVIOUS
<1>7. Head(<<x>>) = x /\ Head(<<x, y>>) = x /\ Head(<<x, y, z>>) = x
  OBVIOUS
<1>8. <<x>> # <<>> /\ <<x, y>> # <<>> /\ <<x, y, z>> # <<>>
  OBVIOUS
<1>9. QED  BY <1>1, <1>2, <1>3, <1>4, <1>5, <1>6, <1>7, <1>8, Pair, Triple, Zenon

\* With at most one change of the link the server reads notify set only once.
LEMMA StepOnce ==
  ASSUME MaxLinkChanges <= 1, TypeOK, OnceInv, [Next]_vars
  PROVE  OnceInv'
<1> USE DEF serverVars, clientVars, linkVars, queueVars
<1>0. /\ lpc = "notify" => changes > 0 /\ ~Told
      /\ Told => changes > 0
      /\ \A i \in Links : wants[i] = 2 => changes > 0 /\ lpc = "wait" /\ ~Told
  BY DEF OnceInv
<1>1. ASSUME UNCHANGED <<lpc, changes>>, Told' => Told,
             \A i \in Links : wants'[i] = 2 => wants[i] = 2
      PROVE  OnceInv'
  BY <1>0, <1>1 DEF OnceInv
<1>2. CASE UNCHANGED vars
  BY <1>1, <1>2 DEF vars, Told
<1>3. ASSUME NEW i \in Links, Client(i)  PROVE OnceInv'
  <2>1. UNCHANGED <<spc, changed, flag, lpc, changes, wants>>
    BY <1>3 DEF Client, mac_rx, send_cmd, ClientAck, ClientChk, ClientDone
  <2>2. QED  BY <1>1, <2>1 DEF Told
<1>4. CASE service_link_cmd \/ ServerCmd \/ ServerSent
  <2>1. UNCHANGED <<flag, lpc, changes, wants>> /\ spc' # "status"
    BY <1>4 DEF service_link_cmd, ServerCmd, ServerSent
  <2>2. QED  BY <1>1, <2>1 DEF Told
<1>5. CASE ServerSet \/ ServerFrame
  <2>1. UNCHANGED <<flag, lpc, changes>> /\ spc' # "status"
    BY <1>5 DEF ServerSet, ServerFrame
  <2>2. wants' = wants \/ wants' = [wants EXCEPT ![cur] = 1]
    BY <1>5 DEF ServerSet, ServerFrame
  <2>3. \A i \in Links : wants'[i] = 2 => wants[i] = 2
    BY <2>2 DEF TypeOK
  <2>4. QED  BY <1>1, <2>1, <2>3 DEF Told
<1>6. CASE ServerDefault
  <2>1. UNCHANGED <<flag, lpc, changes, wants>> /\ changed' = flag
    BY <1>6 DEF ServerDefault
  <2>2. QED  BY <1>1, <2>1 DEF Told
<1>7. CASE ServerStatus
  <2>1. UNCHANGED <<lpc, changes>> /\ ~Told'
    BY <1>7 DEF ServerStatus, Told
  <2>2. changed => changes > 0 /\ lpc = "wait"
    BY <1>0, <1>7 DEF ServerStatus, Told, TypeOK
  <2>3. ~changed => UNCHANGED wants
    BY <1>7 DEF ServerStatus
  <2>4. QED  BY <1>0, <2>1, <2>2, <2>3 DEF OnceInv
<1>8. CASE LinkChange
  <2>1. changes = 0 /\ changes' = 1
    BY <1>8, LinkAssumption DEF LinkChange, TypeOK
  <2>2. UNCHANGED <<spc, changed, flag, wants>>
    BY <1>8 DEF LinkChange
  <2>3. QED  BY <1>0, <2>1, <2>2 DEF OnceInv, Told
<1>9. CASE LinkNotify
  <2>1. lpc = "notify" /\ lpc' = "wait" /\ UNCHANGED <<spc, changed, changes, wants>>
    BY <1>9 DEF LinkNotify
  <2>2. QED  BY <1>0, <2>1 DEF OnceInv
<1>10. QED
  BY <1>2, <1>3, <1>4, <1>5, <1>6, <1>7, <1>8, <1>9 DEF Next, Server
-----------------------------------------------------------------------------
(* The steps of the client itself *)

\* mac_rx is woken only by the notification of a client that is not served,
\* and that has something to get.
LEMMA MacRxTalk ==
  ASSUME TypeOK, NEW i \in Links, QueueInv(i), TalkInv(i), mac_rx(i)
  PROVE  QueueInv(i)' /\ TalkInv(i)'
<1>1. ~Served(i) /\ Idle(i) /\ Woken(i)
  BY DEF mac_rx, Sees, TalkInv, AtCmd, AtSet, AtFrame, AtSent, AtSelect, AsksFrame,
         AsksCmd, Finishes, Idle, At, Served, TypeOK
<1>2. toServer[i] = <<>> /\ toClient[i] = <<"END">>
  BY <1>1 DEF Idle, At
<1>3. toServer'[i] = <<"rx">> /\ toClient'[i] = <<>>
  <2>1. toServer'[i] = toServer[i] \o <<"rx">> /\ toClient'[i] = Tail(toClient[i])
    BY ChannelValues DEF mac_rx
  <2>2. <<>> \o <<"rx">> = <<"rx">> /\ Tail(<<"END">>) = <<>>
    BY ShortSeqs
  <2>3. QED  BY <1>2, <2>1, <2>2
<1>4. /\ cpc'[i] = "ack" /\ ccmd'[i] = "FRAME_REQ"
      /\ UNCHANGED <<spc, cur, notified, wants, filter, len, sent>>
  BY DEF mac_rx, TypeOK, serverVars, queueVars
<1>5. AsksFrame(i)' /\ ~Served(i)'
  BY <1>1, <1>3, <1>4 DEF AsksFrame, At, Woken, Served
<1>6. QueueInv(i)'
  BY <1>1, <1>4, <1>5 DEF QueueInv
<1>7. QED  BY <1>5, <1>6 DEF TalkInv, AtSelect

\* A command may be sent at any time between requests.
LEMMA SendCmdTalk ==
  ASSUME TypeOK, NEW i \in Links, Good(i), QueueInv(i), TalkInv(i), send_cmd(i)
  PROVE  QueueInv(i)' /\ TalkInv(i)'
<1>1. \/ ~Served(i) /\ Idle(i)
      \/ Served(i) /\ spc = "sent" /\ AtSent(i) /\ At(i, "idle", <<>>, <<>>)
  BY DEF send_cmd, TalkInv, AtCmd, AtSet, AtFrame, AtSent, AtSelect, AsksFrame,
         AsksCmd, Finishes, Idle, At, Served, TypeOK
<1>2. toServer[i] = <<>>
  BY <1>1 DEF Idle, At
<1>3. toServer'[i] = <<"cmd">> /\ toClient'[i] = toClient[i]
  <2>1. toServer'[i] = toServer[i] \o <<"cmd">> /\ toClient'[i] = toClient[i]
    BY ChannelValues DEF send_cmd
  <2>2. <<>> \o <<"cmd">> = <<"cmd">>
    BY ShortSeqs
  <2>3. QED  BY <1>2, <2>1, <2>2
<1>4. /\ cpc'[i] = "ack" /\ ccmd'[i] \in Uses[i] /\ sent'[i] > 0
      /\ UNCHANGED <<spc, cur, notified, wants, filter, len>>
  <2>1. sent'[i] = sent[i] + 1 /\ sent[i] \in Nat
    BY DEF send_cmd, TypeOK
  <2>2. QED  BY <2>1 DEF send_cmd, TypeOK, serverVars, queueVars
<1>5. wants[i] = 0
  <2>1. sent[i] < MaxCmds[i] /\ sent[i] \in Nat /\ MaxCmds[i] \in Nat
    BY LinkAssumption DEF send_cmd, TypeOK
  <2>2. QED  BY <2>1 DEF Good, QueueInv
<1>6. Served(i)' <=> Served(i)
  BY <1>4 DEF Served
<1>7. QueueInv(i)'
  BY <1>4, <1>6 DEF QueueInv
<1>8. CASE ~Served(i) /\ Idle(i)
  <2>1. AsksCmd(i)'
    BY <1>3, <1>4, <1>5, <1>8 DEF AsksCmd, At, Woken, Idle
  <2>2. QED  BY <1>6, <1>7, <1>8, <2>1 DEF TalkInv, AtSelect
<1>9. CASE Served(i) /\ spc = "sent" /\ At(i, "idle", <<>>, <<>>)
  <2>1. AtSent(i)'
    BY <1>3, <1>4, <1>5, <1>9 DEF AtSent, At
  <2>2. QED  BY <1>4, <1>6, <1>7, <1>9, <2>1 DEF TalkInv
<1>10. QED  BY <1>1, <1>8, <1>9

\* The first END: the acknowledgement, or a notification in its place.
LEMMA ClientAckTalk ==
  ASSUME TypeOK, NEW i \in Links, QueueInv(i), TalkInv(i), ClientAck(i)
  PROVE  QueueInv(i)' /\ TalkInv(i)'
<1>0. cpc[i] = "ack" /\ toClient[i] # <<>>
  BY DEF ClientAck, Sees
<1>1. \/ ~Served(i) /\ AsksCmd(i) /\ Woken(i) /\ At(i, "ack", <<"cmd">>, <<"END">>)
      \/ Served(i) /\ spc = "cmd" /\ AtCmd(i) /\ At(i, "ack", <<>>, <<"END">>)
  BY <1>0 DEF TalkInv, AtCmd, AtSet, AtFrame, AtSent, AtSelect, AsksFrame,
              AsksCmd, Finishes, Idle, At, Served, TypeOK
<1>2. toClient[i] = <<"END">>
  BY <1>1 DEF At
<1>3. toServer'[i] = toServer[i] \o <<ccmd[i]>> /\ toClient'[i] = <<>>
  <2>1. toServer'[i] = toServer[i] \o <<ccmd[i]>> /\ toClient'[i] = Tail(toClient[i])
    BY ChannelValues DEF ClientAck
  <2>2. Tail(<<"END">>) = <<>>
    BY ShortSeqs
  <2>3. QED  BY <1>2, <2>1, <2>2
<1>4. /\ cpc'[i] = "chk"
      /\ UNCHANGED <<ccmd, sent, spc, cur, renotify, notified, wants, filter, len>>
  BY DEF ClientAck, TypeOK, serverVars, queueVars
<1>5. (Served(i)' <=> Served(i)) /\ QueueInv(i)'
  BY <1>4 DEF QueueInv, Served
<1>6. CASE ~Served(i) /\ AsksCmd(i) /\ Woken(i) /\ At(i, "ack", <<"cmd">>, <<"END">>)
  <2>1. toServer'[i] = <<"cmd", ccmd[i]>>
    <3>1. <<"cmd">> \o <<ccmd[i]>> = <<"cmd", ccmd[i]>>
      BY Pair
    <3>2. QED  BY <1>3, <1>6, <3>1 DEF At
  <2>2. AsksCmd(i)'
    BY <1>3, <1>4, <1>6, <2>1 DEF AsksCmd, At, Woken
  <2>3. QED  BY <1>5, <1>6, <2>2 DEF TalkInv, AtSelect
<1>7. CASE Served(i) /\ spc = "cmd" /\ AtCmd(i) /\ At(i, "ack", <<>>, <<"END">>)
  <2>1. toServer'[i] = <<ccmd[i]>>
    BY <1>3, <1>7, ShortSeqs DEF At
  <2>2. AtCmd(i)'
    BY <1>3, <1>4, <1>7, <2>1 DEF AtCmd, At, Woken
  <2>3. QED  BY <1>4, <1>5, <1>7, <2>2 DEF TalkInv
<1>8. QED  BY <1>1, <1>6, <1>7

\* The second END, after the command word.
LEMMA ClientChkTalk ==
  ASSUME TypeOK, NEW i \in Links, QueueInv(i), TalkInv(i), ClientChk(i)
  PROVE  QueueInv(i)' /\ TalkInv(i)'
<1>0. cpc[i] = "chk" /\ toClient[i] # <<>>
  BY DEF ClientChk, Sees
<1>1. \/ /\ ~Served(i) /\ Finishes(i) /\ ccmd[i] = "CNT_REQ"
         /\ At(i, "chk", <<>>, IF Woken(i) THEN <<"END", "value", "END">>
                               ELSE <<"END", "value">>)
      \/ Served(i) /\ spc = ccmd[i] /\ AtSet(i) /\ At(i, "chk", <<>>, <<"END">>)
      \/ Served(i) /\ spc = "frame" /\ AtFrame(i) /\ At(i, "chk", <<>>, <<"END">>)
      \/ /\ Served(i) /\ spc = "sent" /\ AtSent(i) /\ ccmd[i] = "FRAME_REQ"
         /\ \E t \in {"frame", "status"} : At(i, "chk", <<>>, <<"END", t>>)
  BY <1>0 DEF TalkInv, AtCmd, AtSet, AtFrame, AtSent, AtSelect, AsksFrame,
              AsksCmd, Finishes, Idle, At, Served, TypeOK
<1>2. toServer[i] = <<>>
  BY <1>1 DEF At
<1>3. /\ toServer'[i] = IF ccmd[i] \in {"FILTER_SET", "STATUS_SET"} THEN <<"value">>
                        ELSE <<>>
      /\ toClient'[i] = Tail(toClient[i])
  <2>1. /\ toServer'[i] = IF ccmd[i] \in {"FILTER_SET", "STATUS_SET"}
                          THEN toServer[i] \o <<"value">> ELSE toServer[i]
        /\ toClient'[i] = Tail(toClient[i])
    BY ChannelValues DEF ClientChk
  <2>2. <<>> \o <<"value">> = <<"value">>
    BY ShortSeqs
  <2>3. QED  BY <1>2, <2>1, <2>2
<1>4. /\ cpc'[i] = "reply"
      /\ UNCHANGED <<ccmd, sent, spc, cur, renotify, notified, wants, filter, len>>
  BY DEF ClientChk, TypeOK, serverVars, queueVars
<1>5. (Served(i)' <=> Served(i)) /\ QueueInv(i)'
  BY <1>4 DEF QueueInv, Served
<1>6. CASE /\ ~Served(i) /\ Finishes(i) /\ ccmd[i] = "CNT_REQ"
           /\ At(i, "chk", <<>>, IF Woken(i) THEN <<"END", "value", "END">>
                                 ELSE <<"END", "value">>)
  <2>1. toClient'[i] = IF Woken(i) THEN <<"value", "END">> ELSE <<"value">>
    BY <1>3, <1>6, ShortSeqs DEF At
  <2>2. Finishes(i)'
    BY <1>3, <1>4, <1>6, <2>1 DEF Finishes, At, Woken
  <2>3. QED  BY <1>5, <1>6, <2>2 DEF TalkInv, AtSelect
<1>7. CASE Served(i) /\ spc = ccmd[i] /\ AtSet(i) /\ At(i, "chk", <<>>, <<"END">>)
  <2>1. spc \in {"FILTER_SET", "STATUS_SET"} /\ toClient'[i] = <<>>
    <3>1. ccmd[i] \in Commands /\ spc # "CNT_REQ"
      BY <1>7, LinkAssumption DEF AtSet, TypeOK
    <3>2. QED  BY <1>3, <1>7, <3>1, ShortSeqs DEF At, Commands
  <2>2. AtSet(i)'
    BY <1>3, <1>4, <1>7, <2>1 DEF AtSet, At
  <2>3. QED  BY <1>4, <1>5, <1>7, <2>1, <2>2 DEF TalkInv
<1>8. CASE Served(i) /\ spc = "frame" /\ AtFrame(i) /\ At(i, "chk", <<>>, <<"END">>)
  <2>1. toClient'[i] = <<>> /\ ccmd[i] = "FRAME_REQ"
    BY <1>3, <1>8, ShortSeqs DEF At, AtFrame
  <2>2. AtFrame(i)'
    BY <1>3, <1>4, <1>8, <2>1 DEF AtFrame, At, Woken
  <2>3. QED  BY <1>4, <1>5, <1>8, <2>2 DEF TalkInv
<1>9. CASE /\ Served(i) /\ spc = "sent" /\ AtSent(i) /\ ccmd[i] = "FRAME_REQ"
           /\ \E t \in {"frame", "status"} : At(i, "chk", <<>>, <<"END", t>>)
  <2>1. PICK t \in {"frame", "status"} : toClient[i] = <<"END", t>>
    BY <1>9 DEF At
  <2>2. toClient'[i] = <<t>>
    BY <1>3, <2>1, ShortSeqs
  <2>3. AtSent(i)'
    BY <1>3, <1>4, <1>9, <2>2 DEF AtSent, At
  <2>4. QED  BY <1>4, <1>5, <1>9, <2>3 DEF TalkInv
<1>10. QED  BY <1>1, <1>6, <1>7, <1>8, <1>9

\* The reply ends the request.
LEMMA ClientDoneTalk ==
  ASSUME TypeOK, NEW i \in Links, QueueInv(i), TalkInv(i), ClientDone(i)
  PROVE  QueueInv(i)' /\ TalkInv(i)'
<1>0. cpc[i] = "reply" /\ toClient[i] # <<>>
  BY DEF ClientDone, Sees
<1>1. \/ /\ ~Served(i)
         /\ At(i, "reply", <<>>, IF Woken(i) THEN <<"value", "END">> ELSE <<"value">>)
      \/ /\ Served(i) /\ spc = "sent" /\ AtSent(i)
         /\ \E t \in {"frame", "status"} : At(i, "reply", <<>>, <<t>>)
  BY <1>0 DEF TalkInv, AtCmd, AtSet, AtFrame, AtSent, AtSelect, AsksFrame,
              AsksCmd, Finishes, Idle, At, Served, TypeOK
<1>2. toServer'[i] = <<>> /\ toClient'[i] = Tail(toClient[i])
  BY <1>1, ChannelValues DEF ClientDone, At
<1>3. /\ cpc'[i] = "idle"
      /\ UNCHANGED <<ccmd, sent, spc, cur, renotify, notified, wants, filter, len>>
  BY DEF ClientDone, TypeOK, serverVars, queueVars
<1>4. (Served(i)' <=> Served(i)) /\ QueueInv(i)'
  BY <1>3 DEF QueueInv, Served
<1>5. CASE /\ ~Served(i)
           /\ At(i, "reply", <<>>, IF Woken(i) THEN <<"value", "END">> ELSE <<"value">>)
  <2>1. toClient'[i] = IF Woken(i) THEN <<"END">> ELSE <<>>
    BY <1>2, <1>5, ShortSeqs DEF At
  <2>2. Idle(i)'
    BY <1>2, <1>3, <2>1 DEF Idle, At, Woken
  <2>3. QED  BY <1>4, <1>5, <2>2 DEF TalkInv, AtSelect
<1>6. CASE /\ Served(i) /\ spc = "sent" /\ AtSent(i)
           /\ \E t \in {"frame", "status"} : At(i, "reply", <<>>, <<t>>)
  <2>1. toClient'[i] = <<>>
    BY <1>2, <1>6, ShortSeqs DEF At
  <2>2. AtSent(i)'
    BY <1>2, <1>3, <1>6, <2>1 DEF AtSent, At
  <2>3. QED  BY <1>3, <1>4, <1>6, <2>2 DEF TalkInv
<1>7. QED  BY <1>1, <1>5, <1>6

\* The steps of one client leave the others alone.
LEMMA ClientTalk ==
  ASSUME TypeOK, NEW i \in Links, Good(i), QueueInv(i), TalkInv(i),
         NEW j \in Links, Client(j)
  PROVE  QueueInv(i)' /\ TalkInv(i)'
<1>1. CASE i = j
  BY <1>1, MacRxTalk, SendCmdTalk, ClientAckTalk, ClientChkTalk, ClientDoneTalk
  DEF Client
<1>2. CASE i # j
  <2>1. UNCHANGED <<spc, cur, renotify, notified, wants, filter, len>>
    BY DEF Client, mac_rx, send_cmd, ClientAck, ClientChk, ClientDone, serverVars, queueVars
  <2>2. toServer'[i] = toServer[i] /\ toClient'[i] = toClient[i]
    BY <1>2, ChannelValues DEF Client, mac_rx, send_cmd, ClientAck, ClientChk, ClientDone
  <2>3. cpc'[i] = cpc[i] /\ ccmd'[i] = ccmd[i] /\ sent'[i] = sent[i]
    BY <1>2 DEF Client, mac_rx, send_cmd, ClientAck, ClientChk, ClientDone, TypeOK
  <2>4. QED  BY <2>1, <2>2, <2>3, Untouched DEF Same
<1>3. QED  BY <1>1, <1>2
-----------------------------------------------------------------------------
(* The steps of the server with one client *)

\* service_link_cmd: the acknowledgement is out, or the notification that the
\* client takes for it was, and then renotify is set.
LEMMA ServiceTalk ==
  ASSUME TypeOK, NEW i \in Links, QueueInv(i), TalkInv(i), service_link_cmd
  PROVE  QueueInv(i)' /\ TalkInv(i)'
<1>1. PICK j \in Links :
        /\ Asks(j) /\ toServer' = Take(toServer, j)
        /\ toClient' = IF Acknowledged(j) THEN Put(toClient, j, <<"END">>) ELSE toClient
        /\ renotify' = notified[j] /\ cur' = j
  BY DEF service_link_cmd
<1>2. /\ spc = "select" /\ spc' = "cmd"
      /\ UNCHANGED <<cpc, ccmd, sent, notified, wants, filter, len>>
  BY DEF service_link_cmd, clientVars, queueVars
<1>3. ~Served(i) /\ AtSelect(i)
  BY <1>2 DEF TalkInv, Served
<1>4. CASE i # j
  <2>1. toServer'[i] = toServer[i] /\ toClient'[i] = toClient[i]
    BY <1>1, <1>4, ChannelValues
  <2>2. QED  BY <1>1, <1>2, <1>3, <1>4, <2>1, Untouched DEF Same, Served
<1>5. CASE i = j
  <2>1. /\ toServer'[i] = Tail(toServer[i])
        /\ toClient'[i] = IF Acknowledged(i) THEN toClient[i] \o <<"END">> ELSE toClient[i]
    BY <1>1, <1>5, ChannelValues
  <2>2. <<>> \o <<"END">> = <<"END">> /\ Tail(<<"rx">>) = <<>> /\ Tail(<<"cmd">>) = <<>>
        /\ Tail(<<"cmd", ccmd[i]>>) = <<ccmd[i]>>
        /\ Head(<<"rx">>) = "rx" /\ Head(<<"cmd">>) = "cmd" /\ <<"rx">> # <<>>
        /\ Head(<<"cmd", ccmd[i]>>) = "cmd"
    BY ShortSeqs
  <2>3. Served(i)' /\ renotify' = notified[i]
    BY <1>1, <1>2, <1>5 DEF Served
  <2>4. QueueInv(i)'
    BY <1>2, <1>3 DEF QueueInv
  <2>5. AtCmd(i)'
    <3>1. AsksFrame(i) \/ AsksCmd(i)
      BY <1>1, <1>3, <1>5 DEF AtSelect, Idle, Finishes, At, Asks, Sees
    <3>2. CASE AsksFrame(i)
      <4>1. Acknowledged(i)
        BY <2>2, <3>2 DEF Acknowledged, Sees, AsksFrame, At
      <4>2. QED  BY <1>2, <2>1, <2>2, <2>3, <3>2, <4>1 DEF AsksFrame, AtCmd, At, Woken
    <3>3. CASE AsksCmd(i)
      <4>1. Acknowledged(i) <=> ~notified[i]
        BY <2>2, <3>3 DEF Acknowledged, Sees, AsksCmd, At
      <4>2. Woken(i) <=> notified[i]
        BY <3>3 DEF AsksCmd, Woken
      <4>3. QED  BY <1>2, <2>1, <2>2, <2>3, <3>3, <4>1, <4>2 DEF AsksCmd, AtCmd, At
    <3>4. QED  BY <3>1, <3>2, <3>3
  <2>6. QED  BY <1>2, <2>3, <2>4, <2>5 DEF TalkInv
<1>6. QED  BY <1>4, <1>5

\* A step of the server with another client.
LEMMA OtherServed ==
  ASSUME TypeOK, NEW i \in Links, QueueInv(i), TalkInv(i), cur # i,
         ServerCmd \/ ServerSet \/ ServerFrame \/ ServerSent
  PROVE  QueueInv(i)' /\ TalkInv(i)'
<1> USE DEF clientVars, queueVars
<1>1. cur \in Links /\ UNCHANGED <<cur, clientVars>>
  BY DEF ServerCmd, ServerSet, ServerFrame, ServerSent, TypeOK
<1>2. ~Served(i) /\ ~Served(i)'
  BY <1>1 DEF Served
<1>3. toServer'[i] = toServer[i] /\ toClient'[i] = toClient[i]
  <2>1. CASE ServerCmd
    BY <1>1, <2>1, ChannelValues DEF ServerCmd
  <2>2. CASE ServerSet
    BY <1>1, <2>2, ChannelValues DEF ServerSet
  <2>3. CASE ServerFrame
    BY <1>1, <2>3, ChannelValues DEF ServerFrame
  <2>4. CASE ServerSent
    BY <1>1, <2>4, ChannelValues DEF ServerSent
  <2>5. QED  BY <2>1, <2>2, <2>3, <2>4
<1>4. notified'[i] = notified[i] /\ filter'[i] = filter[i]
  BY <1>1 DEF ServerCmd, ServerSet, ServerFrame, ServerSent, TypeOK
<1>5. wants'[i] = wants[i] /\ len'[i] = len[i]
  <2>1. wants' = wants \/ wants' = [wants EXCEPT ![cur] = 1]
    BY DEF ServerCmd, ServerSet, ServerFrame, ServerSent
  <2>2. len' = len \/ len' = [len EXCEPT ![cur] = @ - 1]
    BY DEF ServerCmd, ServerSet, ServerFrame, ServerSent
  <2>3. QED  BY <1>1, <2>1, <2>2 DEF TypeOK
<1>6. QED  BY <1>1, <1>2, <1>3, <1>4, <1>5, Untouched DEF Same

\* The command word is the one of the client's request.
LEMMA ServerCmdTalk ==
  ASSUME TypeOK, NEW i \in Links, QueueInv(i), TalkInv(i), ServerCmd, cur = i
  PROVE  QueueInv(i)' /\ TalkInv(i)'
<1>1. /\ spc = "cmd" /\ toServer[i] # <<>> /\ toServer' = Take(toServer, i)
      /\ UNCHANGED <<cur, cpc, ccmd, sent, notified, wants, filter, len>>
  BY DEF ServerCmd, clientVars, queueVars
<1>2. Served(i) /\ AtCmd(i) /\ At(i, "chk", <<ccmd[i]>>, <<>>)
  BY <1>1 DEF TalkInv, Served, AtCmd, At
<1>3. Head(toServer[i]) = ccmd[i] /\ toServer'[i] = <<>>
  <2>1. toServer'[i] = Tail(toServer[i])
    BY <1>1, ChannelValues
  <2>2. Tail(<<ccmd[i]>>) = <<>> /\ Head(<<ccmd[i]>>) = ccmd[i]
    BY ShortSeqs
  <2>3. QED  BY <1>2, <2>1, <2>2 DEF At
<1>4. QueueInv(i)'
  BY <1>1 DEF QueueInv, Served
<1>5. CASE ccmd[i] \in {"FRAME_REQ", "FILTER_SET", "STATUS_SET"}
  <2>1. toClient'[i] = <<"END">>
    <3>1. toClient' = Put(toClient, i, <<"END">>)
      BY <1>3, <1>5 DEF ServerCmd
    <3>2. toClient'[i] = toClient[i] \o <<"END">>
      BY <3>1, ChannelValues
    <3>3. <<>> \o <<"END">> = <<"END">>
      BY ShortSeqs
    <3>4. QED  BY <1>2, <3>2, <3>3 DEF At
  <2>2. CASE ccmd[i] = "FRAME_REQ"
    <3>1. spc' = "frame" /\ Served(i)' /\ Woken(i)
      BY <1>1, <1>2, <1>3, <2>2, LinkAssumption DEF ServerCmd, Served, AtCmd, Commands
    <3>2. AtFrame(i)'
      BY <1>1, <1>2, <1>3, <2>1, <2>2, <3>1 DEF AtFrame, At, Woken
    <3>3. QED  BY <1>4, <3>1, <3>2 DEF TalkInv
  <2>3. CASE ccmd[i] # "FRAME_REQ"
    <3>1. spc' = ccmd[i] /\ renotify' = renotify /\ Served(i)'
      BY <1>1, <1>3, <1>5, <2>3 DEF ServerCmd, Served
    <3>2. AtSet(i)'
      BY <1>1, <1>2, <1>3, <2>1, <2>3, <3>1 DEF AtSet, AtCmd, At
    <3>3. QED  BY <1>4, <1>5, <2>3, <3>1, <3>2 DEF TalkInv
  <2>4. QED  BY <2>2, <2>3
<1>6. CASE ccmd[i] = "CNT_REQ"
  <2>1. /\ spc' = "select" /\ ~Served(i)' /\ wants[i] = 0 /\ ccmd[i] \in Uses[i]
        /\ renotify = notified[i]
    BY <1>2, <1>3, <1>6 DEF ServerCmd, Served, AtCmd
  <2>2. toClient'[i] = IF Woken(i) THEN <<"END", "value", "END">> ELSE <<"END", "value">>
    <3>1. toClient' = Put(toClient, i, <<"END", "value">> \o Renotify)
      BY <1>3, <1>6 DEF ServerCmd
    <3>2. toClient'[i] = toClient[i] \o (<<"END", "value">> \o Renotify)
      BY <3>1, ChannelValues
    <3>3. <<"END", "value">> \o Renotify
            = IF Woken(i) THEN <<"END", "value", "END">> ELSE <<"END", "value">>
      <4>1. Renotify = IF Woken(i) THEN <<"END">> ELSE <<>>
        BY <2>1 DEF Renotify, Woken
      <4>2. <<"END", "value">> \o <<"END">> = <<"END", "value", "END">>
        BY Triple
      <4>3. <<"END", "value">> \o <<>> = <<"END", "value">>
        OBVIOUS
      <4>4. QED  BY <4>1, <4>2, <4>3
    <3>4. /\ <<>> \o <<"END", "value", "END">> = <<"END", "value", "END">>
          /\ <<>> \o <<"END", "value">> = <<"END", "value">>
      BY ShortSeqs
    <3>5. QED  BY <1>2, <3>2, <3>3, <3>4 DEF At
  <2>3. Finishes(i)'
    BY <1>1, <1>2, <1>3, <1>6, <2>1, <2>2 DEF Finishes, At, Woken
  <2>4. QED  BY <1>4, <2>1, <2>3 DEF TalkInv, AtSelect
<1>7. QED  BY <1>5, <1>6 DEF TypeOK, Commands

\* A value is stored and the end of the exchange sent, and the notification
\* after it.
LEMMA ServerSetTalk ==
  ASSUME TypeOK, NEW i \in Links, Good(i), QueueInv(i), TalkInv(i), ServerSet, cur = i
  PROVE  QueueInv(i)' /\ TalkInv(i)'
<1>1. /\ spc \in {"FILTER_SET", "STATUS_SET"} /\ spc' = "select" /\ toServer[i] # <<>>
      /\ toServer' = Take(toServer, i)
      /\ toClient' = Put(toClient, i, <<"value">> \o Renotify)
      /\ UNCHANGED <<cur, cpc, ccmd, sent, notified, len>>
  BY DEF ServerSet, Sees, clientVars
<1>2. Served(i) /\ ~Served(i)' /\ AtSet(i) /\ At(i, "reply", <<"value">>, <<>>)
  BY <1>1 DEF TalkInv, Served, AtSet, At
<1>3. wants'[i] \in {0, 1}
  <2>1. wants' = wants \/ wants' = [wants EXCEPT ![i] = 1]
    BY DEF ServerSet
  <2>2. QED  BY <1>2, <2>1 DEF AtSet, TypeOK
<1>4. QueueInv(i)'
  <2>1. CASE "STATUS_SET" \notin Uses[i]
    <3>1. spc = "FILTER_SET" /\ UNCHANGED wants
      BY <1>1, <1>2, <2>1 DEF AtSet, ServerSet
    <3>2. QED  BY <1>1, <2>1, <3>1 DEF QueueInv
  <2>2. CASE "STATUS_SET" \in Uses[i]
    <3>1. spc = "STATUS_SET" /\ ccmd[i] # "FRAME_REQ" /\ UNCHANGED filter
      BY <1>2, <2>2 DEF AtSet, Good, ServerSet
    <3>2. QED  BY <1>1, <2>2, <3>1 DEF QueueInv
  <2>3. QED  BY <2>1, <2>2
<1>5. toServer'[i] = <<>>
  <2>1. toServer'[i] = Tail(toServer[i])
    BY <1>1, ChannelValues
  <2>2. Tail(<<"value">>) = <<>>
    BY ShortSeqs
  <2>3. QED  BY <1>2, <2>1, <2>2 DEF At
<1>6. toClient'[i] = IF notified[i] THEN <<"value", "END">> ELSE <<"value">>
  <2>1. toClient'[i] = toClient[i] \o (<<"value">> \o Renotify)
    BY <1>1, ChannelValues
  <2>2. <<"value">> \o Renotify = IF notified[i] THEN <<"value", "END">> ELSE <<"value">>
    <3>1. Renotify = IF notified[i] THEN <<"END">> ELSE <<>>
      BY <1>2 DEF Renotify, AtSet
    <3>2. <<"value">> \o <<"END">> = <<"value", "END">> /\ <<"value">> \o <<>> = <<"value">>
      BY Pair, ShortSeqs, Zenon
    <3>3. QED  BY <3>1, <3>2
  <2>3. <<>> \o <<"value", "END">> = <<"value", "END">> /\ <<>> \o <<"value">> = <<"value">>
    BY ShortSeqs
  <2>4. QED  BY <1>2, <2>1, <2>2, <2>3 DEF At
<1>7. Finishes(i)'
  BY <1>1, <1>2, <1>3, <1>5, <1>6 DEF Finishes, AtSet, At, Woken
<1>8. QED  BY <1>2, <1>4, <1>7 DEF TalkInv, AtSelect

\* A client that asks for a frame gets a status packet or a frame: it was
\* woken for one of them.
LEMMA ServerFrameTalk ==
  ASSUME TypeOK, NEW i \in Links, QueueInv(i), TalkInv(i), ServerFrame, cur = i
  PROVE  QueueInv(i)' /\ TalkInv(i)'
<1>1. /\ spc = "frame" /\ UNCHANGED <<cur, cpc, ccmd, sent, notified, filter, toServer>>
  BY DEF ServerFrame, clientVars
<1>2. Served(i) /\ AtFrame(i)
  BY <1>1 DEF TalkInv, Served
<1>3. len[i] > 0 \/ wants[i] = 2
  BY <1>1, <1>2 DEF AtFrame, Woken, QueueInv, TypeOK
<1>4. PICK t \in {"frame", "status"} :
        /\ toClient' = Put(toClient, i, <<t>>) /\ spc' = "sent"
        /\ \/ wants[i] = 2 /\ wants' = [wants EXCEPT ![i] = 1] /\ UNCHANGED len
           \/ wants[i] # 2 /\ len' = [len EXCEPT ![i] = @ - 1] /\ UNCHANGED wants
  BY <1>3 DEF ServerFrame
<1>5. Served(i)'
  BY <1>1, <1>4 DEF Served
<1>6. /\ \/ wants[i] = 2 /\ wants'[i] = 1 /\ len'[i] = len[i]
         \/ wants[i] # 2 /\ wants'[i] = wants[i] /\ len'[i] = len[i] - 1
      /\ len[i] \in Int
  BY <1>4 DEF TypeOK
<1>7. QueueInv(i)'
  <2>1. CASE "STATUS_SET" \notin Uses[i]
    BY <1>1, <1>3, <1>4, <1>5, <1>6, <2>1 DEF QueueInv
  <2>2. CASE "STATUS_SET" \in Uses[i]
    BY <1>1, <1>3, <1>6, <2>2 DEF QueueInv
  <2>3. QED  BY <2>1, <2>2
<1>8. AtSent(i)'
  <2>1. toClient'[i] = toClient[i] \o <<t>>
    BY <1>4, ChannelValues
  <2>2. <<>> \o <<t>> = <<t>> /\ <<"END">> \o <<t>> = <<"END", t>>
    <3>1. <<>> \o <<t>> = <<t>>
      OBVIOUS
    <3>2. QED  BY <3>1, Pair
  <2>3. \/ At(i, "chk", <<>>, <<"END", t>>)'
        \/ At(i, "reply", <<>>, <<t>>)'
    BY <1>1, <1>2, <2>1, <2>2 DEF AtFrame, At
  <2>4. QED  BY <1>1, <1>2, <1>6, <2>3 DEF AtSent, AtFrame, At
<1>9. QED  BY <1>4, <1>5, <1>7, <1>8 DEF TalkInv

\* The client has taken the packet: it is notified again if there is another.
LEMMA ServerSentTalk ==
  ASSUME TypeOK, NEW i \in Links, QueueInv(i), TalkInv(i), ServerSent, cur = i
  PROVE  QueueInv(i)' /\ TalkInv(i)'
<1>1. /\ spc = "sent" /\ spc' = "select" /\ toClient[i] = <<>>
      /\ UNCHANGED <<cur, cpc, ccmd, sent, wants, filter, len, toServer>>
  BY DEF ServerSent, clientVars
<1>2. /\ Served(i) /\ ~Served(i)' /\ AtSent(i)
      /\ \/ At(i, "idle", <<>>, <<>>)
         \/ At(i, "ack", <<"cmd">>, <<>>) /\ ccmd[i] \in Uses[i] /\ wants[i] = 0
  BY <1>1, ShortSeqs DEF TalkInv, Served, AtSent, At
<1>3. CASE len[i] > 0
  <2>1. notified[i] /\ notified'[i]
    <3>1. notified' = notified
      BY <1>3 DEF ServerSent
    <3>2. QED  BY <1>3, <3>1 DEF QueueInv
  <2>2. toClient'[i] = <<"END">>
    <3>1. toClient' = Put(toClient, i, <<"END">>)
      BY <1>3 DEF ServerSent
    <3>2. toClient'[i] = toClient[i] \o <<"END">>
      BY <3>1, ChannelValues
    <3>3. <<>> \o <<"END">> = <<"END">>
      BY ShortSeqs
    <3>4. QED  BY <1>1, <3>2, <3>3
  <2>3. Woken(i)'
    BY <2>1 DEF Woken
  <2>4. Idle(i)' \/ AsksCmd(i)'
    BY <1>1, <1>2, <2>2, <2>3 DEF Idle, AsksCmd, At
  <2>5. QueueInv(i)'
    BY <1>1, <1>3, <2>1 DEF QueueInv
  <2>6. QED  BY <1>2, <2>4, <2>5 DEF TalkInv, AtSelect
<1>4. CASE ~(len[i] > 0)
  <2>1. ~notified'[i] /\ toClient' = toClient
    BY <1>4 DEF ServerSent, TypeOK
  <2>2. ~Woken(i)'
    BY <1>1, <1>2, <2>1 DEF Woken, AtSent
  <2>3. Idle(i)' \/ AsksCmd(i)'
    BY <1>1, <1>2, <2>1, <2>2 DEF Idle, AsksCmd, At
  <2>4. QueueInv(i)'
    BY <1>1, <1>4, <2>1 DEF QueueInv
  <2>5. QED  BY <1>2, <2>3, <2>4 DEF TalkInv, AtSelect
<1>5. QED  BY <1>3, <1>4
-----------------------------------------------------------------------------
(* The steps of the server with every client *)

\* A wake-up goes to the end of what is in the channel of a client that is not
\* served and was not woken.
LEMMA WakeTalk ==
  ASSUME TypeOK, NEW i \in Links, AtSelect(i), ~Woken(i), Woken(i)',
         toClient'[i] = Append(toClient[i], "END"), toServer'[i] = toServer[i],
         cpc'[i] = cpc[i], ccmd'[i] = ccmd[i],
         wants[i] = 0 => wants'[i] = 0
  PROVE  AtSelect(i)'
<1>1. /\ Append(<<>>, "END") = <<"END">>
      /\ Append(<<"value">>, "END") = <<"value", "END">>
      /\ Append(<<"END", "value">>, "END") = <<"END", "value", "END">>
  <2>1. Append(<<>>, "END") = <<"END">>
    BY ShortSeqs
  <2>2. Append(<<"value">>, "END") = <<"value", "END">>
    BY ShortSeqs
  <2>3. Append(<<"END", "value">>, "END") = <<"END", "value", "END">>
    <3>1. <<"END", "value">> \in Seq({"END", "value"}) /\ "END" \in {"END", "value"}
      OBVIOUS
    <3>2. QED  BY <3>1, AppendIsConcat, Triple, Zenon
  <2>4. QED  BY <2>1, <2>2, <2>3
<1>2. CASE Idle(i)
  <2>1. Idle(i)'
    BY <1>1, <1>2 DEF Idle, At
  <2>2. QED  BY <2>1 DEF AtSelect
<1>3. CASE AsksCmd(i)
  <2>1. AsksCmd(i)'
    BY <1>1, <1>3 DEF AsksCmd, At
  <2>2. QED  BY <2>1 DEF AtSelect
<1>4. CASE Finishes(i)
  <2>1. Finishes(i)'
    BY <1>1, <1>4 DEF Finishes, At
  <2>2. QED  BY <2>1 DEF AtSelect
<1>5. QED  BY <1>2, <1>3, <1>4 DEF AtSelect, AsksFrame

\* A frame is queued for some clients, and those that have none yet are woken.
LEMMA ServerDefaultTalk ==
  ASSUME TypeOK, NEW i \in Links, QueueInv(i), TalkInv(i), ServerDefault
  PROVE  QueueInv(i)' /\ TalkInv(i)'
<1>1. /\ spc = "select" /\ spc' = "status"
      /\ UNCHANGED <<toServer, cpc, ccmd, sent, wants, filter>>
  BY DEF ServerDefault, clientVars
<1>2. PICK Q \in SUBSET Links :
        /\ \A j \in Q : filter[j]
        /\ len' = [j \in Links |-> IF j \in Q THEN len[j] + 1 ELSE len[j]]
        /\ notified' = [j \in Links |-> notified[j] \/ j \in Q]
        /\ toClient' = [j \in Links |-> IF j \in Q /\ ~notified[j]
                                        THEN Append(toClient[j], "END")
                                        ELSE toClient[j]]
  BY DEF ServerDefault
<1>3. ~Served(i) /\ ~Served(i)' /\ AtSelect(i)
  BY <1>1 DEF TalkInv, Served
<1>4. CASE i \notin Q
  <2>1. len'[i] = len[i] /\ notified'[i] = notified[i] /\ toClient'[i] = toClient[i]
    BY <1>2, <1>4 DEF TypeOK
  <2>2. QED  BY <1>1, <1>3, <2>1, Untouched DEF Same
<1>5. CASE i \in Q
  <2>1. len'[i] = len[i] + 1 /\ notified'[i] /\ filter[i] /\ len[i] \in Nat
    BY <1>2, <1>5, LinkAssumption DEF TypeOK
  <2>2. "STATUS_SET" \notin Uses[i] /\ wants[i] = 0
    BY <2>1 DEF QueueInv
  <2>3. QueueInv(i)'
    BY <1>1, <2>1, <2>2 DEF QueueInv
  <2>4. Woken(i)' /\ (Woken(i) <=> notified[i])
    BY <2>1, <2>2 DEF Woken
  <2>5. CASE ~notified[i]
    <3>1. toClient'[i] = Append(toClient[i], "END")
      BY <1>2, <1>5, <2>5
    <3>2. AtSelect(i)'
      BY <1>1, <1>3, <2>4, <2>5, <3>1, WakeTalk
    <3>3. QED  BY <1>3, <2>3, <3>2 DEF TalkInv
  <2>6. CASE notified[i]
    <3>1. toClient'[i] = toClient[i]
      BY <1>2, <1>5, <2>6
    <3>2. AtSelect(i)'
      BY <1>1, <1>3, <2>4, <2>6, <3>1
      DEF AtSelect, Idle, AsksFrame, AsksCmd, Finishes, At
    <3>3. QED  BY <1>3, <2>3, <3>2 DEF TalkInv
  <2>7. QED  BY <2>5, <2>6
<1>6. QED  BY <1>4, <1>5

\* The clients that want to know of the link are woken, each of them once.
LEMMA ServerStatusTalk ==
  ASSUME TypeOK, NEW i \in Links, QueueInv(i), TalkInv(i), ServerStatus,
         "STATUS_SET" \in Uses[i] => SpacedStep
  PROVE  QueueInv(i)' /\ TalkInv(i)'
<1>1. /\ spc = "status" /\ spc' = "select"
      /\ UNCHANGED <<cur, renotify, toServer, cpc, ccmd, sent, notified, filter, len>>
  BY DEF ServerStatus, clientVars
<1>2. ~Served(i) /\ ~Served(i)' /\ AtSelect(i)
  BY <1>1 DEF TalkInv, Served
<1>3. CASE ~changed \/ wants[i] = 0
  <2>1. wants'[i] = wants[i] /\ toClient'[i] = toClient[i]
    BY <1>3 DEF ServerStatus, TypeOK
  <2>2. QED  BY <1>1, <1>2, <2>1, Untouched DEF Same
<1>4. CASE changed /\ wants[i] # 0
  <2>1. "STATUS_SET" \in Uses[i] /\ ~notified[i]
    BY <1>4 DEF QueueInv
  <2>2. wants[i] # 2
    BY <1>4, <2>1 DEF SpacedStep
  <2>3. wants'[i] = 2 /\ toClient'[i] = Append(toClient[i], "END")
    BY <1>4, <2>1 DEF ServerStatus, TypeOK
  <2>4. QueueInv(i)'
    BY <1>1, <1>4, <2>1 DEF QueueInv
  <2>5. ~Woken(i) /\ Woken(i)'
    BY <2>1, <2>2, <2>3 DEF Woken
  <2>6. AtSelect(i)'
    BY <1>1, <1>2, <1>4, <2>3, <2>5, WakeTalk
  <2>7. QED  BY <1>2, <2>4, <2>6 DEF TalkInv
<1>5. QED  BY <1>3, <1>4

-----------------------------------------------------------------------------
(* Theorems *)

\* At first nothing is in the channels.
LEMMA InitClientInv == ASSUME Init, NEW i \in Links  PROVE ClientInv(i)
<1>1. TypeOK
  BY InitTypes
<1>2. ~Served(i) /\ Idle(i)
  BY DEF Init, Served, Idle, At, Woken
<1>3. QueueInv(i)
  BY DEF Init, QueueInv
<1>4. QED  BY <1>1, <1>2, <1>3 DEF ClientInv, TalkInv, AtSelect

\* ClientInv is inductive: of a client that does not ask for status packets,
\* whatever the link and the other clients do.
LEMMA StepClientInv ==
  ASSUME NEW i \in Links, Good(i), ClientInv(i), [Next]_vars,
         "STATUS_SET" \in Uses[i] => [SpacedStep]_vars
  PROVE  ClientInv(i)'
<1>0. TypeOK /\ QueueInv(i) /\ TalkInv(i)
  BY DEF ClientInv
<1>1. TypeOK'
  BY <1>0, StepTypes
<1>2. CASE UNCHANGED <<toServer, toClient, serverVars, clientVars, queueVars>>
  <2>1. QueueInv(i)' /\ TalkInv(i)'
    BY <1>0, <1>2, Untouched DEF Same, serverVars, clientVars, queueVars
  <2>2. QED  BY <1>1, <2>1 DEF ClientInv
<1>3. CASE UNCHANGED vars \/ LinkChange \/ LinkNotify
  BY <1>2, <1>3 DEF vars, LinkChange, LinkNotify
<1>4. CASE \E j \in Links : Client(j)
  BY <1>0, <1>1, <1>4, ClientTalk DEF ClientInv
<1>5. CASE service_link_cmd
  BY <1>0, <1>1, <1>5, ServiceTalk DEF ClientInv
<1>6. CASE ServerCmd \/ ServerSet \/ ServerFrame \/ ServerSent
  BY <1>0, <1>1, <1>6, OtherServed, ServerCmdTalk, ServerSetTalk, ServerFrameTalk,
     ServerSentTalk
  DEF ClientInv
<1>7. CASE ServerDefault
  BY <1>0, <1>1, <1>7, ServerDefaultTalk DEF ClientInv
<1>8. CASE ServerStatus
  <2>1. spc' # spc
    BY <1>8 DEF ServerStatus
  <2>2. "STATUS_SET" \in Uses[i] => SpacedStep
    BY <2>1 DEF vars, serverVars
  <2>3. QED  BY <1>0, <1>1, <1>8, <2>2, ServerStatusTalk DEF ClientInv
<1>9. QED  BY <1>3, <1>4, <1>5, <1>6, <1>7, <1>8 DEF Next, Server

\* Every client is one of those that the theorems speak of.
AllGood == \A i \in Links : Good(i)

\* The channels hold what LinkInv says, in every state.
LEMMA SpecLinkInv == ASSUME AllGood  PROVE Spec /\ Spaced => []LinkInv
<1>1. Init => LinkInv
  BY InitClientInv DEF LinkInv
<1>2. LinkInv /\ [Next]_vars /\ [SpacedStep]_vars => LinkInv'
  <2> SUFFICES ASSUME LinkInv, [Next]_vars, [SpacedStep]_vars, NEW i \in Links
               PROVE  ClientInv(i)'
    BY DEF LinkInv
  <2>1. ClientInv(i) /\ Good(i)
    BY DEF LinkInv, AllGood
  <2>2. QED  BY <2>1, StepClientInv
<1>3. QED  BY <1>1, <1>2, PTL DEF Spec, Spaced

\* If the link changes once, the server tells of it once.
THEOREM OneChangeSpaced == MaxLinkChanges <= 1 => (Spec => Spaced)
<1>1. SUFFICES ASSUME MaxLinkChanges <= 1  PROVE Spec => Spaced
  OBVIOUS
<1>2. Init => TypeOK /\ OnceInv
  BY InitTypes DEF Init, OnceInv, Told
<1>3. TypeOK /\ OnceInv /\ [Next]_vars => (TypeOK /\ OnceInv)'
  BY <1>1, StepTypes, StepOnce
<1>4. TypeOK /\ OnceInv /\ [Next]_vars => [SpacedStep]_vars
  BY DEF OnceInv, Told, SpacedStep, ServerStatus
<1>5. QED  BY <1>2, <1>3, <1>4, PTL DEF Spec, Spaced

\* The token in front of a client is one that it reads next.
LEMMA TalkInStep ==
  ASSUME TypeOK, NEW i \in Links, TalkInv(i), toClient[i] # <<>>
  PROVE  Head(toClient[i]) \in IF cpc[i] = "reply" THEN Reply(ccmd[i]) ELSE {"END"}
<1> USE ShortSeqs
<1>1. CASE Served(i)
  <2>1. CASE spc = "cmd" \/ spc = "frame" \/ spc \in {"FILTER_SET", "STATUS_SET"}
    BY <1>1, <2>1 DEF TalkInv, AtCmd, AtFrame, AtSet, At
  <2>2. CASE spc = "sent"
    BY <1>1, <2>2 DEF TalkInv, AtSent, At, Reply
  <2>3. QED  BY <1>1, <2>1, <2>2 DEF Served, TypeOK
<1>2. CASE ~Served(i)
  <2>1. AtSelect(i)
    BY <1>2 DEF TalkInv
  <2>2. CASE Idle(i) \/ AsksFrame(i) \/ AsksCmd(i)
    BY <2>2 DEF Idle, AsksFrame, AsksCmd, At
  <2>3. CASE Finishes(i)
    <3>1. ccmd[i] # "FRAME_REQ"
      BY <2>3, LinkAssumption DEF Finishes, Commands
    <3>2. QED  BY <2>3, <3>1 DEF Finishes, At, Reply
  <2>4. QED  BY <2>1, <2>2, <2>3 DEF AtSelect
<1>3. QED  BY <1>1, <1>2

\* The clients read control tokens where they expect them and data where they
\* expect data, however frames, commands and notifications cross; for any
\* number of clients of which each one uses frames and commands, or status
\* packets alone, and any number of link changes that are Spaced.
THEOREM MacRxLinkInStep == AllGood => (Spec /\ Spaced => []InStep)
<1>1. SUFFICES ASSUME AllGood  PROVE Spec /\ Spaced => []InStep
  OBVIOUS
<1>2. LinkInv => InStep
  BY TalkInStep DEF InStep, LinkInv, ClientInv
<1>3. QED  BY <1>1, <1>2, SpecLinkInv, PTL

\* Between requests exactly one wake-up is out for a client with frames, and
\* the server is never asked for a frame that it does not have.
THEOREM MacRxLinkOneWakeUp == AllGood => (Spec /\ Spaced => []OneWakeUp)
<1>1. SUFFICES ASSUME AllGood  PROVE Spec /\ Spaced => []OneWakeUp
  OBVIOUS
<1>2. LinkInv => OneWakeUp
  <2> SUFFICES ASSUME LinkInv PROVE OneWakeUp
    OBVIOUS
  <2>0. 1 \in Links
    BY LinkAssumption DEF Links
  <2>1. TypeOK /\ \A i \in Links : QueueInv(i) /\ TalkInv(i)
    BY <2>0 DEF LinkInv, ClientInv
  <2>2. spc = "frame" => len[cur] > 0 \/ wants[cur] = 2
    <3> SUFFICES ASSUME spc = "frame" PROVE len[cur] > 0 \/ wants[cur] = 2
      OBVIOUS
    <3>1. cur \in Links /\ Served(cur)
      BY <2>1 DEF TypeOK, Served
    <3>2. AtFrame(cur) /\ QueueInv(cur)
      BY <2>1, <3>1 DEF TalkInv
    <3>3. QED  BY <3>1, <3>2 DEF AtFrame, Woken, QueueInv
  <2>3. ASSUME NEW i \in Links, spc = "select", cpc[i] = "idle"
        PROVE  IF len[i] > 0 THEN toClient[i] = <<"END">>
               ELSE wants[i] # 2 => toClient[i] = <<>>
    <3>1. ~Served(i) /\ Idle(i)
      BY <2>1, <2>3
      DEF Served, TalkInv, AtSelect, AsksFrame, AsksCmd, Finishes, At
    <3>2. len[i] > 0 => Woken(i)
      BY <2>1, <2>3 DEF QueueInv, Woken
    <3>3. ~(len[i] > 0) /\ wants[i] # 2 => ~Woken(i)
      BY <2>1, <2>3, <3>1 DEF QueueInv, Woken
    <3>4. QED  BY <3>1, <3>2, <3>3 DEF Idle, At
  <2>4. QED  BY <2>2, <2>3 DEF OneWakeUp
<1>3. QED  BY <1>1, <1>2, SpecLinkInv, PTL

\* A client that does not ask for status packets stays in step whatever the
\* other clients do, and however often the link changes.
THEOREM FrameClientInStep ==
  ASSUME NEW i \in Links, "STATUS_SET" \notin Uses[i]
  PROVE  Spec => [](toClient[i] # <<>> =>
           Head(toClient[i]) \in IF cpc[i] = "reply" THEN Reply(ccmd[i]) ELSE {"END"})
<1>1. Init => ClientInv(i)
  BY InitClientInv
<1>2. ClientInv(i) /\ [Next]_vars => ClientInv(i)'
  BY StepClientInv DEF Good
<1>3. ClientInv(i) => (toClient[i] # <<>> =>
        Head(toClient[i]) \in IF cpc[i] = "reply" THEN Reply(ccmd[i]) ELSE {"END"})
  BY TalkInStep DEF ClientInv
<1>4. QED  BY <1>1, <1>2, <1>3, PTL DEF Spec
=============================================================================
