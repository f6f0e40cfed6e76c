-------------------------- MODULE LiteServerProofs ---------------------------
(***************************************************************************)
(* The LITE server and its application stay in step, whatever the banks    *)
(* and the places of the packets, however often the link changes and       *)
(* whether one thread or two of the application use the server.            *)
(***************************************************************************)
EXTENDS LiteServer, TLAPS

\* The word w is announced: it is in the channel, or the application has it
\* and is about to confirm it.
Out(w) == \/ rpc = "idle" /\ chan = <<w>>
          \/ rpc = "ack" /\ len = w /\ chan = <<>>

\* Nothing is announced.
Quiet == rpc = "idle" /\ chan = <<>>

\* What is announced, at each place of the server.
Conversation ==
  /\ spc \in {"select", "check", "txdata"} => IF havePacket THEN Out(a) ELSE Quiet
  /\ spc = "ack" => ~havePacket /\ Out(LinkChange)
  /\ spc = "status" => ~havePacket /\ rpc = "status" /\ chan = <<>>
  /\ spc = "data" => havePacket /\ rpc = "data" /\ chan = <<>> /\ len = a
  /\ spc = "next" => havePacket /\ Quiet

\* The packet that the server has announced is one of the buffers' packets.
PacketHeld == havePacket /\ spc # "next" => a \in held

\* Once a link change is announced behind a packet, the server waits for ever
\* for the application to confirm it.
Stuck ==
  /\ spc = "ack" /\ rpc \in {"idle", "ack", "trap"}
  /\ Len(chan) = IF rpc = "idle" THEN 2 ELSE 1

ServerInv ==
  /\ TypeOK
  /\ PacketHeld
  /\ IF raced THEN Stuck ELSE Conversation

-----------------------------------------------------------------------------

\* At first nothing is announced.
LEMMA InitServerInv == Init => ServerInv
<1> SUFFICES ASSUME Init PROVE ServerInv
  OBVIOUS
<1> USE DEF Init, mii_buffer_init
<1>1. TypeOK
  <2>1. chan \in Seq(Words) /\ Len(chan) = 0
    OBVIOUS
  <2>2. queue \in [Banks -> Seq(Places)] /\ changes \in 0 .. MaxChanges
    BY ServerAssumption
  <2>3. a \in Places \cup {NoPacket} /\ len \in Words \cup {NoPacket} /\ held \subseteq Places
    OBVIOUS
  <2>4. phy_status \in 0 .. 1 /\ link \in 0 .. 1 /\ Len(chan) <= 2
    OBVIOUS
  <2>5. havePacket \in BOOLEAN /\ raced \in BOOLEAN
    OBVIOUS
  <2>6. /\ spc \in {"select", "ack", "status", "data", "next", "txdata", "check"}
        /\ rpc \in {"idle", "ack", "status", "data", "trap"}
        /\ tpc \in {"idle", "length", "data"}
    OBVIOUS
  <2> HIDE DEF Init, mii_buffer_init
  <2>7. QED  BY <2>1, <2>2, <2>3, <2>4, <2>5, <2>6, Zenon DEF TypeOK
<1>2. PacketHeld /\ ~raced
  BY DEF PacketHeld
<1>3. Conversation
  BY DEF Conversation, Quiet
<1>4. QED  BY <1>1, <1>2, <1>3 DEF ServerInv

\* What a step that neither announces nor takes a word has to keep.
LEMMA SameWords ==
  ASSUME ServerInv, TypeOK', UNCHANGED <<chan, rpc, len, havePacket, a, raced, held>>,
         \/ spc' = spc
         \/ {spc, spc'} \subseteq {"select", "check", "txdata"}
  PROVE  ServerInv'
<1>1. PacketHeld'
  BY DEF ServerInv, PacketHeld
<1>2. raced => Stuck'
  BY DEF ServerInv, Stuck
<1>3. ~raced => Conversation'
  BY DEF ServerInv, Conversation, Out, Quiet
<1>4. QED  BY <1>1, <1>2, <1>3 DEF ServerInv

\* mii_get_in_buffer found the packet x: it is the oldest of its bank, and
\* the length of it is the only word in the channel.
LEMMA AnnounceInv ==
  ASSUME ServerInv, ~raced, Quiet, NEW x \in Places, Announce(x), spc' = "select",
         UNCHANGED <<phy_status, raced, linkVars, rpc, len, tpc>>
  PROVE  ServerInv'
<1>1. x \in Words /\ chan' = <<x>> /\ rpc' = "idle" /\ a' = x /\ havePacket'
  BY DEF Announce, Quiet, ServerInv, TypeOK, Words
<1>2. queue' \in [Banks -> Seq(Places)] /\ held' \subseteq Places /\ x \in held'
  <2>1. x.bank \in Banks
    BY DEF Places
  <2>2. queue[x.bank] \in Seq(Places) /\ queue[x.bank] # <<>>
    BY <2>1 DEF Announce, Get, ServerInv, TypeOK
  <2>3. Tail(queue[x.bank]) \in Seq(Places)
    BY <2>2
  <2>4. QED  BY <2>1, <2>3 DEF Announce, Get, ServerInv, TypeOK
<1>3. TypeOK'
  BY <1>1, <1>2 DEF ServerInv, TypeOK, Announce, linkVars
<1>4. PacketHeld' /\ ~raced'
  BY <1>1, <1>2 DEF PacketHeld
<1>5. Conversation'
  BY <1>1 DEF Conversation, Out
<1>6. QED  BY <1>3, <1>4, <1>5 DEF ServerInv

\* The application takes the word that is announced.
LEMMA MacRxInv == ASSUME ServerInv, mac_rx  PROVE ServerInv'
<1> USE DEF mac_rx, serverVars, linkVars, packetVars
<1>1. Head(chan) \in Words /\ Tail(chan) \in Seq(Words) /\ Len(Tail(chan)) = Len(chan) - 1
  BY DEF ServerInv, TypeOK
<1>2. TypeOK'
  BY <1>1 DEF ServerInv, TypeOK
<1>3. PacketHeld'
  BY DEF ServerInv, PacketHeld
<1>4. raced => Stuck'
  BY <1>1 DEF ServerInv, Stuck
<1>5. ASSUME ~raced  PROVE Conversation'
  BY <1>5 DEF ServerInv, TypeOK, Conversation, Out, Quiet
<1>6. QED  BY <1>2, <1>3, <1>4, <1>5 DEF ServerInv

\* The application traps only once the words have crossed.
LEMMA TrapInv == ASSUME ServerInv, Trap  PROVE ServerInv'
<1> USE DEF Trap, serverVars, linkVars, packetVars
<1>1. TypeOK' /\ PacketHeld'
  BY DEF ServerInv, TypeOK, PacketHeld
<1>2. raced
  BY DEF ServerInv, Conversation, Out, Quiet, TypeOK
<1>3. Stuck'
  BY <1>2 DEF ServerInv, Stuck
<1>4. QED  BY <1>1, <1>2, <1>3 DEF ServerInv

\* The link is polled: a change is announced, behind the packet if one is.
LEMMA LinkCheckInv == ASSUME ServerInv, LinkCheck  PROVE ServerInv'
<1> USE DEF LinkCheck, linkVars, packetVars
<1>0. ~raced /\ spc = "select"
  BY DEF ServerInv, Stuck
<1>1. CASE link = phy_status
  <2>1. TypeOK'
    BY <1>1 DEF ServerInv, TypeOK
  <2>2. QED  BY <1>1, <2>1, SameWords
<1>2. CASE link # phy_status
  <2>1. chan' = Append(chan, LinkChange) /\ spc' = "ack" /\ raced' = havePacket
    BY <1>0, <1>2 DEF ServerInv, TypeOK
  <2>2. IF havePacket THEN Out(a) ELSE Quiet
    BY <1>0 DEF ServerInv, Conversation
  <2>3. /\ chan' \in Seq(Words) /\ LinkChange \in Words
        /\ havePacket => Len(chan') = IF rpc = "idle" THEN 2 ELSE 1
        /\ ~havePacket => chan' = <<LinkChange>>
    <3>1. chan \in Seq(Words) /\ LinkChange \in Words
      BY DEF ServerInv, TypeOK, Words
    <3> DEFINE c == chan'
    <3>2. c = Append(chan, LinkChange)
      BY <2>1
    <3> HIDE DEF c
    <3>3. c \in Seq(Words) /\ Len(c) = Len(chan) + 1
      BY <3>1, <3>2
    <3>4. chan = <<>> => c = <<LinkChange>>
      BY <3>2
    <3>5. Len(chan) = IF havePacket /\ rpc = "idle" THEN 1 ELSE 0
      BY <2>2 DEF Out, Quiet
    <3>6. QED  BY <2>2, <3>1, <3>3, <3>4, <3>5 DEF Quiet, c
  <2>4. TypeOK'
    BY <1>2, <2>1, <2>2, <2>3 DEF ServerInv, TypeOK, Out, Quiet
  <2>5. PacketHeld'
    BY <1>0 DEF ServerInv, PacketHeld
  <2>6. havePacket => Stuck'
    BY <2>1, <2>2, <2>3 DEF Stuck, Out
  <2>7. ~havePacket => Conversation'
    BY <2>1, <2>2, <2>3 DEF Conversation, Out, Quiet
  <2>8. QED  BY <2>1, <2>4, <2>5, <2>6, <2>7 DEF ServerInv
<1>3. QED  BY <1>1, <1>2

\* The application confirms the link change, and reads it.
LEMMA LinkAckInv == ASSUME ServerInv, LinkAck \/ LinkStatus  PROVE ServerInv'
<1> USE DEF linkVars, packetVars
<1>1. ~raced
  <2>1. chan = <<>> => Len(chan) = 0
    OBVIOUS
  <2>2. QED  BY <2>1 DEF LinkAck, LinkStatus, ServerInv, Stuck
<1>2. CASE LinkAck
  <2>1. ~havePacket /\ len = LinkChange
    BY <1>1, <1>2 DEF LinkAck, ServerInv, Conversation, Out
  <2>2. TypeOK'
    BY <1>2 DEF LinkAck, ServerInv, TypeOK
  <2>3. PacketHeld' /\ Conversation'
    BY <1>2, <2>1 DEF LinkAck, PacketHeld, Conversation
  <2>4. QED  BY <1>1, <1>2, <2>2, <2>3 DEF LinkAck, ServerInv
<1>3. CASE LinkStatus
  <2>1. TypeOK'
    BY <1>3 DEF LinkStatus, ServerInv, TypeOK
  <2>2. PacketHeld' /\ Conversation'
    BY <1>1, <1>3 DEF LinkStatus, ServerInv, PacketHeld, Conversation, Quiet
  <2>3. QED  BY <1>1, <1>3, <2>1, <2>2 DEF LinkStatus, ServerInv
<1>4. QED  BY <1>2, <1>3

\* The application confirms the packet: the words it gets are those of the
\* packet whose length it was sent.
LEMMA PacketAckInv == ASSUME ServerInv, PacketAck  PROVE ServerInv'
<1> USE DEF PacketAck, linkVars, packetVars
<1>1. ~raced
  BY DEF ServerInv, Stuck
<1>2. len = a /\ a \in Places /\ a # LinkChange
  BY <1>1, ServerAssumption DEF ServerInv, Conversation, Out, PacketHeld, TypeOK
<1>3. TypeOK'
  BY DEF ServerInv, TypeOK
<1>4. PacketHeld' /\ Conversation'
  BY <1>2 DEF ServerInv, PacketHeld, Conversation
<1>5. QED  BY <1>1, <1>3, <1>4 DEF ServerInv

\* The packet is read and freed.
LEMMA PacketDataInv == ASSUME ServerInv, PacketData  PROVE ServerInv'
<1> USE DEF PacketData, mii_free_in_buffer, linkVars
<1>1. ~raced
  BY DEF ServerInv, Stuck
<1>2. TypeOK'
  BY DEF ServerInv, TypeOK
<1>3. PacketHeld' /\ Conversation'
  BY <1>1 DEF ServerInv, PacketHeld, Conversation, Quiet
<1>4. QED  BY <1>1, <1>2, <1>3 DEF ServerInv

\* After a packet, the next one is announced at once.
LEMMA NextPacketInv == ASSUME ServerInv, NextPacket  PROVE ServerInv'
<1>1. ~raced /\ Quiet
  BY DEF NextPacket, ServerInv, Stuck, Conversation
<1>2. CASE \E x \in Places : Announce(x) /\ spc' = "select"
  BY <1>1, <1>2, AnnounceInv DEF NextPacket
<1>3. CASE /\ GetNone /\ havePacket' = FALSE /\ spc' = "check"
           /\ UNCHANGED <<a, chan>>
  <2> USE DEF NextPacket, GetNone, linkVars
  <2>1. TypeOK'
    BY <1>3 DEF ServerInv, TypeOK
  <2>2. PacketHeld' /\ Conversation'
    BY <1>1, <1>3 DEF PacketHeld, Conversation, Quiet
  <2>3. QED  BY <1>1, <2>1, <2>2 DEF ServerInv
<1>4. QED  BY <1>2, <1>3 DEF NextPacket

\* After any other case of the select, a packet is looked for unless one is
\* announced.
LEMMA CheckInv == ASSUME ServerInv, Check  PROVE ServerInv'
<1>1. ~raced /\ spc = "check" /\ spc' = "select"
  BY DEF Check, ServerInv, Stuck
<1>2. CASE ~havePacket /\ \E x \in Places : Announce(x)
  <2>1. Quiet
    BY <1>1, <1>2 DEF ServerInv, Conversation
  <2>2. QED  BY <1>1, <1>2, <2>1, AnnounceInv DEF Check
<1>3. CASE \/ GetNone /\ UNCHANGED <<havePacket, a, chan>>
           \/ UNCHANGED <<packetVars, havePacket, a, chan>>
  <2> USE DEF Check, GetNone, packetVars, linkVars
  <2>1. TypeOK'
    BY <1>3 DEF ServerInv, TypeOK
  <2>2. QED  BY <1>1, <1>3, <2>1, SameWords
<1>4. QED  BY <1>2, <1>3 DEF Check

\* Notifications, transmission, frames and the link leave the conversation
\* about received packets alone.
LEMMA OthersInv ==
  ASSUME ServerInv,
         Notified \/ mac_tx \/ TxLength \/ TxData \/ FrameArrives \/ LinkMoves
  PROVE  ServerInv'
<1> USE DEF rxVars, linkVars, serverVars, packetVars
<1>1. CASE Notified
  <2>1. TypeOK'
    BY <1>1 DEF Notified, mii_notified, ServerInv, TypeOK
  <2>2. QED  BY <1>1, <2>1, SameWords DEF Notified, mii_notified
<1>2. CASE mac_tx
  <2>1. TypeOK'
    BY <1>2 DEF mac_tx, ServerInv, TypeOK
  <2>2. QED  BY <1>2, <2>1, SameWords DEF mac_tx
<1>3. CASE TxLength
  <2>1. TypeOK'
    BY <1>3 DEF TxLength, ServerInv, TypeOK
  <2>2. QED  BY <1>3, <2>1, SameWords DEF TxLength
<1>4. CASE TxData
  <2>1. TypeOK'
    BY <1>4 DEF TxData, ServerInv, TypeOK
  <2>2. QED  BY <1>4, <2>1, SameWords DEF TxData
<1>5. CASE FrameArrives
  <2>1. queue' \in [Banks -> Seq(Places)] /\ UNCHANGED held
    <3>1. PICK x \in Places : queue' = [queue EXCEPT ![x.bank] = Append(@, x)]
      BY <1>5 DEF FrameArrives, Arrive
    <3>2. x.bank \in Banks
      BY DEF Places
    <3>3. Append(queue[x.bank], x) \in Seq(Places)
      BY <3>2 DEF ServerInv, TypeOK
    <3>4. QED  BY <1>5, <3>1, <3>2, <3>3 DEF FrameArrives, Arrive, ServerInv, TypeOK
  <2>2. TypeOK'
    BY <1>5, <2>1 DEF FrameArrives, ServerInv, TypeOK
  <2>3. QED  BY <1>5, <2>1, <2>2, SameWords DEF FrameArrives
<1>6. CASE LinkMoves
  <2>1. TypeOK'
    BY <1>6, ServerAssumption DEF LinkMoves, ServerInv, TypeOK
  <2>2. QED  BY <1>6, <2>1, SameWords DEF LinkMoves
<1>7. QED  BY <1>1, <1>2, <1>3, <1>4, <1>5, <1>6

\* ServerInv is inductive.
LEMMA StepServerInv == ASSUME ServerInv, [Next]_vars  PROVE ServerInv'
<1>1. CASE UNCHANGED vars
  <2> USE <1>1 DEF vars, packetVars, serverVars, linkVars, rxVars
  <2>1. TypeOK'
    BY DEF ServerInv, TypeOK
  <2>2. QED  BY <2>1, SameWords
<1>2. CASE Next
  BY <1>2, MacRxInv, TrapInv, LinkCheckInv, LinkAckInv, PacketAckInv, PacketDataInv,
     NextPacketInv, CheckInv, OthersInv DEF Next, Server
<1>3. QED  BY <1>1, <1>2

\* The words between the server and the application are where ServerInv says,
\* in every state.
THEOREM SpecServerInv == Spec => []ServerInv
<1>1. QED  BY InitServerInv, StepServerInv, PTL DEF Spec

\* The types of the variables; among them, that at most two words of outuint
\* are in the channel, which is what the channel end holds.
THEOREM LiteServerTypes == Spec => []TypeOK
<1>1. ServerInv => TypeOK
  BY DEF ServerInv
<1>2. QED  BY <1>1, SpecServerInv, PTL

\* mac_rx never finds another word where it waits for the server, and reads
\* the packet, or the status, whose announcement it took; unless a link change
\* was announced behind a packet.
THEOREM LiteServerInStep == Spec => []InStep
<1>1. ServerInv => InStep
  <2> SUFFICES ASSUME ServerInv, ~raced PROVE InStep
    BY DEF InStep
  <2>1. Conversation /\ PacketHeld /\ TypeOK
    BY DEF ServerInv
  <2>2. QED  BY <2>1 DEF Conversation, PacketHeld, TypeOK, Out, Quiet, InStep
<1>2. QED  BY <1>1, SpecServerInv, PTL
=============================================================================
