----------------------------- MODULE LiteServer ------------------------------
(***************************************************************************)
(* The server of the LITE MAC (the_server in mii_single_server.xc) between *)
(* the buffers, as LitePackets describes them, and an application that     *)
(* calls mac_rx and mac_tx (mii_client_lite.xc).                           *)
(*                                                                         *)
(* The server announces a packet, or a link change, with outuint: the word *)
(* goes into the channel and the server goes on.  Every other exchange     *)
(* (<: and :>) makes both ends wait for each other and is one step; the    *)
(* words of a frame, among which nothing else happens on the channel, are  *)
(* one exchange.  An end that waits for the other one and finds a word of  *)
(* an outuint instead traps.                                               *)
(*                                                                         *)
(* CONSTANT OneThread: one thread of the application calls both mac_rx and *)
(* mac_tx.                                                                 *)
(***************************************************************************)
EXTENDS LitePackets

CONSTANTS
  OneThread,
  MaxChanges,            \* changes of the link
  LinkChange, NoPacket   \* the words -1 and 0, in place of a packet

ASSUME ServerAssumption ==
  OneThread \in BOOLEAN /\ MaxChanges \in Nat /\ {LinkChange, NoPacket} \cap Places = {}

VARIABLES
  spc,         \* the server: at its select, in a case of it, or after it
  havePacket, a,
  phy_status,  \* what the application was last told of the link
  link,        \* the state of the link
  changes,
  chan,        \* words from the server that the application has not taken
  rpc, len,    \* the application in mac_rx, and the word it was sent
  tpc,         \* the application in mac_tx
  raced        \* history: a link change was announced behind a packet

serverVars == <<spc, havePacket, a, phy_status, raced>>
linkVars == <<link, changes>>
rxVars == <<chan, rpc, len>>
vars == <<packetVars, serverVars, linkVars, rxVars, tpc>>

Init ==
  /\ mii_buffer_init
  /\ spc = "select" /\ havePacket = FALSE /\ a = NoPacket /\ phy_status = 0
  /\ link = 0 /\ changes = 0
  /\ chan = <<>> /\ rpc = "idle" /\ len = NoPacket /\ tpc = "idle" /\ raced = FALSE

-----------------------------------------------------------------------------
(* The application *)

\* safe_mac_rx_lite, chosen in a select: the first word.
mac_rx ==
  /\ rpc = "idle" /\ chan # <<>>
  /\ OneThread => tpc = "idle"
  /\ len' = Head(chan) /\ chan' = Tail(chan) /\ rpc' = "ack"
  /\ UNCHANGED <<packetVars, serverVars, linkVars, tpc>>

\* It confirms that it takes the packet, and finds another word.
Trap ==
  /\ rpc = "ack" /\ chan # <<>> /\ rpc' = "trap"
  /\ UNCHANGED <<packetVars, serverVars, linkVars, chan, len, tpc>>

\* mac_tx_lite.
mac_tx ==
  /\ tpc = "idle" /\ tpc' = "length"
  /\ OneThread => rpc = "idle"
  /\ UNCHANGED <<packetVars, serverVars, linkVars, rxVars>>

-----------------------------------------------------------------------------
(* The server *)

\* case linkcheck_timer: the application is told that the link has changed ...
LinkCheck ==
  /\ spc = "select"
  /\ IF link # phy_status
     THEN /\ chan' = Append(chan, LinkChange) /\ phy_status' = link
          /\ spc' = "ack" /\ raced' = (raced \/ havePacket)
     ELSE /\ spc' = "check" /\ UNCHANGED <<chan, phy_status, raced>>
  /\ UNCHANGED <<packetVars, havePacket, a, linkVars, rpc, len, tpc>>

\* ... confirms it ...
LinkAck ==
  /\ spc = "ack" /\ rpc = "ack" /\ chan = <<>>
  /\ spc' = "status" /\ rpc' = IF len = LinkChange THEN "status" ELSE "data"
  /\ UNCHANGED <<packetVars, havePacket, a, phy_status, raced, linkVars, chan, len, tpc>>

\* The application reads the state and not the port.
Mut_LinkStatus_one_word ==
  /\ spc = "status" /\ rpc = "status" /\ chan = <<>>
  /\ rpc' = "idle"
  /\ UNCHANGED <<packetVars, serverVars, linkVars, chan, len, tpc>>

\* ... and gets the new state, and 0 for the port.
LinkStatus ==
  /\ spc = "status" /\ rpc = "status" /\ chan = <<>>
  /\ spc' = "check" /\ rpc' = "idle"
  /\ UNCHANGED <<packetVars, havePacket, a, phy_status, raced, linkVars, chan, len, tpc>>

\* case inuchar_byref(cNotifications, miiData.notifySeen).
Notified ==
  /\ spc = "select" /\ mii_notified /\ spc' = "check"
  /\ UNCHANGED <<havePacket, a, phy_status, raced, linkVars, rxVars, tpc>>

\* case havePacket => appIn :> int _.
PacketAck ==
  /\ spc = "select" /\ havePacket /\ rpc = "ack" /\ chan = <<>>
  /\ spc' = "data" /\ rpc' = IF len = LinkChange THEN "status" ELSE "data"
  /\ UNCHANGED <<packetVars, havePacket, a, phy_status, raced, linkVars, chan, len, tpc>>

\* The words of the packet; then it is freed.
PacketData ==
  /\ spc = "data" /\ rpc = "data" /\ chan = <<>>
  /\ mii_free_in_buffer(a)
  /\ spc' = "next" /\ rpc' = "idle"
  /\ UNCHANGED <<havePacket, a, phy_status, raced, linkVars, chan, len, tpc>>

\* The packet x is at hand: its length is sent.
Announce(x) ==
  Get(x) /\ a' = x /\ havePacket' = TRUE /\ chan' = Append(chan, x)

\* havePacket stays set when there is no other packet.
Mut_NextPacket_kept ==
  /\ spc = "next"
  /\ \/ (\E x \in Places : Announce(x)) /\ spc' = "select"
     \/ GetNone /\ spc' = "check" /\ UNCHANGED <<havePacket, a, chan>>
  /\ UNCHANGED <<phy_status, raced, linkVars, rpc, len, tpc>>

\* The next packet, if there is one.
NextPacket ==
  /\ spc = "next"
  /\ \/ (\E x \in Places : Announce(x)) /\ spc' = "select"
     \/ GetNone /\ havePacket' = FALSE /\ spc' = "check" /\ UNCHANGED <<a, chan>>
  /\ UNCHANGED <<phy_status, raced, linkVars, rpc, len, tpc>>

\* case appOut :> outBytes.
TxLength ==
  /\ spc = "select" /\ tpc = "length" /\ spc' = "txdata" /\ tpc' = "data"
  /\ UNCHANGED <<packetVars, havePacket, a, phy_status, raced, linkVars, rxVars>>

\* The words of the frame, mii_out_packet and mii_out_packet_done.
TxData ==
  /\ spc = "txdata" /\ tpc = "data" /\ spc' = "check" /\ tpc' = "idle"
  /\ UNCHANGED <<packetVars, havePacket, a, phy_status, raced, linkVars, rxVars>>

\* The server looks for a packet although it has one.
Mut_Check_always ==
  /\ spc = "check" /\ spc' = "select"
  /\ \/ \E x \in Places : Announce(x)
     \/ GetNone /\ UNCHANGED <<havePacket, a, chan>>
  /\ UNCHANGED <<phy_status, raced, linkVars, rpc, len, tpc>>

\* After the select: check that there is a packet.
Check ==
  /\ spc = "check" /\ spc' = "select"
  /\ \/ ~havePacket /\ \E x \in Places : Announce(x)
     \/ ~havePacket /\ GetNone /\ UNCHANGED <<havePacket, a, chan>>
     \/ havePacket /\ UNCHANGED <<packetVars, havePacket, a, chan>>
  /\ UNCHANGED <<phy_status, raced, linkVars, rpc, len, tpc>>

-----------------------------------------------------------------------------
(* The wire, and the link *)

FrameArrives == Arrive /\ UNCHANGED <<serverVars, linkVars, rxVars, tpc>>

LinkMoves ==
  /\ changes < MaxChanges /\ changes' = changes + 1 /\ link' = 1 - link
  /\ UNCHANGED <<packetVars, serverVars, rxVars, tpc>>

Server == \/ LinkCheck \/ LinkAck \/ LinkStatus \/ Notified \/ PacketAck \/ PacketData
          \/ NextPacket \/ TxLength \/ TxData \/ Check

Next == Server \/ mac_rx \/ Trap \/ mac_tx \/ FrameArrives \/ LinkMoves

Spec == Init /\ [][Next]_vars

\* The server and the application run, and the select chooses each of its
\* cases in time.  Nothing makes the application transmit, frames come or the
\* link change.
FairSpec ==
  /\ Spec
  /\ WF_vars(LinkAck) /\ WF_vars(LinkStatus) /\ WF_vars(PacketData)
  /\ WF_vars(NextPacket) /\ WF_vars(TxData) /\ WF_vars(Check)
  /\ SF_vars(LinkCheck) /\ SF_vars(Notified) /\ SF_vars(PacketAck) /\ SF_vars(TxLength)
  /\ SF_vars(mac_rx)

-----------------------------------------------------------------------------
(* Properties *)

Words == Places \cup {LinkChange}

TypeOK ==
  /\ spc \in {"select", "ack", "status", "data", "next", "txdata", "check"}
  /\ rpc \in {"idle", "ack", "status", "data", "trap"} /\ tpc \in {"idle", "length", "data"}
  /\ havePacket \in BOOLEAN /\ a \in Places \cup {NoPacket} /\ raced \in BOOLEAN
  /\ phy_status \in 0 .. 1 /\ link \in 0 .. 1 /\ changes \in 0 .. MaxChanges
  /\ chan \in Seq(Words) /\ Len(chan) <= 2 /\ len \in Words \cup {NoPacket}
  /\ held \subseteq Places /\ queue \in [Banks -> Seq(Places)]

\* The two ends of the channel stay in step: in mac_rx the application never
\* finds the next announcement where it waits for the server, and what it
\* reads is the packet, or the status, that it was told of.  The exception is
\* a link change that the server announces while the length of a packet is
\* out.
InStep ==
  \/ raced
  \/ /\ rpc # "trap" /\ (rpc = "ack" => chan = <<>>)
     /\ (rpc = "data" => spc = "data" /\ a = len /\ a \in held)
     /\ (rpc = "status" => spc = "status")

\* While there are frames in the buffers, the server wakes and hands one over to
\* an application that calls mac_rx, whatever else the server does.  Which
\* one, the next of a bank, is LitePackets' mii_get_in_buffer.
Delivered == (\E b \in Banks : queue[b] # <<>>) ~> (rpc = "data" \/ raced)

\* Every call of mac_tx returns, unless a link change crossed a packet.
TxReturns == tpc # "idle" ~> (tpc = "idle" \/ raced)

=============================================================================
