------------------------------- MODULE TxPath --------------------------------
(***************************************************************************)
(* The transmit side of the FULL MAC: clients (mac_tx, mac_tx_timed),      *)
(* ethernet_tx_server, a mii_tx_pins thread per port and the queues of     *)
(* packets whose time stamps are due.  The build is the one with high      *)
(* priority queues, the traffic shaper and forwarding between ports.       *)
(*                                                                         *)
(* A pool is the sequence of its packets (module MiiTxPool has the words)  *)
(* and is looked at from its head only.  The shaper's credit is a free     *)
(* choice here.  The server's link poll is in module MacRxLink and changes *)
(* nothing of this state.                                                  *)
(***************************************************************************)
EXTENDS Integers, Sequences, FiniteSets

CONSTANTS
  NumLinks,         \* num_tx
  NumPorts,         \* NUM_ETHERNET_PORTS, all of them master ports
  PoolSlots,        \* packets of the largest size that fit in a pool
  MAC_MAX_ENTRIES,  \* length of a time stamp queue's array
  Requests,         \* what each client asks for
  MaxRequests,      \* bound on the requests of each client
  Forwards,         \* ports and priorities of the packets to be forwarded
  MaxForwards       \* bound on their number

Links == 1 .. NumLinks
Ports == 0 .. NumPorts - 1
Prios == {"hp", "lp"}
ETH_BROADCAST == -1
NoReq == [kind |-> "none", prio |-> "lp", timed |-> FALSE, dst |-> ETH_BROADCAST]

\* An ETHERNET_TX_REQ command in one of its forms, or a command that the
\* server deals with at once (ETHERNET_GET_MAC_ADRS, the router's, Qav's).
Request == [kind : {"tx", "other"}, prio : Prios, timed : BOOLEAN,
            dst : Ports \cup {ETH_BROADCAST}]

ASSUME TxPathAssumption ==
  /\ NumLinks \in Nat \ {0} /\ NumPorts \in Nat \ {0} /\ PoolSlots \in Nat \ {0}
  /\ MAC_MAX_ENTRIES \in Nat /\ MAC_MAX_ENTRIES > Cardinality(Prios)
  /\ MaxRequests \in [Links -> Nat] /\ MaxForwards \in Nat
  /\ Requests \in [Links -> SUBSET Request]
  /\ Forwards \subseteq Ports \X Prios /\ (NumPorts = 1 => Forwards = {})

VARIABLES
  client,       \* where a client is: "idle", "cmd" (its command is not read
                \* yet), "slave" (ready to send the frame), "wait" (for the
                \* time stamp)
  req, left,    \* a client's request, and how many it will still make
  pendingCmd, enabled,
  spc,          \* where the server is
  i, p,         \* the client and the port that it is at
  cur,          \* the request that it is working on
  buf,          \* the pool whose head it takes the time stamp from
  pool,         \* the packets in each port's pools
  line,         \* what mii_tx_pins is transmitting
  fwd,          \* the other port's pool starts with a packet to be forwarded
  fwdLeft,
  fifo, rdIndex, wrIndex   \* ts_queue[p]

clientVars == <<client, req, left>>
serverVars == <<pendingCmd, enabled, spc, i, p, cur, buf>>
tsVars == <<fifo, rdIndex, wrIndex>>
fwdVars == <<fwd, fwdLeft>>
vars == <<clientVars, serverVars, pool, line, fwdVars, tsVars>>

Idle == <<"none", "lp">>

Init ==
  /\ client = [c \in Links |-> "idle"] /\ req = [c \in Links |-> NoReq]
  /\ left = MaxRequests
  /\ pendingCmd = [c \in Links |-> FALSE] /\ enabled = [c \in Links |-> TRUE]
  /\ spc = "scan" /\ i = 1 /\ p = 0 /\ cur = NoReq /\ buf = "lp"
  /\ pool = [x \in Ports |-> [q \in Prios |-> <<>>]]
  /\ line = [x \in Ports |-> Idle]
  /\ fwd = [x \in Ports |-> [q \in Prios |-> FALSE]] /\ fwdLeft = MaxForwards
  /\ fifo = [x \in Ports |-> [k \in 0 .. MAC_MAX_ENTRIES - 1 |-> "lp"]]
  /\ rdIndex = [x \in Ports |-> 0] /\ wrIndex = [x \in Ports |-> 0]

-----------------------------------------------------------------------------
(* Clients *)

\* The client's command is output; it waits until the server reads it.
SendCmd(c) ==
  /\ client[c] = "idle" /\ left[c] > 0
  /\ \E r \in Requests[c] : req' = [req EXCEPT ![c] = r]
  /\ client' = [client EXCEPT ![c] = "cmd"] /\ left' = [left EXCEPT ![c] = @ - 1]
  /\ UNCHANGED <<serverVars, pool, line, fwdVars, tsVars>>

-----------------------------------------------------------------------------
(* ethernet_tx_server: pending requests *)

\* mii_reserve_at_least succeeds for every port.
bufs_ok(q) == \A x \in Ports : Len(pool[x][q]) < PoolSlots

\* The next client, or the select.
NextClient ==
  IF i < NumLinks THEN i' = i + 1 /\ spc' = "scan" ELSE i' = 1 /\ spc' = "select"

\* Nothing to do for client i, or no room for it.
Pass ==
  /\ spc = "scan"
  /\ ~(pendingCmd[i] /\ bufs_ok(req[i].prio))
  /\ NextClient
  /\ UNCHANGED <<clientVars, pendingCmd, enabled, p, cur, buf, pool, line, fwdVars, tsVars>>

\* The frame is read from the client, which goes on.
get_packet_from_client ==
  /\ spc = "scan" /\ pendingCmd[i] /\ bufs_ok(req[i].prio)
  /\ client' = [client EXCEPT ![i] = IF req[i].timed THEN "wait" ELSE "idle"]
  /\ cur' = req[i] /\ req' = [req EXCEPT ![i] = NoReq] /\ p' = 0 /\ spc' = "commit"
  /\ UNCHANGED <<left, pendingCmd, enabled, i, buf, pool, line, fwdVars, tsVars>>

\* The timestamp_id left in the header by an earlier packet is kept.
Mut_timestamp_id_kept == i

\* The timestamp_id of the packet.
timestamp_id == IF cur.timed THEN i ELSE 0

\* mii_commit, which sets stage to 0 before the packet can be seen.  tcount
\* still is what was in memory.
Commit ==
  /\ spc = "commit" /\ cur.dst \in {p, ETH_BROADCAST}
  /\ \E t \in 0 .. 1 :
       pool' = [pool EXCEPT ![p][cur.prio] =
                  Append(@, [id |-> timestamp_id, stage |-> 0, tcount |-> t, sent |-> 0])]
  /\ spc' = "mark"
  /\ UNCHANGED <<clientVars, pendingCmd, enabled, i, p, cur, buf, line, fwdVars, tsVars>>

\* The next port, or the end of the request.
NextPort ==
  IF p < NumPorts - 1
  THEN p' = p + 1 /\ spc' = "commit" /\ UNCHANGED <<pendingCmd, enabled, i, cur>>
  ELSE /\ p' = 0 /\ NextClient /\ cur' = NoReq
       /\ pendingCmd' = [pendingCmd EXCEPT ![i] = FALSE]
       /\ enabled' = [enabled EXCEPT ![i] = FALSE]

\* The frame is not for port p.
Skip ==
  /\ spc = "commit" /\ cur.dst \notin {p, ETH_BROADCAST}
  /\ NextPort
  /\ UNCHANGED <<clientVars, buf, pool, line, fwdVars, tsVars>>

\* tcount is left as it is.
Mut_Marked_no_tcount(pkt) == [pkt EXCEPT !.stage = 1]

\* mii_packet_set_tcount, mii_packet_set_stage.
Marked(pkt) == [pkt EXCEPT !.stage = 1, !.tcount = 0]

Mark ==
  /\ spc = "mark"
  /\ pool' = [pool EXCEPT ![p][cur.prio][Len(pool[p][cur.prio])] = Marked(@)]
  /\ NextPort
  /\ UNCHANGED <<clientVars, buf, line, fwdVars, tsVars>>

-----------------------------------------------------------------------------
(* ethernet_tx_server: the select and the time stamps *)

Ready == {c \in Links : enabled[c] /\ client[c] = "cmd"}

\* A command is read.
TakeCmd(c) ==
  /\ spc = "select" /\ c \in Ready
  /\ IF req[c].kind = "tx"
     THEN /\ pendingCmd' = [pendingCmd EXCEPT ![c] = TRUE]
          /\ client' = [client EXCEPT ![c] = "slave"] /\ UNCHANGED req
     ELSE /\ client' = [client EXCEPT ![c] = "idle"] /\ UNCHANGED pendingCmd
          /\ req' = [req EXCEPT ![c] = NoReq]
  /\ spc' = "reply" /\ p' = 0
  /\ UNCHANGED <<left, enabled, i, cur, buf, pool, line, fwdVars, tsVars>>

\* A default case that forgets the clients that were served.
Mut_EnabledAgain_not == enabled

\* enabled after the default case.
EnabledAgain == [c \in Links |-> TRUE]

\* The default case: no enabled client has a command.
Default ==
  /\ spc = "select" /\ Ready = {}
  /\ enabled' = EnabledAgain
  /\ spc' = "reply" /\ p' = 0
  /\ UNCHANGED <<clientVars, pendingCmd, i, cur, buf, pool, line, fwdVars, tsVars>>

\* An index that is not wrapped.
Mut_NextIndex_no_wrap(k) == k + 1

\* The next index of a time stamp queue.
NextIndex(k) == IF k + 1 # MAC_MAX_ENTRIES THEN k + 1 ELSE 0

\* The next port's queue, or the top of the loop.
NextQueue ==
  IF p < NumPorts - 1 THEN p' = p + 1 /\ spc' = "reply" ELSE p' = 0 /\ spc' = "scan"

\* get_ts_queue_entry that forgets to store rdIndex.
Mut_get_ts_queue_entry_kept ==
  /\ spc = "reply"
  /\ IF rdIndex[p] = wrIndex[p]
     THEN NextQueue /\ UNCHANGED <<buf, rdIndex>>
     ELSE spc' = "sending" /\ buf' = fifo[p][rdIndex[p]] /\ UNCHANGED <<p, rdIndex>>
  /\ UNCHANGED <<clientVars, pendingCmd, enabled, i, cur, pool, line, fwdVars, fifo, wrIndex>>

get_ts_queue_entry ==
  /\ spc = "reply"
  /\ IF rdIndex[p] = wrIndex[p]
     THEN NextQueue /\ UNCHANGED <<buf, rdIndex>>
     ELSE /\ spc' = "sending" /\ buf' = fifo[p][rdIndex[p]]
          /\ rdIndex' = [rdIndex EXCEPT ![p] = NextIndex(@)]
          /\ UNCHANGED p
  /\ UNCHANGED <<clientVars, pendingCmd, enabled, i, cur, pool, line, fwdVars, fifo, wrIndex>>

\* The pool s after an owner of its head is done: get_and_dec_transmit_count,
\* and mii_free if the count was 0.
Finished(s) == IF s[1].tcount = 0 THEN Tail(s) ELSE [s EXCEPT ![1].tcount = @ - 1]

\* The client whose packet is at the head of the pool buf.
Addressee == pool[p][buf][1].id

\* The time stamp is output, which takes a client that reads it.
ReplySent ==
  /\ spc = "sending" /\ client[Addressee] = "wait"
  /\ client' = [client EXCEPT ![Addressee] = "idle"]
  /\ pool' = [pool EXCEPT ![p][buf] = Finished(@)]
  /\ NextQueue
  /\ UNCHANGED <<req, left, pendingCmd, enabled, i, cur, buf, line, fwdVars, tsVars>>

-----------------------------------------------------------------------------
(* mii_tx_pins of port x *)

\* Where the packet of priority q comes from: own packets go first, and the
\* other port's are looked at if there is none or it is in stage 0.
Source(x, q) ==
  LET own == pool[x][q]
  IN  CASE own # <<>> /\ own[1].stage = 1 -> "own"
        [] (own = <<>> \/ own[1].stage = 0) /\ fwd[x][q] -> "fwd"
        [] OTHER -> "none"

\* mii_transmit_packet starts.
StartTransmit(x, q) ==
  /\ line' = [line EXCEPT ![x] = <<Source(x, q), q>>]
  /\ pool' = IF Source(x, q) = "own" THEN [pool EXCEPT ![x][q][1].sent = @ + 1] ELSE pool
  /\ UNCHANGED <<clientVars, serverVars, fwdVars, tsVars>>

\* A high priority packet, and credit >= 0.
StartHp(x) ==
  /\ line[x] = Idle /\ Source(x, "hp") # "none"
  /\ StartTransmit(x, "hp")

\* A low priority packet: there is no other, or credit < 0.
StartLp(x) ==
  /\ line[x] = Idle /\ Source(x, "lp") # "none"
  /\ StartTransmit(x, "lp")

\* A packet transmitted for another port, whose forwarding is not cleared.
Mut_Forwarded_not_cleared(x, q) == fwd

\* mii_packet_get_and_clear_forwarding.
Forwarded(x, q) == [fwd EXCEPT ![x][q] = FALSE]

\* add_ts_queue_entry of the packet at the head of pool q.
add_ts_queue_entry(x, q) ==
  /\ fifo' = [fifo EXCEPT ![x][wrIndex[x]] = q]
  /\ wrIndex' = [wrIndex EXCEPT ![x] = NextIndex(@)]
  /\ UNCHANGED rdIndex

\* The packet is out: it is released, or queued for its time stamp.
EndTransmit(x) ==
  /\ line[x] # Idle
  /\ LET q == line[x][2]
     IN  \/ /\ line[x][1] = "fwd"
            /\ fwd' = Forwarded(x, q)
            /\ UNCHANGED <<pool, tsVars>>
         \/ /\ line[x][1] = "own" /\ UNCHANGED fwd
            /\ IF pool[x][q][1].tcount = 0 /\ pool[x][q][1].id # 0
               THEN /\ pool' = [pool EXCEPT ![x][q][1].stage = 2]
                    /\ add_ts_queue_entry(x, q)
               ELSE /\ pool' = [pool EXCEPT ![x][q] = Finished(@)]
                    /\ UNCHANGED tsVars
  /\ line' = [line EXCEPT ![x] = Idle]
  /\ UNCHANGED <<clientVars, serverVars, fwdLeft>>

\* A received packet that is to be forwarded gets to the head of the other
\* port's receive pool (module RxFrames).
ForwardArrives(x, q) ==
  /\ <<x, q>> \in Forwards /\ fwdLeft > 0 /\ ~fwd[x][q]
  /\ fwd' = [fwd EXCEPT ![x][q] = TRUE] /\ fwdLeft' = fwdLeft - 1
  /\ UNCHANGED <<clientVars, serverVars, pool, line, tsVars>>

-----------------------------------------------------------------------------
Server ==
  \/ Pass \/ get_packet_from_client \/ Commit \/ Skip \/ Mark
  \/ (\E c \in Links : TakeCmd(c)) \/ Default
  \/ get_ts_queue_entry \/ ReplySent

Next ==
  \/ \E c \in Links : SendCmd(c)
  \/ Server
  \/ \E x \in Ports : StartHp(x) \/ StartLp(x) \/ EndTransmit(x)
  \/ \E x \in Ports, q \in Prios : ForwardArrives(x, q)

Spec == Init /\ [][Next]_vars

\* The threads run.  Credit comes back with time, so a high priority packet
\* that is ready again and again is sent.
Fairness ==
  /\ WF_vars(Server)
  /\ \A x \in Ports : WF_vars(EndTransmit(x)) /\ WF_vars(StartLp(x)) /\ SF_vars(StartHp(x))

FairSpec == Spec /\ Fairness

-----------------------------------------------------------------------------
(* Properties *)

Packet == [id : 0 .. NumLinks, stage : 0 .. 2, tcount : 0 .. 1, sent : Nat]

TypeOK ==
  /\ client \in [Links -> {"idle", "cmd", "slave", "wait"}]
  /\ req \in [Links -> Request \cup {NoReq}] /\ left \in [Links -> Nat]
  /\ pendingCmd \in [Links -> BOOLEAN] /\ enabled \in [Links -> BOOLEAN]
  /\ spc \in {"scan", "commit", "mark", "select", "reply", "sending"}
  /\ i \in Links /\ p \in Ports /\ cur \in Request \cup {NoReq}
  /\ buf \in Prios
  /\ pool \in [Ports -> [Prios -> Seq(Packet)]]
  /\ line \in [Ports -> {"none", "own", "fwd"} \X Prios]
  /\ fwd \in [Ports -> [Prios -> BOOLEAN]] /\ fwdLeft \in 0 .. MaxForwards
  /\ fifo \in [Ports -> [0 .. MAC_MAX_ENTRIES - 1 -> Prios]]
  /\ rdIndex \in [Ports -> 0 .. MAC_MAX_ENTRIES - 1]
  /\ wrIndex \in [Ports -> 0 .. MAC_MAX_ENTRIES - 1]

\* The server outputs a time stamp only to a client that waits for one in
\* mac_tx_timed.  The output blocks, and a client that outputs a command
\* instead would block as well, and with it every other client.
ReplyExpected == spc = "sending" => client[Addressee] = "wait"

\* The entries of port x's time stamp queue.
TsQueue(x) ==
  LET n == (wrIndex[x] - rdIndex[x] + MAC_MAX_ENTRIES) % MAC_MAX_ENTRIES
  IN  [k \in 1 .. n |-> fifo[x][(rdIndex[x] + k - 1) % MAC_MAX_ENTRIES]]

\* The places where the packet at the head of pool q is dealt with.
Uses(x, q) ==
  {<<"queue", k>> : k \in {k \in 1 .. Len(TsQueue(x)) : TsQueue(x)[k] = q}}
    \cup (IF line[x] = <<"own", q>> THEN {<<"line", 0>>} ELSE {})
    \cup (IF spc = "sending" /\ p = x /\ buf = q THEN {<<"server", 0>>} ELSE {})

\* A packet at which transmission has started, and no other, is in one place:
\* on the line, in its port's time stamp queue or with the server that
\* outputs the time stamp.  So it is released once, the queue, which does
\* not test for overflow, never takes more than a packet of each pool, and a
\* packet's memory is not reused while something points to it.
OnePlaceEach ==
  \A x \in Ports, q \in Prios :
    Cardinality(Uses(x, q)) =
      IF pool[x][q] # <<>> /\ pool[x][q][1].sent > 0 THEN 1 ELSE 0

\* A packet leaves its pool only after it was sent, and sent once, although
\* mii_tx_pins can see it before its tcount and its stage are written.
SentOnce ==
  [][\A x \in Ports, q \in Prios :
       Len(pool'[x][q]) < Len(pool[x][q]) => pool[x][q][1].sent = 1]_vars

\* Every call of mac_tx, mac_tx_timed and the others returns in the end,
\* once the requests of the other clients have ended.
Answered == \A c \in Links : client[c] # "idle" ~> client[c] = "idle"

\* A packet that is to be forwarded is, once the port's own have ended.
ForwardsEnd ==
  (\E x \in Ports, q \in Prios : fwd[x][q]) ~> (\A x \in Ports, q \in Prios : ~fwd[x][q])

=============================================================================
