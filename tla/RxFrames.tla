------------------------------ MODULE RxFrames -------------------------------
(***************************************************************************)
(* The life of a received frame, from the receive pool through             *)
(* ethernet_filter, the clients' queues of ethernet_rx_server and, in a    *)
(* build with two ports, the other port's mii_tx_pins, to its release.     *)
(* A frame has one copy and several owners; tcount is the number of owners *)
(* beyond the first, and the last one to finish calls mii_free.            *)
(*                                                                         *)
(* A pool is the sequence of its packets (module MiiRxPool has the words). *)
(* The server answers a client's request or handles a packet in one go,    *)
(* except that it waits, in the middle of a reply, for the client to read  *)
(* the frame; which of the two it does next is left open here, the         *)
(* conversation with the clients being module MacRxLink's.                 *)
(***************************************************************************)
EXTENDS Integers, Sequences, FiniteSets

CONSTANTS
  NumLinks,       \* num_link
  Pools,          \* the receive pools of a port: high and low priority
  Bufs,           \* the places of packets in memory
  PoolSlots,      \* packets that fit in a pool
  NUM_MII_RX_BUF, \* entries of a client's ring, one of which stays empty
  Bits,           \* the bits of a filter result
  Masks, Sizes,   \* the filters and queue sizes that clients ask for
  FORWARD         \* MII_FILTER_FORWARD_TO_OTHER_PORTS

Links == 1 .. NumLinks
Slots == 0 .. NUM_MII_RX_BUF - 1

ASSUME FramesAssumption ==
  /\ NumLinks \in Nat /\ PoolSlots \in Nat
  /\ NUM_MII_RX_BUF \in Nat \ {0}
  /\ IsFiniteSet(Bufs) /\ Bufs # {} /\ FORWARD \in Bits
  /\ Masks \subseteq SUBSET Bits /\ Sizes \subseteq Nat

VARIABLES
  pool,           \* the packets of each pool that are not reclaimed, in order
  freed,          \* those of them that mii_free has marked
  taken,          \* those that the server's rdptr has passed
  c_filter,       \* the packets on their way to the filter
  stage, filter_result, tcount, forwarding,  \* fields of mii_packet_t
  custom_filter_mask, max_queue_size,
  rdIndex, wrIndex, fifo,                    \* link_status[i]
  sending,        \* the client that the server is sending a frame to, or 0
  transmitting    \* the packet that the other port is forwarding, or {}

packetVars == <<stage, filter_result, tcount, forwarding>>
ringVars == <<rdIndex, wrIndex, fifo>>
setupVars == <<custom_filter_mask, max_queue_size>>
poolVars == <<pool, freed, taken, c_filter>>
ownerVars == <<sending, transmitting>>
vars == <<poolVars, packetVars, ringVars, setupVars, ownerVars>>

Init ==
  /\ pool = [p \in Pools |-> <<>>] /\ freed = {} /\ taken = {} /\ c_filter = <<>>
  /\ stage = [b \in Bufs |-> 0] /\ filter_result = [b \in Bufs |-> {}]
  /\ tcount = [b \in Bufs |-> 0] /\ forwarding = [b \in Bufs |-> FALSE]
  /\ custom_filter_mask = [i \in Links |-> {}]
  /\ max_queue_size = [i \in Links |-> NUM_MII_RX_BUF]
  /\ rdIndex = [i \in Links |-> 0] /\ wrIndex = [i \in Links |-> 0]
  /\ \E b \in Bufs : fifo = [i \in Links |-> [k \in Slots |-> b]]
  /\ sending = 0 /\ transmitting = {}

-----------------------------------------------------------------------------
(* Pools and rings *)

InPool(p) == {pool[p][k] : k \in 1 .. Len(pool[p])}
Live == UNION {InPool(p) : p \in Pools}

\* The packets of s from the first one on that is not in F.
FromFirstNotIn(s, F) ==
  LET n == CHOOSE k \in 1 .. Len(s) + 1 :
             /\ \A j \in 1 .. k - 1 : s[j] \in F
             /\ k <= Len(s) => s[k] \notin F
  IN  SubSeq(s, n, Len(s))

\* mii_free of the packets in B: packets are reclaimed from the oldest on.
mii_free(B) ==
  /\ pool' = [p \in Pools |-> FromFirstNotIn(pool[p], freed \cup B)]
  /\ LET live == UNION {{pool'[p][k] : k \in 1 .. Len(pool'[p])} : p \in Pools}
     IN  freed' = (freed \cup B) \cap live

\* An index that is not wrapped.
Mut_NextIndex_no_wrap(k) == k + 1

\* The next index of a ring.
NextIndex(k) == IF k + 1 # NUM_MII_RX_BUF THEN k + 1 ELSE 0

QueueSize(i) == LET d == wrIndex[i] - rdIndex[i]
                IN  IF d < 0 THEN d + NUM_MII_RX_BUF ELSE d

\* The n-th entry of client i's queue, counting from 0.
Entry(i, n) == fifo[i][(rdIndex[i] + n) % NUM_MII_RX_BUF]
Queue(i) == {Entry(i, n) : n \in 0 .. QueueSize(i) - 1}

-----------------------------------------------------------------------------
(* mii_rx_pins and ethernet_filter *)

\* mii_commit of a new packet, whose tcount and result are still unset.
RxCommit(p) ==
  /\ Len(pool[p]) < PoolSlots
  /\ \E b \in Bufs \ Live :
       /\ pool' = [pool EXCEPT ![p] = Append(@, b)]
       /\ stage' = [stage EXCEPT ![b] = 0]
       /\ forwarding' = [forwarding EXCEPT ![b] = FALSE]
       /\ taken' = taken \ {b}
       /\ c_filter' = Append(c_filter, b)
  /\ UNCHANGED <<freed, filter_result, tcount, ringVars, setupVars, ownerVars>>

\* Too short, a bad CRC or another station's address: no result.  Otherwise
\* what mac_custom_filter, the application's, returns.
ethernet_filter ==
  /\ c_filter # <<>> /\ c_filter' = Tail(c_filter)
  /\ \E result \in SUBSET Bits :
       filter_result' = [filter_result EXCEPT ![Head(c_filter)] = result]
  /\ stage' = [stage EXCEPT ![Head(c_filter)] = 1]
  /\ UNCHANGED <<pool, freed, taken, tcount, forwarding, ringVars, setupVars, ownerVars>>

-----------------------------------------------------------------------------
(* ethernet_rx_server *)

\* custom_filter_mask[i] & result.
Match(i, b) == custom_filter_mask[i] \cap filter_result[b] # {}

\* A ring that is used to its last entry.
Mut_QueueHasRoom_last_entry(i) == QueueSize(i) < max_queue_size[i]

\* The client's queue takes another packet.
QueueHasRoom(i) == /\ QueueSize(i) < max_queue_size[i]
                   /\ NextIndex(wrIndex[i]) # rdIndex[i]

\* A count of owners instead of owners beyond the first.
Mut_Count_owners(b, S) ==
  Cardinality(S) + (IF FORWARD \in filter_result[b] THEN 1 ELSE 0)

\* The other port is not counted.
Mut_Count_clients(b, S) == Cardinality(S) - 1

\* tcount of process_received_frame, minus one.
Count(b, S) ==
  Cardinality(S) + (IF FORWARD \in filter_result[b] THEN 1 ELSE 0) - 1

\* The server's rdptr is at the k-th packet of p.
AtReadPointer(p, k) ==
  pool[p][k] \notin taken /\ \A j \in 1 .. k - 1 : pool[p][j] \in taken

\* process_received_frame of the packet at the server's rdptr: it is put in
\* the queue of every client that it matches and that has room, and offered
\* to the other port.
process_received_frame(p) ==
  /\ sending = 0
  /\ \E k \in 1 .. Len(pool[p]) :
       LET b == pool[p][k]
           S == {i \in Links : Match(i, b) /\ QueueHasRoom(i)}
       IN  /\ AtReadPointer(p, k) /\ stage[b] = 1
           /\ taken' = taken \cup {b}
           /\ fifo' = [i \in Links |-> IF i \in S THEN [fifo[i] EXCEPT ![wrIndex[i]] = b]
                                       ELSE fifo[i]]
           /\ wrIndex' = [i \in Links |-> IF i \in S THEN NextIndex(wrIndex[i])
                                          ELSE wrIndex[i]]
           /\ IF Count(b, S) < 0
              THEN mii_free({b}) /\ UNCHANGED <<tcount, forwarding>>
              ELSE /\ tcount' = [tcount EXCEPT ![b] = Count(b, S)]
                   /\ forwarding' = [forwarding EXCEPT ![b] = FORWARD \in filter_result[b]]
                   /\ UNCHANGED <<pool, freed>>
  /\ UNCHANGED <<c_filter, stage, filter_result, rdIndex, setupVars, ownerVars>>

\* An owner is done with b: get_and_dec_transmit_count, and mii_free if the
\* count was 0.
Finish(b) ==
  IF tcount[b] = 0 THEN mii_free({b}) /\ UNCHANGED tcount
  ELSE tcount' = [tcount EXCEPT ![b] = @ - 1] /\ UNCHANGED <<pool, freed>>

\* A client asks for a frame; mac_rx_send_frame1 starts.
SendFrame(i) ==
  /\ sending = 0 /\ rdIndex[i] # wrIndex[i]
  /\ sending' = i
  /\ UNCHANGED <<poolVars, packetVars, ringVars, setupVars, transmitting>>

\* The client has read it.
FrameSent ==
  /\ sending # 0
  /\ Finish(fifo[sending][rdIndex[sending]])
  /\ rdIndex' = [rdIndex EXCEPT ![sending] = NextIndex(@)]
  /\ sending' = 0
  /\ UNCHANGED <<c_filter, taken, stage, filter_result, forwarding, wrIndex, fifo,
                 setupVars, transmitting>>

\* ETHERNET_RX_CUSTOM_FILTER_SET.
mac_set_custom_filter(i) ==
  /\ sending = 0
  /\ \E x \in Masks : custom_filter_mask' = [custom_filter_mask EXCEPT ![i] = x]
  /\ UNCHANGED <<poolVars, packetVars, ringVars, max_queue_size, ownerVars>>

\* ETHERNET_RX_QUEUE_SIZE_SET, and ETHERNET_RX_DROP_PACKETS_SET, which sets
\* the size to 1 or to NUM_MII_RX_BUF.
mac_set_queue_size(i) ==
  /\ sending = 0
  /\ \E x \in Sizes \cup {1, NUM_MII_RX_BUF} : max_queue_size' = [max_queue_size EXCEPT ![i] = x]
  /\ UNCHANGED <<poolVars, packetVars, ringVars, custom_filter_mask,
                 ownerVars>>

-----------------------------------------------------------------------------
(* The other port's mii_tx_pins *)

\* It looks at the oldest packet of each pool only; its own packets and its
\* traffic shaper decide which pool it gets to.
Forward(p) ==
  /\ transmitting = {} /\ pool[p] # <<>>
  /\ forwarding[pool[p][1]] /\ stage[pool[p][1]] = 1
  /\ transmitting' = {pool[p][1]}
  /\ UNCHANGED <<poolVars, packetVars, ringVars, setupVars, sending>>

\* Transmitted: mii_packet_get_and_clear_forwarding.  ethernet_filter has
\* set the packet's timestamp_id to 0, so it is released here.
Forwarded ==
  \E b \in transmitting :
    /\ forwarding' = [forwarding EXCEPT ![b] = FALSE]
    /\ Finish(b)
    /\ transmitting' = {}
    /\ UNCHANGED <<c_filter, taken, stage, filter_result, ringVars, setupVars, sending>>

Next ==
  \/ \E p \in Pools : RxCommit(p) \/ process_received_frame(p) \/ Forward(p)
  \/ ethernet_filter
  \/ \E i \in Links : SendFrame(i) \/ mac_set_custom_filter(i) \/ mac_set_queue_size(i)
  \/ FrameSent \/ Forwarded

Spec == Init /\ [][Next]_vars

\* The threads run, the server gets to both pools in every pass of its loop
\* and clients fetch what they are notified of.
Fairness ==
  /\ WF_vars(ethernet_filter) /\ WF_vars(FrameSent) /\ WF_vars(Forwarded)
  /\ \A p \in Pools : SF_vars(process_received_frame(p)) /\ SF_vars(Forward(p))
  /\ \A i \in Links : SF_vars(SendFrame(i))

FairSpec == Spec /\ Fairness

-----------------------------------------------------------------------------
(* Properties *)

TypeOK ==
  /\ pool \in [Pools -> Seq(Bufs)] /\ freed \subseteq Live /\ taken \subseteq Bufs
  /\ c_filter \in Seq(Bufs)
  /\ stage \in [Bufs -> 0 .. 1] /\ filter_result \in [Bufs -> SUBSET Bits]
  /\ tcount \in [Bufs -> 0 .. NumLinks] /\ forwarding \in [Bufs -> BOOLEAN]
  /\ custom_filter_mask \in [Links -> SUBSET Bits]
  /\ max_queue_size \in [Links -> Nat]
  /\ rdIndex \in [Links -> Slots] /\ wrIndex \in [Links -> Slots]
  /\ fifo \in [Links -> [Slots -> Bufs]]
  /\ sending \in 0 .. NumLinks /\ transmitting \subseteq Bufs

\* The clients that b is queued for, and the other port (0).
Owners(b) == {i \in Links : b \in Queue(i)} \cup (IF forwarding[b] THEN {0} ELSE {})

\* The packets that the server has handled and nobody has released.
InUse == (Live \cap taken) \ freed

\* A packet in a client's queue or being forwarded is in use, its memory not
\* released; and its transmit count is one less than its owners, so that
\* the last of them, and no other, releases it.  What the other port is
\* sending is not released under it.
CountsOwners ==
  /\ transmitting \subseteq {b \in InUse : forwarding[b]}
  /\ \A b \in Bufs : Owners(b) # {} => b \in InUse
  /\ \A b \in InUse : tcount[b] + 1 = Cardinality(Owners(b))

\* Each client gets the frames of a pool in the order of their arrival.
InOrder ==
  \A i \in Links, p \in Pools : \A m, n \in 0 .. QueueSize(i) - 1 :
    \A j, k \in 1 .. Len(pool[p]) :
      m < n /\ Entry(i, m) = pool[p][j] /\ Entry(i, n) = pool[p][k] => j < k

\* What FrameDelivery promises: the packets that the server has not passed, in
\* their order, the contents of the clients' rings, and the packets marked
\* for the other port.
Delivery == INSTANCE FrameDelivery WITH
  Clients <- Links, Inputs <- Pools, Frames <- Bufs, Capacity <- NUM_MII_RX_BUF - 1,
  arrived <- [p \in Pools |-> FromFirstNotIn(pool[p], taken)],
  waiting <- [i \in Links |-> [n \in 1 .. QueueSize(i) |-> Entry(i, n - 1)]],
  relayed <- {b \in Bufs : forwarding[b]}

\* Pools, read pointer, rings and counts of owners deliver the frames: those of
\* a pool are handed out in order and none twice, a client's ring gives them
\* back as they were put in, and memory is not used again while a client
\* or the other port still has the frame in it.
DeliversFrames == Delivery!Spec

\* Every packet is reclaimed in the end: nothing is left behind in a queue,
\* in the pool or with the other port.
Reclaimed == \A b \in Bufs : b \in Live ~> b \notin Live

=============================================================================
