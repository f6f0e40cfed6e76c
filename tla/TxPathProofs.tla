----------------------------- MODULE TxPathProofs ----------------------------
(***************************************************************************)
(* The transmit path, for any number of clients, ports and packets: each   *)
(* packet is sent once and released once, the time stamp queues, which     *)
(* have no test for overflow, never overflow, and a time stamp goes to the *)
(* client that waits for it.                                               *)
(***************************************************************************)
EXTENDS TxPath, TLAPS, FiniteSetTheorems, SequenceTheorems

\* The server is between mii_commit and the mark of the last packet of pool q.
Marking(x, q) == spc = "mark" /\ p = x /\ cur.prio = q
Unmarked(x, q, k) == Marking(x, q) /\ k = Len(pool[x][q])

\* Written by the server and not yet dealt with by mii_tx_pins.
Clean(pkt) == pkt.stage = 1 /\ pkt.tcount = 0

OnLine(x, q) == line[x] = <<"own", q>>
InTs(x, q) == \E k \in 1 .. Len(TsQueue(x)) : TsQueue(x)[k] = q
AtServer(x, q) == spc = "sending" /\ p = x /\ buf = q

\* The packet at the head of a pool waits for the line,
New(x, q) ==
  /\ pool[x][q][1].sent = 0
  /\ IF Unmarked(x, q, 1) THEN pool[x][q][1].stage = 0 ELSE Clean(pool[x][q][1])
  /\ ~OnLine(x, q) /\ ~InTs(x, q) /\ ~AtServer(x, q)

\* is being transmitted,
Out(x, q) ==
  /\ pool[x][q][1].sent = 1 /\ ~Unmarked(x, q, 1) /\ Clean(pool[x][q][1])
  /\ OnLine(x, q) /\ ~InTs(x, q) /\ ~AtServer(x, q)

\* or has been, and its time stamp is due.
Due(x, q) ==
  /\ pool[x][q][1].sent = 1 /\ pool[x][q][1].stage = 2 /\ pool[x][q][1].tcount = 0
  /\ pool[x][q][1].id # 0 /\ ~Unmarked(x, q, 1)
  /\ ~OnLine(x, q)
  /\ InTs(x, q) <=> ~AtServer(x, q)

HeadInv(x, q) ==
  IF pool[x][q] = <<>>
  THEN ~Marking(x, q) /\ ~OnLine(x, q) /\ ~InTs(x, q) /\ ~AtServer(x, q)
  ELSE New(x, q) \/ Out(x, q) \/ Due(x, q)

\* The packets behind it are untouched.
RestInv(x, q) ==
  \A k \in 2 .. Len(pool[x][q]) :
    /\ pool[x][q][k].sent = 0
    /\ IF Unmarked(x, q, k) THEN pool[x][q][k].stage = 0 ELSE Clean(pool[x][q][k])

\* A time stamp queue has an entry for a pool once.
TsApart(x) ==
  \A k, l \in 1 .. Len(TsQueue(x)) : TsQueue(x)[k] = TsQueue(x)[l] => k = l

PoolsInv ==
  /\ TypeOK
  /\ \A x \in Ports : TsApart(x)
  /\ \A x \in Ports, q \in Prios : HeadInv(x, q) /\ RestInv(x, q)

\* The k-th packet of a pool is one for whose time stamp client c waits.
Timed(x, q, k, c) == k \in 1 .. Len(pool[x][q]) /\ pool[x][q][k].id = c

\* The server has not come to the port of its request yet.
ToCommit == spc = "commit" /\ (cur.dst = ETH_BROADCAST \/ p <= cur.dst)

\* What the server reads of a client is what the client has asked for, and a
\* client whose command is pending sends no other.
RequestInv ==
  /\ \A c \in Links : client[c] \in {"cmd", "slave"} => req[c] \in Requests[c]
  /\ \A c \in Links : pendingCmd[c] /\ ~(c = i /\ spc \in {"commit", "mark"})
       => client[c] = "slave"
  /\ spc \in {"commit", "mark"} => cur \in Requests[i] /\ (cur.timed => client[i] = "wait")
  /\ spc = "mark" => cur.dst \in {p, ETH_BROADCAST}

\* A client waits for the time stamp of one packet only.
WaitInv ==
  \A c \in Links : \A x, y \in Ports : \A q, r \in Prios : \A k, l \in Nat :
    Timed(x, q, k, c) =>
      /\ client[c] = "wait" /\ ~(ToCommit /\ cur.timed /\ i = c)
      /\ Timed(y, r, l, c) => x = y /\ q = r /\ k = l

\* Packets with a time stamp go to one port.
TimedToOne ==
  NumPorts = 1 \/ \A c \in Links : \A r \in Requests[c] : r.timed => r.dst # ETH_BROADCAST

-----------------------------------------------------------------------------
(* The time stamp queues *)

M == MAC_MAX_ENTRIES
Places == 0 .. M - 1

\* What TsQueue makes of an array and its indices.
Ring(f, r, w) ==
  LET n == (w - r + MAC_MAX_ENTRIES) % MAC_MAX_ENTRIES
  IN  [k \in 1 .. n |-> f[(r + k - 1) % MAC_MAX_ENTRIES]]

\* Its length, and the place of its k-th entry, without remainders.
RingLen(r, w) == IF r <= w THEN w - r ELSE w - r + M
RingPlace(r, k) == IF r + k - 1 < M THEN r + k - 1 ELSE r + k - 1 - M

\* An array has room for an entry for each pool, and for one more.
LEMMA Entries == M \in Nat /\ M >= 3
<1>1. IsFiniteSet({"lp"}) /\ Cardinality({"lp"}) = 1
  BY FS_Singleton
<1>2. Cardinality({"lp"} \cup {"hp"}) = 2
  <2>1. "hp" \notin {"lp"}
    OBVIOUS
  <2>2. Cardinality({"lp"} \cup {"hp"}) = Cardinality({"lp"}) + 1
    BY <1>1, <2>1, FS_AddElement
  <2>3. QED  BY <1>1, <2>2
<1>3. Prios = {"lp"} \cup {"hp"}
  BY DEF Prios
<1>4. QED  BY <1>2, <1>3, TxPathAssumption DEF M

\* The length and the entries of a ring.
LEMMA RingFacts ==
  ASSUME NEW f \in [Places -> Prios], NEW r \in Places, NEW w \in Places
  PROVE  /\ Ring(f, r, w) \in Seq(Prios)
         /\ Len(Ring(f, r, w)) = RingLen(r, w) /\ RingLen(r, w) \in Places
         /\ \A k \in 1 .. RingLen(r, w) : /\ RingPlace(r, k) \in Places
                                          /\ Ring(f, r, w)[k] = f[RingPlace(r, k)]
<1>0. M \in Nat /\ M >= 3 /\ r \in 0 .. M - 1 /\ w \in 0 .. M - 1
  BY Entries DEF Places
<1> DEFINE n == (w - r + M) % M
<1>1. n = RingLen(r, w) /\ RingLen(r, w) \in 0 .. M - 1
  <2>1. CASE r <= w
    <3>1. w - r + M \in M .. 2 * M - 1
      BY <1>0, <2>1
    <3>2. n = w - r
      BY <1>0, <2>1
    <3>3. QED  BY <1>0, <2>1, <3>2 DEF RingLen
  <2>2. CASE ~(r <= w)
    <3>1. n = w - r + M
      BY <1>0, <2>2
    <3>2. QED  BY <1>0, <2>2, <3>1 DEF RingLen
  <2>3. QED  BY <2>1, <2>2
<1>2. Ring(f, r, w) = [k \in 1 .. n |-> f[(r + k - 1) % M]]
  BY DEF Ring, M
<1> HIDE DEF n
<1>3. ASSUME NEW k \in 1 .. n
      PROVE  (r + k - 1) % M = RingPlace(r, k) /\ RingPlace(r, k) \in 0 .. M - 1
  <2>1. n \in 0 .. M - 1
    BY <1>1
  <2>2. k \in 1 .. M - 1
    BY <1>0, <2>1
  <2>3. (r + k - 1) % M = IF r + k - 1 < M THEN r + k - 1 ELSE r + k - 1 - M
    BY <1>0, <2>2
  <2>4. QED  BY <1>0, <2>2, <2>3 DEF RingPlace
<1>4. \A k \in 1 .. n : Ring(f, r, w)[k] = f[RingPlace(r, k)] /\ RingPlace(r, k) \in Places
  BY <1>2, <1>3 DEF Places
<1>5. Ring(f, r, w) \in [1 .. n -> Prios]
  <2>1. \A k \in 1 .. n : f[(r + k - 1) % M] \in Prios
    BY <1>3 DEF Places
  <2>2. QED  BY <1>2, <2>1
<1>6. n \in Nat
  BY <1>0, <1>1
<1>7. Ring(f, r, w) \in Seq(Prios) /\ Len(Ring(f, r, w)) = n
  BY <1>5, <1>6
<1>8. QED  BY <1>1, <1>4, <1>7 DEF Places

\* add_ts_queue_entry of an array that has room.
LEMMA RingPush ==
  ASSUME NEW f \in [Places -> Prios], NEW r \in Places, NEW w \in Places, NEW q \in Prios,
         NEW g \in [Places -> Prios], g[w] = q, \A k \in Places : k # w => g[k] = f[k],
         Len(Ring(f, r, w)) \in 0 .. 1
  PROVE  /\ NextIndex(w) \in Places
         /\ Len(Ring(g, r, NextIndex(w))) = Len(Ring(f, r, w)) + 1
         /\ \A k \in 1 .. Len(Ring(f, r, w)) :
              Ring(g, r, NextIndex(w))[k] = Ring(f, r, w)[k]
         /\ Ring(g, r, NextIndex(w))[Len(Ring(f, r, w)) + 1] = q
<1>0. M \in Nat /\ M >= 3 /\ r \in 0 .. M - 1 /\ w \in 0 .. M - 1
  BY Entries DEF Places
<1> DEFINE v == NextIndex(w)
           n == RingLen(r, w)
<1>1. v = (IF w + 1 # M THEN w + 1 ELSE 0)
  BY DEF NextIndex, M
<1>2. v \in 0 .. M - 1
  BY <1>0, <1>1
<1>3. n \in 0 .. 1
  <2>1. Len(Ring(f, r, w)) = n /\ n \in Places
    BY RingFacts
  <2> HIDE DEF n
  <2>2. QED  BY <1>0, <2>1 DEF Places
<1>4. RingLen(r, v) = n + 1
  <2>1. n = IF r <= w THEN w - r ELSE w - r + M
    BY DEF RingLen
  <2>2. RingLen(r, v) = IF r <= v THEN v - r ELSE v - r + M
    BY DEF RingLen
  <2> HIDE DEF n, v
  <2>3. CASE w + 1 # M
    BY <1>0, <1>1, <1>3, <2>1, <2>2, <2>3
  <2>4. CASE w + 1 = M
    BY <1>0, <1>1, <1>3, <2>1, <2>2, <2>4
  <2>5. QED  BY <2>3, <2>4
<1>5. g \in [Places -> Prios] /\ v \in Places /\ w \in Places
  BY <1>2 DEF Places
<1>6. /\ Len(Ring(f, r, w)) = n
      /\ \A k \in 1 .. n : /\ RingPlace(r, k) \in Places
                           /\ Ring(f, r, w)[k] = f[RingPlace(r, k)]
  BY RingFacts
<1>7. /\ Len(Ring(g, r, v)) = n + 1
      /\ \A k \in 1 .. n + 1 : /\ RingPlace(r, k) \in Places
                               /\ Ring(g, r, v)[k] = g[RingPlace(r, k)]
  <2> HIDE DEF v, n
  <2>1. /\ Len(Ring(g, r, v)) = RingLen(r, v)
        /\ \A k \in 1 .. RingLen(r, v) : /\ RingPlace(r, k) \in Places
                                         /\ Ring(g, r, v)[k] = g[RingPlace(r, k)]
    BY <1>5, RingFacts
  <2>2. QED  BY <1>4, <2>1
<1>8. ASSUME NEW k \in 1 .. n + 1  PROVE RingPlace(r, k) = w <=> k = n + 1
  <2>1. n = IF r <= w THEN w - r ELSE w - r + M
    BY DEF RingLen
  <2> HIDE DEF n
  <2>2. QED  BY <1>0, <1>3, <2>1 DEF RingPlace
<1> HIDE DEF n, v
<1>9. \A k \in 1 .. n : k \in 1 .. n + 1 /\ k # n + 1
  BY <1>3
<1>10. n + 1 \in 1 .. n + 1
  BY <1>3
<1>11. \A k \in 1 .. n : Ring(g, r, v)[k] = Ring(f, r, w)[k]
  BY <1>6, <1>7, <1>8, <1>9
<1>12. Ring(g, r, v)[n + 1] = q
  BY <1>5, <1>7, <1>8, <1>10
<1>13. QED  BY <1>5, <1>6, <1>7, <1>11, <1>12 DEF v

\* get_ts_queue_entry.
LEMMA RingPop ==
  ASSUME NEW f \in [Places -> Prios], NEW r \in Places, NEW w \in Places, r # w
  PROVE  /\ NextIndex(r) \in Places
         /\ Len(Ring(f, r, w)) \in Nat /\ Len(Ring(f, r, w)) > 0
         /\ Ring(f, r, w)[1] = f[r]
         /\ Len(Ring(f, NextIndex(r), w)) = Len(Ring(f, r, w)) - 1
         /\ \A k \in 1 .. Len(Ring(f, r, w)) - 1 :
              Ring(f, NextIndex(r), w)[k] = Ring(f, r, w)[k + 1]
<1>0. M \in Nat /\ M >= 3 /\ r \in 0 .. M - 1 /\ w \in 0 .. M - 1
  BY Entries DEF Places
<1> DEFINE v == NextIndex(r)
           n == RingLen(r, w)
<1>1. v = (IF r + 1 # M THEN r + 1 ELSE 0)
  BY DEF NextIndex, M
<1>2. v \in 0 .. M - 1
  BY <1>0, <1>1
<1>3. n = (IF r <= w THEN w - r ELSE w - r + M)
      /\ RingLen(v, w) = (IF v <= w THEN w - v ELSE w - v + M)
  BY DEF RingLen
<1>4. /\ Len(Ring(f, r, w)) = n
      /\ \A k \in 1 .. n : Ring(f, r, w)[k] = f[RingPlace(r, k)]
  BY RingFacts
<1>5. /\ Len(Ring(f, v, w)) = RingLen(v, w)
      /\ \A k \in 1 .. RingLen(v, w) : Ring(f, v, w)[k] = f[RingPlace(v, k)]
  <2> HIDE DEF v
  <2>1. v \in Places
    BY <1>2 DEF Places
  <2>2. QED  BY <2>1, RingFacts
<1> HIDE DEF n, v
<1>6. n \in 1 .. M - 1 /\ RingLen(v, w) = n - 1
  <2>1. CASE r + 1 # M
    BY <1>0, <1>1, <1>3, <2>1
  <2>2. CASE r + 1 = M
    BY <1>0, <1>1, <1>3, <2>2
  <2>3. QED  BY <2>1, <2>2
<1>7. RingPlace(r, 1) = r
  BY <1>0 DEF RingPlace
<1>8. ASSUME NEW k \in 1 .. n - 1
      PROVE  /\ k + 1 \in 1 .. n /\ k \in 1 .. RingLen(v, w)
             /\ RingPlace(v, k) = RingPlace(r, k + 1)
  <2>1. k + 1 \in 1 .. n /\ k \in 1 .. n - 1
    BY <1>6
  <2>2. RingPlace(v, k) = RingPlace(r, k + 1)
    BY <1>0, <1>1, <1>6, <2>1 DEF RingPlace
  <2>3. QED  BY <1>6, <2>1, <2>2
<1>9. \A k \in 1 .. n - 1 : Ring(f, v, w)[k] = Ring(f, r, w)[k + 1]
  BY <1>4, <1>5, <1>8
<1>10. Ring(f, r, w)[1] = f[r]
  BY <1>4, <1>6, <1>7
<1>11. QED  BY <1>2, <1>4, <1>5, <1>6, <1>9, <1>10 DEF v, Places

-----------------------------------------------------------------------------
(* Pools *)

PoolType == [Ports -> [Prios -> Seq(Packet)]]

\* A step that neither adds nor removes a packet.
PacketsSame ==
  \A y \in Ports, r \in Prios :
    /\ Len(pool'[y][r]) = Len(pool[y][r])
    /\ \A k \in 1 .. Len(pool[y][r]) : pool'[y][r][k].id = pool[y][r][k].id

\* One that adds a packet, and one that releases the head of a pool.
PacketAdded(x, q) ==
  \E e \in Packet :
    e.id = timestamp_id /\ pool' = [pool EXCEPT ![x][q] = Append(@, e)]
HeadReleased(x, q) ==
  /\ pool[x][q] # <<>> /\ pool[x][q][1].sent = 1
  /\ pool' = [pool EXCEPT ![x][q] = Tail(@)]

\* The fields of a packet.
Staged(pkt, k) == [pkt EXCEPT !.stage = k]
SentMore(pkt) == [pkt EXCEPT !.sent = @ + 1]

\* The fields of a packet whose stage is set to k.
LEMMA StageUpdate ==
  ASSUME NEW d \in Packet, NEW k \in 0 .. 2
  PROVE  /\ Staged(d, k) \in Packet /\ Staged(d, k).stage = k /\ Staged(d, k).id = d.id
         /\ Staged(d, k).tcount = d.tcount /\ Staged(d, k).sent = d.sent
<1>1. Staged(d, k) \in Packet
  BY DEF Packet, Staged
<1>2. Staged(d, k).stage = k
  BY DEF Packet, Staged
<1>3. Staged(d, k).id = d.id
  BY DEF Packet, Staged
<1>4. Staged(d, k).tcount = d.tcount
  BY DEF Packet, Staged
<1>5. Staged(d, k).sent = d.sent
  BY DEF Packet, Staged
<1>6. QED  BY <1>1, <1>2, <1>3, <1>4, <1>5

\* The fields of a packet that has gone out once more.
LEMMA SentUpdate ==
  ASSUME NEW d \in Packet
  PROVE  /\ SentMore(d) \in Packet /\ SentMore(d).sent = d.sent + 1
         /\ SentMore(d).id = d.id
         /\ SentMore(d).tcount = d.tcount /\ SentMore(d).stage = d.stage
<1>1. SentMore(d) \in Packet
  BY DEF Packet, SentMore
<1>2. SentMore(d).stage = d.stage
  BY DEF Packet, SentMore
<1>3. SentMore(d).id = d.id
  BY DEF Packet, SentMore
<1>4. SentMore(d).tcount = d.tcount
  BY DEF Packet, SentMore
<1>5. SentMore(d).sent = d.sent + 1
  BY DEF Packet, SentMore
<1>6. QED  BY <1>1, <1>2, <1>3, <1>4, <1>5

\* The fields of a packet that the server has marked for transmission.
LEMMA MarkUpdate ==
  ASSUME NEW d \in Packet
  PROVE  /\ Marked(d) \in Packet /\ Marked(d).stage = 1 /\ Marked(d).tcount = 0
         /\ Marked(d).id = d.id /\ Marked(d).sent = d.sent
<1> DEFINE c == [d EXCEPT !.stage = 1]
<1>1. c \in Packet
  BY DEF Packet
<1>2. Marked(d) = [c EXCEPT !.tcount = 0]
  BY DEF Marked
<1> HIDE DEF c
<1>3. [c EXCEPT !.tcount = 0] \in Packet
  BY <1>1 DEF Packet
<1>4. Marked(d).stage = 1 /\ Marked(d).tcount = 0
  BY DEF Marked, Packet
<1>5. Marked(d).id = d.id /\ Marked(d).sent = d.sent
  BY DEF Marked, Packet
<1>6. QED  BY <1>2, <1>3, <1>4, <1>5
\* One packet of a pool is changed.
LEMMA PacketUpdate ==
  ASSUME NEW s \in Seq(Packet), NEW k \in 1 .. Len(s), NEW e \in Packet
  PROVE  LET t == [s EXCEPT ![k] = e]
         IN  /\ t \in Seq(Packet) /\ Len(t) = Len(s) /\ t[k] = e /\ t # <<>>
             /\ \A j \in 1 .. Len(s) : j # k => t[j] = s[j]
<1> DEFINE t == [s EXCEPT ![k] = e]
<1>1. t \in [1 .. Len(s) -> Packet] /\ Len(s) \in Nat
  OBVIOUS
<1>2. t \in Seq(Packet) /\ Len(t) = Len(s)
  BY <1>1
<1>3. t[k] = e /\ \A j \in 1 .. Len(s) : j # k => t[j] = s[j]
  OBVIOUS
<1>4. t # <<>>
  <2> HIDE DEF t
  <2>1. QED  BY <1>1, <1>2
<1>5. QED  BY <1>2, <1>3, <1>4

\* A time stamp queue is a ring.
LEMMA TsRing ==
  ASSUME NEW x \in Ports
  PROVE  TsQueue(x) = Ring(fifo[x], rdIndex[x], wrIndex[x])
BY DEF TsQueue, Ring

\* A pool that a step leaves alone.
LEMMA Frame ==
  ASSUME NEW x \in Ports, NEW q \in Prios, HeadInv(x, q), RestInv(x, q),
         pool'[x][q] = pool[x][q],
         Marking(x, q)' <=> Marking(x, q), OnLine(x, q)' <=> OnLine(x, q),
         InTs(x, q)' <=> InTs(x, q), AtServer(x, q)' <=> AtServer(x, q)
  PROVE  HeadInv(x, q)' /\ RestInv(x, q)'
<1>1. \A k : Unmarked(x, q, k)' <=> Unmarked(x, q, k)
  BY DEF Unmarked
<1>2. HeadInv(x, q)'
  BY <1>1 DEF HeadInv, New, Out, Due, Clean
<1>3. RestInv(x, q)'
  BY <1>1 DEF RestInv, Clean
<1>4. QED  BY <1>2, <1>3

\* A step that leaves the time stamp queues alone.
LEMMA SameTs ==
  ASSUME UNCHANGED tsVars
  PROVE  /\ \A x \in Ports : TsApart(x) => TsApart(x)'
         /\ \A x \in Ports, q \in Prios : InTs(x, q)' <=> InTs(x, q)
<1>1. \A x \in Ports : TsQueue(x)' = TsQueue(x)
  BY DEF TsQueue, tsVars
<1>2. QED  BY <1>1 DEF TsApart, InTs

\* A step that changes no packet, none of the server's marks and replies and
\* does not start or end the transmission of a packet of the port's own.
LEMMA Quiet ==
  ASSUME PoolsInv, TypeOK', UNCHANGED <<pool, tsVars>>,
         \A x \in Ports, q \in Prios : /\ Marking(x, q)' <=> Marking(x, q)
                                       /\ AtServer(x, q)' <=> AtServer(x, q)
                                       /\ OnLine(x, q)' <=> OnLine(x, q)
  PROVE  PoolsInv'
<1>1. \A x \in Ports : TsApart(x)'
  BY SameTs DEF PoolsInv
<1>2. ASSUME NEW x \in Ports, NEW q \in Prios  PROVE HeadInv(x, q)' /\ RestInv(x, q)'
  <2>1. InTs(x, q)' <=> InTs(x, q)
    BY SameTs
  <2>2. HeadInv(x, q) /\ RestInv(x, q)
    BY DEF PoolsInv
  <2>3. QED  BY <2>1, <2>2, Frame
<1>3. QED  BY <1>1, <1>2 DEF PoolsInv

\* What the server does to i and spc.
LEMMA NextClientType ==
  ASSUME TypeOK, NextClient
  PROVE  i' \in Links /\ spc' \in {"scan", "select"}
<1>1. i \in 1 .. NumLinks /\ NumLinks \in Nat \ {0}
  BY TxPathAssumption DEF TypeOK, Links
<1>2. QED  BY <1>1 DEF NextClient, Links

\* The port loop of the server keeps the types of what it changes.
LEMMA NextPortType ==
  ASSUME TypeOK, NextPort
  PROVE  /\ i' \in Links /\ p' \in Ports /\ cur' \in Request \cup {NoReq}
         /\ spc' \in {"scan", "select", "commit"}
         /\ pendingCmd' \in [Links -> BOOLEAN] /\ enabled' \in [Links -> BOOLEAN]
<1>0. /\ p \in 0 .. NumPorts - 1 /\ NumPorts \in Nat \ {0}
      /\ i \in Links /\ cur \in Request \cup {NoReq}
      /\ pendingCmd \in [Links -> BOOLEAN] /\ enabled \in [Links -> BOOLEAN]
  BY TxPathAssumption DEF TypeOK, Ports
<1>1. CASE p < NumPorts - 1
  <2>1. p' \in 0 .. NumPorts - 1
    BY <1>0, <1>1 DEF NextPort
  <2>2. QED  BY <1>0, <1>1, <2>1 DEF NextPort, Ports
<1>2. CASE ~(p < NumPorts - 1)
  <2>1. i' \in Links /\ spc' \in {"scan", "select"}
    BY <1>2, NextClientType DEF NextPort
  <2>2. p' \in 0 .. NumPorts - 1
    BY <1>0, <1>2 DEF NextPort
  <2>3. pendingCmd' \in [Links -> BOOLEAN] /\ enabled' \in [Links -> BOOLEAN]
    BY <1>0, <1>2 DEF NextPort
  <2>4. cur' \in Request \cup {NoReq}
    BY <1>2 DEF NextPort
  <2>5. QED  BY <2>1, <2>2, <2>3, <2>4 DEF Ports
<1>3. QED  BY <1>1, <1>2

\* The loop over the time stamp queues keeps the types of what it changes.
LEMMA NextQueueType ==
  ASSUME TypeOK, NextQueue
  PROVE  p' \in Ports /\ spc' \in {"reply", "scan"}
<1>0. p \in 0 .. NumPorts - 1 /\ NumPorts \in Nat \ {0}
  BY TxPathAssumption DEF TypeOK, Ports
<1>1. CASE p < NumPorts - 1
  <2>1. p' = p + 1 /\ spc' = "reply"
    BY <1>1 DEF NextQueue
  <2>2. QED  BY <1>0, <1>1, <2>1 DEF Ports
<1>2. CASE ~(p < NumPorts - 1)
  <2>1. p' = 0 /\ spc' = "scan"
    BY <1>2 DEF NextQueue
  <2>2. QED  BY <1>0, <2>1 DEF Ports
<1>3. QED  BY <1>1, <1>2

-----------------------------------------------------------------------------
(* The steps and the pools *)

\* The pools start empty.
LEMMA PoolsInit ==
  ASSUME Init
  PROVE  PoolsInv
<1>0. 0 \in Places /\ 0 \in Ports /\ 1 \in Links
  BY Entries, TxPathAssumption DEF Places, Ports, Links
<1>1. TypeOK
  <2>1. /\ client \in [Links -> {"idle", "cmd", "slave", "wait"}]
        /\ req \in [Links -> Request \cup {NoReq}] /\ left \in [Links -> Nat]
        /\ pendingCmd \in [Links -> BOOLEAN] /\ enabled \in [Links -> BOOLEAN]
        /\ fwdLeft \in 0 .. MaxForwards
    BY TxPathAssumption DEF Init
  <2>2. pool \in [Ports -> [Prios -> Seq(Packet)]]
    BY DEF Init
  <2>3. /\ line \in [Ports -> {"none", "own", "fwd"} \X Prios]
        /\ fwd \in [Ports -> [Prios -> BOOLEAN]]
    BY DEF Init, Idle, Prios
  <2>4. /\ fifo \in [Ports -> [0 .. MAC_MAX_ENTRIES - 1 -> Prios]]
        /\ rdIndex \in [Ports -> 0 .. MAC_MAX_ENTRIES - 1]
        /\ wrIndex \in [Ports -> 0 .. MAC_MAX_ENTRIES - 1]
    BY <1>0 DEF Init, Prios, Places, M
  <2>5. QED  BY <1>0, <2>1, <2>2, <2>3, <2>4 DEF Init, TypeOK, Prios
<1>2. ASSUME NEW x \in Ports  PROVE Len(TsQueue(x)) = 0
  <2>1. fifo[x] \in [Places -> Prios] /\ rdIndex[x] = 0 /\ wrIndex[x] = 0
    BY <1>1 DEF Init, TypeOK, Places, M
  <2>2. Len(Ring(fifo[x], 0, 0)) = RingLen(0, 0)
    BY <1>0, <2>1, RingFacts
  <2>3. QED  BY <2>1, <2>2, TsRing DEF RingLen
<1>3. \A x \in Ports : TsApart(x)
  BY <1>2 DEF TsApart
<1>4. \A x \in Ports, q \in Prios : HeadInv(x, q) /\ RestInv(x, q)
  <2>1. ASSUME NEW x \in Ports, NEW q \in Prios  PROVE HeadInv(x, q) /\ RestInv(x, q)
    <3>1. pool[x][q] = <<>> /\ ~OnLine(x, q) /\ ~Marking(x, q) /\ ~AtServer(x, q)
      BY DEF Init, OnLine, Marking, AtServer, Idle
    <3>2. ~InTs(x, q)
      BY <1>2 DEF InTs
    <3>3. QED  BY <3>1, <3>2 DEF HeadInv, RestInv
  <2>2. QED  BY <2>1
<1>5. QED  BY <1>1, <1>3, <1>4 DEF PoolsInv

\* Clients, and the server where it does not touch a pool.
LEMMA QuietSteps ==
  ASSUME PoolsInv,
         \/ \E c \in Links : SendCmd(c) \/ TakeCmd(c)
         \/ Pass \/ get_packet_from_client \/ Skip \/ Default
         \/ \E x \in Ports, q \in Prios : ForwardArrives(x, q)
  PROVE  PoolsInv'
<1>0. TypeOK
  BY DEF PoolsInv
<1> USE DEF serverVars, clientVars, tsVars, fwdVars
<1>1. ASSUME NEW c \in Links, SendCmd(c)  PROVE PoolsInv'
  <2>1. PICK r \in Requests[c] : req' = [req EXCEPT ![c] = r]
    BY <1>1 DEF SendCmd
  <2>2. r \in Request
    BY TxPathAssumption
  <2>3. TypeOK'
    <3>1. client' \in [Links -> {"idle", "cmd", "slave", "wait"}]
      BY <1>0, <1>1 DEF SendCmd, TypeOK
    <3>2. req' \in [Links -> Request \cup {NoReq}]
      BY <1>0, <2>1, <2>2 DEF TypeOK
    <3>3. left' \in [Links -> Nat]
      <4>1. left \in [Links -> Nat] /\ left[c] > 0 /\ left' = [left EXCEPT ![c] = @ - 1]
        BY <1>0, <1>1 DEF SendCmd, TypeOK
      <4>2. QED  BY <4>1
    <3>4. QED  BY <1>0, <1>1, <3>1, <3>2, <3>3 DEF SendCmd, TypeOK
  <2>4. QED  BY <1>1, <2>3, Quiet DEF SendCmd, Marking, AtServer, OnLine
<1>2. ASSUME NEW c \in Links, TakeCmd(c)  PROVE PoolsInv'
  <2>1. 0 \in Ports
    BY TxPathAssumption DEF Ports
  <2>2. TypeOK'
    BY <1>0, <1>2, <2>1 DEF TakeCmd, TypeOK
  <2>3. QED  BY <1>2, <2>2, Quiet DEF TakeCmd, Marking, AtServer, OnLine
<1>3. CASE Pass
  <2>1. i' \in Links /\ spc' \in {"scan", "select"}
    BY <1>0, <1>3, NextClientType DEF Pass
  <2>2. TypeOK'
    BY <1>0, <1>3, <2>1 DEF Pass, TypeOK
  <2>3. QED  BY <1>3, <2>1, <2>2, Quiet DEF Pass, Marking, AtServer, OnLine
<1>4. CASE get_packet_from_client
  <2>1. 0 \in Ports
    BY TxPathAssumption DEF Ports
  <2>2. TypeOK'
    BY <1>0, <1>4, <2>1 DEF get_packet_from_client, TypeOK
  <2>3. QED  BY <1>4, <2>2, Quiet DEF get_packet_from_client, Marking, AtServer, OnLine
<1>5. CASE Skip
  <2>1. /\ i' \in Links /\ p' \in Ports /\ cur' \in Request \cup {NoReq}
        /\ spc' \in {"scan", "select", "commit"}
        /\ pendingCmd' \in [Links -> BOOLEAN] /\ enabled' \in [Links -> BOOLEAN]
    BY <1>0, <1>5, NextPortType DEF Skip
  <2>2. TypeOK'
    BY <1>0, <1>5, <2>1 DEF Skip, TypeOK
  <2>3. QED  BY <1>5, <2>1, <2>2, Quiet DEF Skip, Marking, AtServer, OnLine
<1>6. CASE Default
  <2>1. 0 \in Ports
    BY TxPathAssumption DEF Ports
  <2>2. TypeOK'
    BY <1>0, <1>6, <2>1 DEF Default, EnabledAgain, TypeOK
  <2>3. QED  BY <1>6, <2>2, Quiet DEF Default, Marking, AtServer, OnLine
<1>7. ASSUME NEW x \in Ports, NEW q \in Prios, ForwardArrives(x, q)  PROVE PoolsInv'
  <2>1. fwd' \in [Ports -> [Prios -> BOOLEAN]] /\ fwdLeft' \in 0 .. MaxForwards
    <3>1. fwd \in [Ports -> [Prios -> BOOLEAN]] /\ fwd' = [fwd EXCEPT ![x][q] = TRUE]
      BY <1>0, <1>7 DEF ForwardArrives, TypeOK
    <3>2. /\ fwdLeft \in 0 .. MaxForwards /\ MaxForwards \in Nat /\ fwdLeft > 0
          /\ fwdLeft' = fwdLeft - 1
      BY <1>0, <1>7, TxPathAssumption DEF ForwardArrives, TypeOK
    <3>3. fwd' \in [Ports -> [Prios -> BOOLEAN]]
      BY <3>1
    <3>4. QED  BY <3>2, <3>3
  <2>2. TypeOK'
    BY <1>0, <1>7, <2>1 DEF ForwardArrives, TypeOK
  <2>3. QED  BY <1>7, <2>2, Quiet DEF ForwardArrives, Marking, AtServer, OnLine
<1>8. QED  BY <1>1, <1>2, <1>3, <1>4, <1>5, <1>6, <1>7

\* A packet is added to a pool.
LEMMA CommitPools ==
  ASSUME PoolsInv, Commit
  PROVE  PoolsInv' /\ PacketAdded(p, cur.prio)
<1>0. TypeOK /\ pool \in PoolType /\ NumLinks \in Nat
  BY TxPathAssumption DEF PoolsInv, TypeOK, PoolType
<1>1. PICK x \in Ports, q \in Prios : x = p /\ q = cur.prio
  BY <1>0 DEF TypeOK, Request, NoReq, Prios
<1>2. /\ spc = "commit" /\ spc' = "mark" /\ p' = x /\ cur' = cur /\ line' = line
      /\ UNCHANGED <<clientVars, pendingCmd, enabled, i, p, cur, buf, line, fwdVars, tsVars>>
  BY <1>1 DEF Commit
<1>3. PICK t \in 0 .. 1 :
        pool' = [pool EXCEPT ![p][cur.prio] =
                   Append(@, [id |-> timestamp_id, stage |-> 0, tcount |-> t, sent |-> 0])]
  BY DEF Commit
<1>4. PICK e \in Packet :
        /\ e = [id |-> timestamp_id, stage |-> 0, tcount |-> t, sent |-> 0]
        /\ e.sent = 0 /\ e.stage = 0 /\ e.id = timestamp_id
  <2>1. timestamp_id \in 0 .. NumLinks
    BY <1>0 DEF TypeOK, Links, timestamp_id
  <2>2. PICK n \in 0 .. NumLinks : n = timestamp_id
    BY <2>1
  <2>3. [id |-> n, stage |-> 0, tcount |-> t, sent |-> 0] \in Packet
    BY DEF Packet
  <2>4. QED  BY <2>2, <2>3
<1>5. PICK s \in Seq(Packet) : s = pool[x][q]
  BY <1>0 DEF PoolType
<1>6. pool' = [pool EXCEPT ![x][q] = Append(s, e)]
  BY <1>1, <1>3, <1>4, <1>5
<1>7. /\ Append(s, e) \in Seq(Packet) /\ Append(s, e) # <<>> /\ Len(s) \in Nat
      /\ Len(Append(s, e)) = Len(s) + 1
      /\ \A k \in 1 .. Len(s) : Append(s, e)[k] = s[k]
      /\ Append(s, e)[Len(s) + 1] = e
  BY AppendProperties
<1>8. /\ pool' \in PoolType /\ pool'[x][q] = Append(s, e)
      /\ \A y \in Ports, r \in Prios : y # x \/ r # q => pool'[y][r] = pool[y][r]
  BY <1>0, <1>6, <1>7 DEF PoolType
<1>9. TypeOK'
  BY <1>0, <1>2, <1>8
  DEF TypeOK, PoolType, clientVars, fwdVars, tsVars
<1>10. \A y \in Ports : TsApart(y)'
  BY <1>2, SameTs DEF PoolsInv
<1>11. \A y \in Ports, r \in Prios : /\ InTs(y, r)' <=> InTs(y, r)
                                     /\ OnLine(y, r)' <=> OnLine(y, r)
                                     /\ ~AtServer(y, r) /\ ~AtServer(y, r)'
                                     /\ ~Marking(y, r) /\ (Marking(y, r)' <=> y = x /\ r = q)
  BY <1>1, <1>2, SameTs DEF OnLine, AtServer, Marking
<1>12. HeadInv(x, q) /\ RestInv(x, q)
  BY DEF PoolsInv
<1>13. \A k : Unmarked(x, q, k)' <=> k = Len(s) + 1
  BY <1>7, <1>8, <1>11 DEF Unmarked
<1>14. \A k : ~Unmarked(x, q, k)
  BY <1>11 DEF Unmarked
<1>15. HeadInv(x, q)'
  <2>1. CASE s = <<>>
    <3>1. pool'[x][q][1] = e /\ Unmarked(x, q, 1)'
      BY <1>7, <1>8, <1>13, <2>1
    <3>2. ~OnLine(x, q)' /\ ~InTs(x, q)'
      BY <1>5, <1>11, <1>12, <2>1 DEF HeadInv
    <3>3. New(x, q)'
      BY <1>4, <1>11, <3>1, <3>2 DEF New
    <3>4. QED  BY <1>7, <1>8, <3>3 DEF HeadInv
  <2>2. CASE s # <<>>
    <3>1. 1 \in 1 .. Len(s) /\ ~Unmarked(x, q, 1)'
      BY <1>7, <1>13, <2>2
    <3>2. pool'[x][q][1] = pool[x][q][1]
      BY <1>5, <1>7, <1>8, <3>1
    <3>3. New(x, q) \/ Out(x, q) \/ Due(x, q)
      BY <1>5, <1>12, <2>2 DEF HeadInv
    <3>4. New(x, q)' \/ Out(x, q)' \/ Due(x, q)'
      BY <1>11, <1>14, <3>1, <3>2, <3>3 DEF New, Out, Due, Clean
    <3>5. QED  BY <1>7, <1>8, <3>4 DEF HeadInv
  <2>3. QED  BY <2>1, <2>2
<1>16. RestInv(x, q)'
  <2>1. ASSUME NEW k \in 2 .. Len(s) + 1
        PROVE  /\ pool'[x][q][k].sent = 0
               /\ IF Unmarked(x, q, k)' THEN pool'[x][q][k].stage = 0
                  ELSE Clean(pool'[x][q][k])
    <3>1. CASE k = Len(s) + 1
      BY <1>4, <1>7, <1>8, <1>13, <3>1
    <3>2. CASE k \in 2 .. Len(s)
      <4>1. k \in 1 .. Len(s) /\ k # Len(s) + 1
        BY <1>7, <3>2
      <4>2. pool'[x][q][k] = pool[x][q][k]
        BY <1>5, <1>7, <1>8, <4>1
      <4>3. QED  BY <1>5, <1>12, <1>13, <1>14, <3>2, <4>1, <4>2 DEF RestInv
    <3>3. QED  BY <1>7, <3>1, <3>2
  <2>2. QED  BY <1>7, <1>8, <2>1 DEF RestInv, Clean
<1>17. ASSUME NEW y \in Ports, NEW r \in Prios, y # x \/ r # q
       PROVE  HeadInv(y, r)' /\ RestInv(y, r)'
  <2>1. HeadInv(y, r) /\ RestInv(y, r)
    BY DEF PoolsInv
  <2>2. QED  BY <1>8, <1>11, <1>17, <2>1, Frame
<1>18. PoolsInv'
  BY <1>9, <1>10, <1>15, <1>16, <1>17 DEF PoolsInv
<1>19. PacketAdded(p, cur.prio)
  BY <1>1, <1>4, <1>5, <1>6 DEF PacketAdded
<1>20. QED  BY <1>18, <1>19

\* The last packet, which is in stage 0 so far, is marked.
LEMMA MarkPools ==
  ASSUME PoolsInv, Mark
  PROVE  PoolsInv' /\ PacketsSame
<1>0. TypeOK /\ pool \in PoolType
  BY DEF PoolsInv, TypeOK, PoolType
<1>1. PICK x \in Ports, q \in Prios : x = p /\ q = cur.prio
  BY <1>0 DEF TypeOK, Request, NoReq, Prios
<1>2. /\ spc = "mark" /\ NextPort
      /\ UNCHANGED <<clientVars, buf, line, fwdVars, tsVars>>
  BY DEF Mark
<1>3. PICK s \in Seq(Packet) : s = pool[x][q]
  BY <1>0 DEF PoolType
<1>4. HeadInv(x, q) /\ RestInv(x, q) /\ Marking(x, q)
  BY <1>1, <1>2 DEF PoolsInv, Marking
<1>5. s # <<>> /\ Len(s) \in Nat
  BY <1>3, <1>4 DEF HeadInv
<1>6. Len(s) \in 1 .. Len(s)
  BY <1>5
<1>7. s[Len(s)] \in Packet
  BY <1>5, <1>6
<1>8. PICK e \in Packet : /\ e = Marked(s[Len(s)]) /\ Clean(e)
                         /\ e.sent = s[Len(s)].sent /\ e.id = s[Len(s)].id
  <2>1. PICK d \in Packet : d = s[Len(s)]
    BY <1>7
  <2>2. /\ Marked(d) \in Packet /\ Clean(Marked(d))
        /\ Marked(d).sent = d.sent /\ Marked(d).id = d.id
    BY MarkUpdate DEF Clean
  <2>3. QED  BY <2>1, <2>2
<1>9. PICK t \in Seq(Packet) : t = [s EXCEPT ![Len(s)] = e]
  BY <1>6, PacketUpdate
<1>10. /\ Len(t) = Len(s) /\ t[Len(s)] = e /\ t # <<>>
       /\ \A j \in 1 .. Len(s) : j # Len(s) => t[j] = s[j]
  BY <1>6, <1>9, PacketUpdate
<1>11. pool' = [pool EXCEPT ![x][q] = t]
  BY <1>1, <1>3, <1>8, <1>9 DEF Mark
<1>12. /\ pool' \in PoolType /\ pool'[x][q] = t
       /\ \A y \in Ports, r \in Prios : y # x \/ r # q => pool'[y][r] = pool[y][r]
  BY <1>0, <1>11 DEF PoolType
<1>13. /\ i' \in Links /\ p' \in Ports /\ cur' \in Request \cup {NoReq}
       /\ spc' \in {"scan", "select", "commit"}
       /\ pendingCmd' \in [Links -> BOOLEAN] /\ enabled' \in [Links -> BOOLEAN]
  BY <1>0, <1>2, NextPortType
<1>14. TypeOK'
  BY <1>0, <1>2, <1>12, <1>13 DEF TypeOK, PoolType, clientVars, fwdVars, tsVars
<1>15. \A y \in Ports : TsApart(y)'
  BY <1>2, SameTs DEF PoolsInv
<1>16. \A y \in Ports, r \in Prios :
         /\ InTs(y, r)' <=> InTs(y, r)
         /\ OnLine(y, r)' <=> OnLine(y, r)
         /\ ~AtServer(y, r) /\ ~AtServer(y, r)'
         /\ (Marking(y, r) <=> y = x /\ r = q) /\ ~Marking(y, r)'
  BY <1>1, <1>2, <1>13, SameTs DEF OnLine, AtServer, Marking
<1>17. \A k : ~Unmarked(x, q, k)' /\ (Unmarked(x, q, k) <=> k = Len(s))
  BY <1>3, <1>16 DEF Unmarked
<1>18. HeadInv(x, q)'
  <2>1. CASE Len(s) = 1
    <3>1. New(x, q)
      BY <1>3, <1>4, <1>5, <1>17, <2>1 DEF HeadInv, Out, Due
    <3>2. pool'[x][q][1] = e /\ e.sent = pool[x][q][1].sent
      BY <1>3, <1>8, <1>10, <1>12, <2>1
    <3>3. New(x, q)'
      BY <1>8, <1>16, <1>17, <3>1, <3>2 DEF New, Clean
    <3>4. QED  BY <1>10, <1>12, <3>3 DEF HeadInv
  <2>2. CASE Len(s) # 1
    <3>0. 1 \in 1 .. Len(s)
      BY <1>5, <1>6
    <3>1. 1 \in 1 .. Len(s) /\ ~Unmarked(x, q, 1)
      BY <1>17, <2>2, <3>0
    <3>2. pool'[x][q][1] = pool[x][q][1]
      BY <1>3, <1>10, <1>12, <2>2, <3>1
    <3>3. New(x, q) \/ Out(x, q) \/ Due(x, q)
      BY <1>3, <1>4, <1>5 DEF HeadInv
    <3>4. New(x, q)' \/ Out(x, q)' \/ Due(x, q)'
      BY <1>16, <1>17, <3>1, <3>2, <3>3 DEF New, Out, Due, Clean
    <3>5. QED  BY <1>10, <1>12, <3>4 DEF HeadInv
  <2>3. QED  BY <2>1, <2>2
<1>19. RestInv(x, q)'
  <2>1. ASSUME NEW k \in 2 .. Len(s)
        PROVE  pool'[x][q][k].sent = 0 /\ Clean(pool'[x][q][k])
    <3>0. k \in 1 .. Len(s) /\ k \in 2 .. Len(pool[x][q])
      BY <1>3, <1>5
    <3>1. pool[x][q][k].sent = 0 /\ (k = Len(s) \/ Clean(pool[x][q][k]))
      BY <1>4, <1>17, <3>0 DEF RestInv
    <3>2. CASE k = Len(s)
      BY <1>3, <1>8, <1>10, <1>12, <3>1, <3>2
    <3>3. CASE k # Len(s)
      BY <1>3, <1>10, <1>12, <3>0, <3>1, <3>3
    <3>4. QED  BY <3>2, <3>3
  <2>2. QED  BY <1>10, <1>12, <1>17, <2>1 DEF RestInv, Clean
<1>20. ASSUME NEW y \in Ports, NEW r \in Prios, y # x \/ r # q
       PROVE  HeadInv(y, r)' /\ RestInv(y, r)'
  <2>1. HeadInv(y, r) /\ RestInv(y, r)
    BY DEF PoolsInv
  <2>2. QED  BY <1>12, <1>16, <1>20, <2>1, Frame
<1>21. PoolsInv'
  BY <1>14, <1>15, <1>18, <1>19, <1>20 DEF PoolsInv
<1>22. \A k \in 1 .. Len(s) : t[k].id = s[k].id
  BY <1>8, <1>10
<1>23. PacketsSame
  BY <1>3, <1>10, <1>12, <1>22 DEF PacketsSame
<1>24. QED  BY <1>21, <1>23

\* The head of a pool is released.
LEMMA TailPool ==
  ASSUME NEW x \in Ports, NEW q \in Prios, NEW s \in Seq(Packet), s = pool[x][q], s # <<>>,
         pool'[x][q] = Tail(s), RestInv(x, q), ~Unmarked(x, q, 1),
         Marking(x, q)' <=> Marking(x, q),
         ~OnLine(x, q)', ~InTs(x, q)', ~AtServer(x, q)'
  PROVE  HeadInv(x, q)' /\ RestInv(x, q)'
<1>1. /\ Tail(s) \in Seq(Packet) /\ Len(s) \in Nat /\ Len(Tail(s)) = Len(s) - 1
      /\ \A k \in 1 .. Len(Tail(s)) : Tail(s)[k] = s[k + 1]
  BY HeadTailProperties
<1>2. \A k \in Nat : Unmarked(x, q, k)' <=> Unmarked(x, q, k + 1)
  BY <1>1 DEF Unmarked
<1>3. ASSUME NEW k \in 1 .. Len(Tail(s))
      PROVE  /\ pool'[x][q][k].sent = 0
             /\ IF Unmarked(x, q, k)' THEN pool'[x][q][k].stage = 0
                ELSE Clean(pool'[x][q][k])
  <2>1. k + 1 \in 2 .. Len(s) /\ k \in Nat
    BY <1>1
  <2>2. /\ s[k + 1].sent = 0
        /\ IF Unmarked(x, q, k + 1) THEN s[k + 1].stage = 0 ELSE Clean(s[k + 1])
    BY <2>1 DEF RestInv
  <2>3. pool'[x][q][k] = s[k + 1]
    BY <1>1
  <2>4. QED  BY <1>2, <2>1, <2>2, <2>3
<1>4. RestInv(x, q)'
  <2>1. \A k \in 2 .. Len(Tail(s)) : k \in 1 .. Len(Tail(s))
    BY <1>1
  <2>2. QED  BY <1>3, <2>1 DEF RestInv, Clean
<1>5. CASE Tail(s) = <<>>
  <2>0. Len(Tail(s)) = 0
    BY <1>5, EmptySeq
  <2>1. Len(s) = 1
    BY <1>1, <2>0
  <2>2. ~Marking(x, q)
    BY <2>1 DEF Unmarked
  <2>3. QED  BY <1>4, <1>5, <2>2 DEF HeadInv
<1>6. CASE Tail(s) # <<>>
  <2>1. 1 \in 1 .. Len(Tail(s))
    BY <1>1, <1>6
  <2>2. New(x, q)'
    BY <1>3, <2>1 DEF New, Clean
  <2>3. QED  BY <1>4, <1>6, <2>2 DEF HeadInv
<1>7. QED  BY <1>5, <1>6

\* The head of a pool is changed, the rest is not.
LEMMA HeadPool ==
  ASSUME NEW x \in Ports, NEW q \in Prios, NEW s \in Seq(Packet), s = pool[x][q], s # <<>>,
         NEW e \in Packet, pool'[x][q] = [s EXCEPT ![1] = e],
         RestInv(x, q), Marking(x, q)' <=> Marking(x, q)
  PROVE  /\ RestInv(x, q)' /\ pool'[x][q][1] = e /\ pool'[x][q] # <<>>
         /\ Len(pool'[x][q]) = Len(s)
         /\ Unmarked(x, q, 1)' <=> Unmarked(x, q, 1)
<1> DEFINE t == [s EXCEPT ![1] = e]
<1>1. 1 \in 1 .. Len(s) /\ Len(s) \in Nat
  OBVIOUS
<1>2. /\ Len(t) = Len(s) /\ t[1] = e /\ t # <<>>
      /\ \A j \in 1 .. Len(s) : j # 1 => t[j] = s[j]
  BY <1>1, PacketUpdate
<1> HIDE DEF t
<1>3. pool'[x][q] = t
  BY DEF t
<1>4. \A k : Unmarked(x, q, k)' <=> Unmarked(x, q, k)
  BY <1>2, <1>3 DEF Unmarked
<1>5. ASSUME NEW k \in 2 .. Len(t)
      PROVE  /\ pool'[x][q][k].sent = 0
             /\ IF Unmarked(x, q, k)' THEN pool'[x][q][k].stage = 0
                ELSE Clean(pool'[x][q][k])
  <2>1. k \in 2 .. Len(s) /\ k \in 1 .. Len(s) /\ k # 1
    BY <1>1, <1>2
  <2>2. /\ s[k].sent = 0
        /\ IF Unmarked(x, q, k) THEN s[k].stage = 0 ELSE Clean(s[k])
    BY <2>1 DEF RestInv
  <2>3. pool'[x][q][k] = s[k]
    BY <1>2, <1>3, <2>1
  <2>4. QED  BY <1>4, <2>2, <2>3
<1>6. RestInv(x, q)'
  BY <1>3, <1>5 DEF RestInv, Clean
<1>7. QED  BY <1>2, <1>3, <1>4, <1>6

\* The type of a port's time stamp queue.
LEMMA TsType ==
  ASSUME TypeOK, NEW x \in Ports
  PROVE  /\ fifo[x] \in [Places -> Prios] /\ rdIndex[x] \in Places /\ wrIndex[x] \in Places
         /\ TsQueue(x) \in Seq(Prios) /\ Len(TsQueue(x)) \in Nat
<1>1. fifo[x] \in [Places -> Prios] /\ rdIndex[x] \in Places /\ wrIndex[x] \in Places
  BY DEF TypeOK, Places, M
<1>2. TsQueue(x) \in Seq(Prios)
  BY <1>1, TsRing, RingFacts
<1>3. QED  BY <1>1, <1>2

\* The server takes the next packet whose time stamp is due.
LEMMA TsEntryPools ==
  ASSUME PoolsInv, get_ts_queue_entry
  PROVE  PoolsInv'
<1>0. TypeOK
  BY DEF PoolsInv
<1>1. PICK x \in Ports : x = p
  BY <1>0 DEF TypeOK
<1>2. /\ spc = "reply"
      /\ UNCHANGED <<clientVars, pendingCmd, enabled, i, cur, pool, line, fwdVars, fifo, wrIndex>>
  BY DEF get_ts_queue_entry
<1>3. CASE rdIndex[x] = wrIndex[x]
  <2>1. NextQueue /\ buf' = buf /\ rdIndex' = rdIndex
    BY <1>1, <1>3 DEF get_ts_queue_entry
  <2>2. p' \in Ports /\ spc' \in {"reply", "scan"}
    BY <1>0, <2>1, NextQueueType
  <2>3. TypeOK'
    BY <1>0, <1>2, <2>1, <2>2 DEF TypeOK, clientVars, fwdVars
  <2>4. QED  BY <1>2, <2>1, <2>2, <2>3, Quiet DEF tsVars, Marking, AtServer, OnLine
<1>4. CASE rdIndex[x] # wrIndex[x]
  <2>1. /\ spc' = "sending" /\ buf' = fifo[x][rdIndex[x]] /\ p' = p
        /\ rdIndex' = [rdIndex EXCEPT ![x] = NextIndex(@)]
    BY <1>1, <1>4 DEF get_ts_queue_entry
  <2>2. fifo[x] \in [Places -> Prios] /\ rdIndex[x] \in Places /\ wrIndex[x] \in Places
    BY <1>0, TsType
  <2>3. PICK q \in Prios : q = fifo[x][rdIndex[x]]
    BY <2>2
  <2>4. PICK a, b \in Seq(Prios) : a = TsQueue(x) /\ b = Ring(fifo[x], NextIndex(rdIndex[x]), wrIndex[x])
    <3>1. NextIndex(rdIndex[x]) \in Places
      BY <1>4, <2>2, RingPop
    <3>2. QED  BY <1>0, <2>2, <3>1, TsType, RingFacts
  <2>5. /\ NextIndex(rdIndex[x]) \in Places
        /\ Len(a) \in Nat /\ Len(a) > 0 /\ a[1] = q
        /\ Len(b) = Len(a) - 1
        /\ \A k \in 1 .. Len(a) - 1 : b[k] = a[k + 1]
    BY <1>4, <2>2, <2>3, <2>4, TsRing, RingPop
  <2>6. rdIndex \in [Ports -> Places]
    BY <1>0 DEF TypeOK, Places, M
  <2>7. TsQueue(x)' = b /\ \A y \in Ports : y # x => TsQueue(y)' = TsQueue(y)
    <3>1. rdIndex'[x] = NextIndex(rdIndex[x]) /\ \A y \in Ports : y # x => rdIndex'[y] = rdIndex[y]
      BY <2>1, <2>6
    <3>2. QED  BY <1>2, <2>4, <3>1 DEF TsQueue, Ring
  <2>8. TsApart(x) /\ \A k, l \in 1 .. Len(a) : a[k] = a[l] => k = l
    BY <2>4 DEF PoolsInv, TsApart
  <2>9. \A k, l \in 1 .. Len(b) : b[k] = b[l] => k = l
    <3>1. ASSUME NEW k \in 1 .. Len(b), NEW l \in 1 .. Len(b), b[k] = b[l]  PROVE k = l
      <4>1. /\ k + 1 \in 1 .. Len(a) /\ l + 1 \in 1 .. Len(a)
            /\ b[k] = a[k + 1] /\ b[l] = a[l + 1]
        BY <2>5
      <4>2. k + 1 = l + 1
        BY <2>8, <3>1, <4>1
      <4>3. QED  BY <4>2
    <3>2. QED  BY <3>1
  <2>10. \A y \in Ports : TsApart(y)'
    BY <2>7, <2>9 DEF PoolsInv, TsApart
  <2>11. \A k \in 1 .. Len(b) : b[k] # q
    <3>1. ASSUME NEW k \in 1 .. Len(b)  PROVE b[k] # q
      <4>1. k + 1 \in 1 .. Len(a) /\ 1 \in 1 .. Len(a) /\ b[k] = a[k + 1] /\ k + 1 # 1
        BY <2>5
      <4>2. QED  BY <2>5, <2>8, <4>1
    <3>2. QED  BY <3>1
  <2>12. InTs(x, q) /\ ~InTs(x, q)'
    BY <2>4, <2>5, <2>7, <2>11 DEF InTs
  <2>13. ASSUME NEW r \in Prios, r # q  PROVE InTs(x, r)' <=> InTs(x, r)
    <3>1. ASSUME NEW k \in 1 .. Len(a), a[k] = r  PROVE \E l \in 1 .. Len(b) : b[l] = r
      <4>1. k # 1
        BY <2>5, <2>13, <3>1
      <4>2. k - 1 \in 1 .. Len(b) /\ b[k - 1] = a[k]
        BY <2>5, <4>1
      <4>3. QED  BY <3>1, <4>2
    <3>2. ASSUME NEW k \in 1 .. Len(b), b[k] = r  PROVE \E l \in 1 .. Len(a) : a[l] = r
      <4>1. k + 1 \in 1 .. Len(a) /\ b[k] = a[k + 1]
        BY <2>5
      <4>2. QED  BY <3>2, <4>1
    <3>3. QED  BY <2>4, <2>7, <3>1, <3>2 DEF InTs
  <2>14. \A y \in Ports, r \in Prios : y # x => (InTs(y, r)' <=> InTs(y, r))
    BY <2>7 DEF InTs
  <2>15. \A y \in Ports, r \in Prios :
           /\ ~Marking(y, r) /\ ~Marking(y, r)' /\ ~AtServer(y, r)
           /\ OnLine(y, r)' <=> OnLine(y, r)
           /\ AtServer(y, r)' <=> y = x /\ r = q
    BY <1>1, <1>2, <2>1, <2>3 DEF Marking, AtServer, OnLine
  <2>16. TypeOK'
    <3>1. rdIndex' \in [Ports -> Places]
      BY <2>1, <2>5, <2>6
    <3>2. buf' \in Prios
      BY <2>1, <2>3
    <3>3. QED  BY <1>0, <1>2, <2>1, <3>1, <3>2 DEF TypeOK, clientVars, fwdVars, Places, M
  <2>17. HeadInv(x, q)' /\ RestInv(x, q)'
    <3>1. HeadInv(x, q) /\ RestInv(x, q)
      BY DEF PoolsInv
    <3>2. Due(x, q) /\ pool[x][q] # <<>>
      BY <2>12, <3>1 DEF HeadInv, New, Out
    <3>3. \A k : ~Unmarked(x, q, k) /\ ~Unmarked(x, q, k)'
      BY <2>15 DEF Unmarked
    <3>4. Due(x, q)'
      BY <1>2, <2>12, <2>15, <3>2, <3>3 DEF Due
    <3>5. RestInv(x, q)'
      BY <1>2, <3>1, <3>3 DEF RestInv, Clean
    <3>6. QED  BY <1>2, <3>2, <3>4, <3>5 DEF HeadInv
  <2>18. ASSUME NEW y \in Ports, NEW r \in Prios, y # x \/ r # q
         PROVE  HeadInv(y, r)' /\ RestInv(y, r)'
    <3>1. HeadInv(y, r) /\ RestInv(y, r)
      BY DEF PoolsInv
    <3>2. InTs(y, r)' <=> InTs(y, r)
      BY <2>13, <2>14, <2>18
    <3>3. QED  BY <1>2, <2>15, <2>18, <3>1, <3>2, Frame
  <2>19. QED  BY <2>10, <2>16, <2>17, <2>18 DEF PoolsInv
<1>5. QED  BY <1>3, <1>4

\* The time stamp is sent and the packet released.
LEMMA ReplyPools ==
  ASSUME PoolsInv, ReplySent
  PROVE  PoolsInv' /\ HeadReleased(p, buf) /\ Addressee \in Links
<1>0. TypeOK /\ pool \in PoolType
  BY DEF PoolsInv, TypeOK, PoolType
<1>1. PICK x \in Ports, q \in Prios : x = p /\ q = buf
  BY <1>0 DEF TypeOK
<1>2. /\ spc = "sending" /\ NextQueue
      /\ client' = [client EXCEPT ![Addressee] = "idle"]
      /\ pool' = [pool EXCEPT ![x][q] = Finished(pool[x][q])]
      /\ UNCHANGED <<req, left, pendingCmd, enabled, i, cur, buf, line, fwdVars, tsVars>>
  BY <1>1 DEF ReplySent
<1>3. PICK s \in Seq(Packet) : s = pool[x][q]
  BY <1>0 DEF PoolType
<1>4. HeadInv(x, q) /\ RestInv(x, q) /\ AtServer(x, q)
  BY <1>1, <1>2 DEF PoolsInv, AtServer
<1>5. s # <<>> /\ Due(x, q)
  BY <1>3, <1>4 DEF HeadInv, New, Out
<1>6. Finished(s) = Tail(s) /\ Tail(s) \in Seq(Packet)
  BY <1>3, <1>5 DEF Finished, Due
<1>7. pool' = [pool EXCEPT ![x][q] = Tail(s)]
  BY <1>2, <1>3, <1>6
<1>8. /\ pool' \in PoolType /\ pool'[x][q] = Tail(s)
      /\ \A y \in Ports, r \in Prios : y # x \/ r # q => pool'[y][r] = pool[y][r]
  BY <1>0, <1>6, <1>7 DEF PoolType
<1>9. p' \in Ports /\ spc' \in {"reply", "scan"}
  BY <1>0, <1>2, NextQueueType
<1>10. TypeOK'
  <2>1. client' \in [Links -> {"idle", "cmd", "slave", "wait"}]
    BY <1>0, <1>2 DEF TypeOK
  <2>2. QED  BY <1>0, <1>2, <1>8, <1>9, <2>1 DEF TypeOK, PoolType, fwdVars, tsVars
<1>11. \A y \in Ports : TsApart(y)'
  BY <1>2, SameTs DEF PoolsInv
<1>12. \A y \in Ports, r \in Prios :
         /\ ~Marking(y, r) /\ ~Marking(y, r)' /\ ~AtServer(y, r)'
         /\ OnLine(y, r)' <=> OnLine(y, r)
         /\ InTs(y, r)' <=> InTs(y, r)
         /\ AtServer(y, r) <=> y = x /\ r = q
  BY <1>1, <1>2, <1>9, SameTs DEF Marking, AtServer, OnLine
<1>13. HeadInv(x, q)' /\ RestInv(x, q)'
  <2>1. ~Unmarked(x, q, 1) /\ ~OnLine(x, q)' /\ ~InTs(x, q)'
    BY <1>4, <1>5, <1>12 DEF Due
  <2>2. QED  BY <1>3, <1>4, <1>5, <1>8, <1>12, <2>1, TailPool
<1>14. ASSUME NEW y \in Ports, NEW r \in Prios, y # x \/ r # q
       PROVE  HeadInv(y, r)' /\ RestInv(y, r)'
  <2>1. HeadInv(y, r) /\ RestInv(y, r)
    BY DEF PoolsInv
  <2>2. QED  BY <1>8, <1>12, <1>14, <2>1, Frame
<1>15. PoolsInv'
  BY <1>10, <1>11, <1>13, <1>14 DEF PoolsInv
<1>16. HeadReleased(p, buf)
  BY <1>1, <1>3, <1>5, <1>7 DEF Due, HeadReleased
<1>17. Addressee \in Links
  <2>1. s[1] \in Packet /\ s[1].id # 0 /\ Addressee = s[1].id
    BY <1>1, <1>3, <1>5 DEF Due, Addressee
  <2>2. QED  BY <2>1, TxPathAssumption DEF Packet, Links
<1>18. QED  BY <1>15, <1>16, <1>17

\* mii_tx_pins starts to transmit: only a packet that is not sent yet.
LEMMA StartPools ==
  ASSUME PoolsInv, NEW x \in Ports, NEW q \in Prios, line[x] = Idle,
         Source(x, q) # "none", StartTransmit(x, q)
  PROVE  PoolsInv' /\ PacketsSame
<1>0. TypeOK /\ pool \in PoolType /\ line \in [Ports -> {"none", "own", "fwd"} \X Prios]
  BY DEF PoolsInv, TypeOK, PoolType
<1>1. /\ line' = [line EXCEPT ![x] = <<Source(x, q), q>>]
      /\ UNCHANGED <<clientVars, serverVars, fwdVars, tsVars>>
  BY DEF StartTransmit
<1>2. Source(x, q) \in {"own", "fwd"}
  BY DEF Source
<1>3. \A y \in Ports : y # x => line'[y] = line[y]
  BY <1>0, <1>1
<1>4. line'[x] = <<Source(x, q), q>> /\ line' \in [Ports -> {"none", "own", "fwd"} \X Prios]
  BY <1>0, <1>1, <1>2
<1>5. \A y \in Ports, r \in Prios :
        /\ Marking(y, r)' <=> Marking(y, r)
        /\ AtServer(y, r)' <=> AtServer(y, r)
  BY <1>1 DEF serverVars, Marking, AtServer
<1>6. \A r \in Prios : ~OnLine(x, r)
  BY DEF OnLine, Idle
<1>7. CASE Source(x, q) = "fwd"
  <2>1. pool' = pool
    BY <1>7 DEF StartTransmit
  <2>2. TypeOK'
    BY <1>0, <1>1, <1>4, <2>1 DEF TypeOK, clientVars, serverVars, fwdVars, tsVars
  <2>3. \A y \in Ports, r \in Prios : OnLine(y, r)' <=> OnLine(y, r)
    BY <1>3, <1>4, <1>6, <1>7 DEF OnLine
  <2>4. PoolsInv'
    BY <1>1, <1>5, <2>1, <2>2, <2>3, Quiet
  <2>5. QED  BY <2>1, <2>4 DEF PacketsSame
<1>8. CASE Source(x, q) = "own"
  <2>1. PICK s \in Seq(Packet) : s = pool[x][q]
    BY <1>0 DEF PoolType
  <2>2. s # <<>> /\ s[1].stage = 1
    BY <1>8, <2>1 DEF Source
  <2>3. s[1] \in Packet /\ 1 \in 1 .. Len(s)
    BY <2>2
  <2>4. PICK e \in Packet : e = SentMore(s[1])
    BY <2>3, SentUpdate
  <2>5. e.sent = s[1].sent + 1 /\ e.id = s[1].id /\ e.tcount = s[1].tcount /\ e.stage = 1
    BY <2>2, <2>3, <2>4, SentUpdate
  <2>6. PICK t \in Seq(Packet) : t = [s EXCEPT ![1] = e]
    BY <2>3, PacketUpdate
  <2>7. pool' = [pool EXCEPT ![x][q] = t]
    BY <1>8, <2>1, <2>4, <2>6 DEF StartTransmit, SentMore
  <2>8. /\ pool' \in PoolType /\ pool'[x][q] = t
        /\ \A y \in Ports, r \in Prios : y # x \/ r # q => pool'[y][r] = pool[y][r]
    BY <1>0, <2>7 DEF PoolType
  <2>9. TypeOK'
    BY <1>0, <1>1, <1>4, <2>8 DEF TypeOK, PoolType, clientVars, serverVars, fwdVars, tsVars
  <2>10. \A y \in Ports : TsApart(y)'
    BY <1>1, SameTs DEF PoolsInv
  <2>11. \A y \in Ports, r \in Prios :
           /\ InTs(y, r)' <=> InTs(y, r)
           /\ OnLine(y, r)' <=> OnLine(y, r) \/ (y = x /\ r = q)
    BY <1>1, <1>3, <1>4, <1>6, <1>8, SameTs DEF OnLine
  <2>12. HeadInv(x, q) /\ RestInv(x, q)
    BY DEF PoolsInv
  <2>13. New(x, q)
    BY <1>6, <2>1, <2>2, <2>12 DEF HeadInv, Out, Due
  <2>14. /\ RestInv(x, q)' /\ pool'[x][q][1] = e /\ pool'[x][q] # <<>>
         /\ Len(pool'[x][q]) = Len(s)
         /\ Unmarked(x, q, 1)' <=> Unmarked(x, q, 1)
    BY <1>5, <2>1, <2>2, <2>6, <2>8, <2>12, HeadPool
  <2>15. HeadInv(x, q)'
    <3>1. e.sent = 1
      BY <2>1, <2>5, <2>13 DEF New
    <3>2. ~Unmarked(x, q, 1)' /\ Clean(e)
      BY <2>1, <2>2, <2>5, <2>13, <2>14 DEF New, Clean
    <3>3. OnLine(x, q)' /\ ~InTs(x, q)' /\ ~AtServer(x, q)'
      BY <1>5, <2>11, <2>13 DEF New
    <3>4. Out(x, q)'
      BY <2>14, <3>1, <3>2, <3>3 DEF Out, Clean
    <3>5. QED  BY <2>14, <3>4 DEF HeadInv
  <2>16. ASSUME NEW y \in Ports, NEW r \in Prios, y # x \/ r # q
         PROVE  HeadInv(y, r)' /\ RestInv(y, r)'
    <3>1. HeadInv(y, r) /\ RestInv(y, r)
      BY DEF PoolsInv
    <3>2. QED  BY <1>5, <2>8, <2>11, <2>16, <3>1, Frame
  <2>17. PoolsInv'
    BY <2>9, <2>10, <2>14, <2>15, <2>16 DEF PoolsInv
  <2>18. \A k \in 1 .. Len(s) : t[k].id = s[k].id
    BY <2>3, <2>5, <2>6, PacketUpdate
  <2>19. QED  BY <2>1, <2>8, <2>14, <2>17, <2>18 DEF PacketsSame
<1>9. QED  BY <1>2, <1>7, <1>8

\* A queue without an entry for q has room.
LEMMA TsRoom ==
  ASSUME TypeOK, NEW x \in Ports, NEW q \in Prios, TsApart(x), ~InTs(x, q)
  PROVE  Len(TsQueue(x)) \in 0 .. 1
<1>1. TsQueue(x) \in Seq(Prios) /\ Len(TsQueue(x)) \in Nat
  BY TsType
<1>2. ASSUME Len(TsQueue(x)) > 1  PROVE FALSE
  <2>1. 1 \in 1 .. Len(TsQueue(x)) /\ 2 \in 1 .. Len(TsQueue(x))
    BY <1>1, <1>2
  <2>2. TsQueue(x)[1] \in Prios /\ TsQueue(x)[2] \in Prios
    BY <1>1, <2>1
  <2>3. TsQueue(x)[1] # q /\ TsQueue(x)[2] # q
    BY <2>1 DEF InTs
  <2>4. TsQueue(x)[1] = TsQueue(x)[2]
    BY <2>2, <2>3 DEF Prios
  <2>5. QED  BY <2>1, <2>4 DEF TsApart
<1>3. Len(TsQueue(x)) \in Nat /\ ~(Len(TsQueue(x)) > 1)
  BY <1>1, <1>2
<1>4. QED  BY <1>3

\* mii_tx_pins is done with a packet: it queues it for its time stamp or
\* releases it, and in the queue there is room.
LEMMA EndPools ==
  ASSUME PoolsInv, NEW x \in Ports, EndTransmit(x)
  PROVE  /\ PoolsInv'
         /\ PacketsSame \/ \E q \in Prios : HeadReleased(x, q)
<1>0. TypeOK /\ pool \in PoolType /\ line \in [Ports -> {"none", "own", "fwd"} \X Prios]
  BY DEF PoolsInv, TypeOK, PoolType
<1>1. PICK q \in Prios : q = line[x][2] /\ line[x] = <<line[x][1], q>>
  BY <1>0
<1>2. /\ line' = [line EXCEPT ![x] = Idle]
      /\ UNCHANGED <<clientVars, serverVars, fwdLeft>>
  BY DEF EndTransmit
<1>3. /\ line'[x] = Idle /\ line' \in [Ports -> {"none", "own", "fwd"} \X Prios]
      /\ \A y \in Ports : y # x => line'[y] = line[y]
  BY <1>0, <1>2 DEF Idle, Prios
<1>4. \A y \in Ports, r \in Prios :
        /\ Marking(y, r)' <=> Marking(y, r)
        /\ AtServer(y, r)' <=> AtServer(y, r)
        /\ OnLine(y, r)' <=> OnLine(y, r) /\ y # x
  BY <1>2, <1>3 DEF serverVars, Marking, AtServer, OnLine, Idle
<1>5. CASE line[x][1] = "fwd"
  <2>1. fwd' = Forwarded(x, q) /\ pool' = pool /\ UNCHANGED tsVars
    BY <1>1, <1>5 DEF EndTransmit
  <2>2. fwd' \in [Ports -> [Prios -> BOOLEAN]]
    <3>1. fwd \in [Ports -> [Prios -> BOOLEAN]]
      BY <1>0 DEF TypeOK
    <3>2. QED  BY <2>1, <3>1 DEF Forwarded
  <2>3. TypeOK'
    BY <1>0, <1>2, <1>3, <2>1, <2>2 DEF TypeOK, clientVars, serverVars, tsVars
  <2>4. \A y \in Ports, r \in Prios : OnLine(y, r)' <=> OnLine(y, r)
    BY <1>4, <1>5 DEF OnLine
  <2>5. PoolsInv'
    BY <1>4, <2>1, <2>3, <2>4, Quiet
  <2>6. QED  BY <2>1, <2>5 DEF PacketsSame
<1>6. CASE line[x][1] = "own"
  <2>1. /\ fwd' = fwd
        /\ IF pool[x][q][1].tcount = 0 /\ pool[x][q][1].id # 0
           THEN /\ pool' = [pool EXCEPT ![x][q][1].stage = 2]
                /\ add_ts_queue_entry(x, q)
           ELSE /\ pool' = [pool EXCEPT ![x][q] = Finished(@)]
                /\ UNCHANGED tsVars
    BY <1>1, <1>6 DEF EndTransmit
  <2>2. PICK s \in Seq(Packet) : s = pool[x][q]
    BY <1>0 DEF PoolType
  <2>3. HeadInv(x, q) /\ RestInv(x, q) /\ OnLine(x, q) /\ TsApart(x)
    BY <1>1, <1>6 DEF PoolsInv, OnLine
  <2>4. s # <<>> /\ Out(x, q)
    BY <2>2, <2>3 DEF HeadInv, New, Due
  <2>5. ~Unmarked(x, q, 1) /\ s[1].tcount = 0 /\ s[1].sent = 1
    BY <2>2, <2>4 DEF Out, Clean
  <2>6. s[1] \in Packet /\ 1 \in 1 .. Len(s)
    BY <2>4
  <2>7. \A r \in Prios : ~OnLine(x, r)' /\ (OnLine(x, r) <=> r = q)
    BY <1>1, <1>4, <1>6 DEF OnLine
  <2>8. CASE s[1].id # 0
    <3>1. pool' = [pool EXCEPT ![x][q][1].stage = 2] /\ add_ts_queue_entry(x, q)
      BY <2>1, <2>2, <2>5, <2>8
    <3>2. PICK e \in Packet : e = Staged(s[1], 2)
      BY <2>6, StageUpdate
    <3>3. e.sent = 1 /\ e.id = s[1].id /\ e.tcount = 0 /\ e.stage = 2
      BY <2>5, <2>6, <3>2, StageUpdate
    <3>4. PICK t \in Seq(Packet) : t = [s EXCEPT ![1] = e]
      BY <2>6, PacketUpdate
    <3>5. pool' = [pool EXCEPT ![x][q] = t]
      BY <2>2, <3>1, <3>2, <3>4 DEF Staged
    <3>6. /\ pool' \in PoolType /\ pool'[x][q] = t
          /\ \A y \in Ports, r \in Prios : y # x \/ r # q => pool'[y][r] = pool[y][r]
      BY <1>0, <3>5 DEF PoolType
    <3>7. /\ RestInv(x, q)' /\ pool'[x][q][1] = e /\ pool'[x][q] # <<>>
          /\ Len(pool'[x][q]) = Len(s)
          /\ Unmarked(x, q, 1)' <=> Unmarked(x, q, 1)
      BY <1>4, <2>2, <2>3, <2>4, <3>4, <3>6, HeadPool
    <3>8. fifo[x] \in [Places -> Prios] /\ rdIndex[x] \in Places /\ wrIndex[x] \in Places
      BY <1>0, TsType
    <3>9. Len(TsQueue(x)) \in 0 .. 1
      BY <1>0, <2>3, <2>4, TsRoom DEF Out
    <3>10. PICK a : a = TsQueue(x)
      OBVIOUS
    <3> DEFINE g == [fifo[x] EXCEPT ![wrIndex[x]] = q]
               b == Ring(g, rdIndex[x], NextIndex(wrIndex[x]))
    <3>11. /\ NextIndex(wrIndex[x]) \in Places /\ Len(b) = Len(a) + 1
           /\ \A k \in 1 .. Len(a) : b[k] = a[k]
           /\ b[Len(a) + 1] = q
      <4>1. a = Ring(fifo[x], rdIndex[x], wrIndex[x])
        BY <3>10, TsRing
      <4>2. NextIndex(wrIndex[x]) \in Places
        BY <3>8, Entries DEF NextIndex, Places, M
      <4>3. Len(Ring(fifo[x], rdIndex[x], wrIndex[x])) \in 0 .. 1
        BY <3>9, <3>10, <4>1
      <4>4. g \in [Places -> Prios] /\ g[wrIndex[x]] = q
        BY <3>8
      <4>5. \A k \in Places : k # wrIndex[x] => g[k] = fifo[x][k]
        BY <3>8
      <4> HIDE DEF g
      <4>6. QED  BY <3>8, <4>1, <4>3, <4>4, <4>5, RingPush
    <3>12. /\ fifo \in [Ports -> [Places -> Prios]] /\ rdIndex \in [Ports -> Places]
           /\ wrIndex \in [Ports -> Places]
      BY <1>0 DEF TypeOK, Places, M
    <3>13. /\ fifo'[x] = g /\ wrIndex'[x] = NextIndex(wrIndex[x]) /\ rdIndex' = rdIndex
           /\ \A y \in Ports : y # x => fifo'[y] = fifo[y] /\ wrIndex'[y] = wrIndex[y]
      BY <3>1, <3>12 DEF add_ts_queue_entry
    <3>14. TsQueue(x)' = b /\ \A y \in Ports : y # x => TsQueue(y)' = TsQueue(y)
      BY <3>13 DEF TsQueue, Ring
    <3>15. PICK d : d = TsQueue(x)' /\ d = b
      BY <3>14
    <3> HIDE DEF b
    <3>16. /\ Len(a) \in 0 .. 1 /\ Len(d) = Len(a) + 1
           /\ \A k \in 1 .. Len(a) : d[k] = a[k]
           /\ d[Len(a) + 1] = q
      BY <3>9, <3>10, <3>11, <3>15
    <3>17. \A k \in 1 .. Len(a) : a[k] # q
      BY <2>4, <3>10 DEF Out, InTs
    <3>18. \A y \in Ports : TsApart(y)'
      <4>1. \A k, l \in 1 .. Len(a) : a[k] = a[l] => k = l
        BY <2>3, <3>10 DEF TsApart
      <4>2. \A k, l \in 1 .. Len(d) : d[k] = d[l] => k = l
        <5>1. \A k \in 1 .. Len(d) : k \in 1 .. Len(a) \/ k = Len(a) + 1
          BY <3>16
        <5>2. QED  BY <3>16, <3>17, <4>1, <5>1
      <4>3. TsApart(x)'
        BY <3>15, <4>2 DEF TsApart
      <4>4. QED  BY <3>14, <4>3 DEF PoolsInv, TsApart
    <3>19. \A r \in Prios : InTs(x, r)' <=> InTs(x, r) \/ r = q
      <4>1. \A k \in 1 .. Len(d) : k \in 1 .. Len(a) \/ k = Len(a) + 1
        BY <3>16
      <4>2. \A k \in 1 .. Len(a) : k \in 1 .. Len(d)
        BY <3>16
      <4>3. Len(a) + 1 \in 1 .. Len(d)
        BY <3>16
      <4>4. QED  BY <3>10, <3>15, <3>16, <4>1, <4>2, <4>3 DEF InTs
    <3>20. \A y \in Ports, r \in Prios : y # x => (InTs(y, r)' <=> InTs(y, r))
      BY <3>14 DEF InTs
    <3>21. HeadInv(x, q)'
      <4>1. Due(x, q)'
        BY <1>4, <2>4, <2>5, <2>7, <2>8, <3>3, <3>7, <3>19 DEF Due, Out
      <4>2. QED  BY <3>7, <4>1 DEF HeadInv
    <3>22. ASSUME NEW y \in Ports, NEW r \in Prios, y # x \/ r # q
           PROVE  HeadInv(y, r)' /\ RestInv(y, r)'
      <4>1. HeadInv(y, r) /\ RestInv(y, r)
        BY DEF PoolsInv
      <4>2. (InTs(y, r)' <=> InTs(y, r)) /\ (OnLine(y, r)' <=> OnLine(y, r))
        BY <1>4, <2>7, <3>19, <3>20, <3>22
      <4>3. QED  BY <1>4, <3>6, <3>22, <4>1, <4>2, Frame
    <3>23. TypeOK'
      <4>1. /\ fifo' \in [Ports -> [Places -> Prios]] /\ wrIndex' \in [Ports -> Places]
        BY <3>1, <3>8, <3>11, <3>12 DEF add_ts_queue_entry
      <4>2. QED
        BY <1>0, <1>2, <1>3, <2>1, <3>6, <3>13, <4>1
        DEF TypeOK, PoolType, clientVars, serverVars, Places, M
    <3>24. PoolsInv'
      BY <3>7, <3>18, <3>21, <3>22, <3>23 DEF PoolsInv
    <3>25. \A k \in 1 .. Len(s) : t[k].id = s[k].id
      BY <2>6, <3>3, <3>4, PacketUpdate
    <3>26. PacketsSame
      BY <2>2, <3>6, <3>7, <3>25 DEF PacketsSame
    <3>27. QED  BY <3>24, <3>26
  <2>9. CASE s[1].id = 0
    <3>1. pool' = [pool EXCEPT ![x][q] = Finished(s)] /\ UNCHANGED tsVars
      BY <2>1, <2>2, <2>9
    <3>2. Finished(s) = Tail(s) /\ Tail(s) \in Seq(Packet)
      BY <2>4, <2>5 DEF Finished
    <3>3. pool' = [pool EXCEPT ![x][q] = Tail(s)]
      BY <3>1, <3>2
    <3>4. /\ pool' \in PoolType /\ pool'[x][q] = Tail(s)
          /\ \A y \in Ports, r \in Prios : y # x \/ r # q => pool'[y][r] = pool[y][r]
      BY <1>0, <3>2, <3>3 DEF PoolType
    <3>5. \A y \in Ports : TsApart(y)'
      BY <3>1, SameTs DEF PoolsInv
    <3>6. \A y \in Ports, r \in Prios : InTs(y, r)' <=> InTs(y, r)
      BY <3>1, SameTs
    <3>7. HeadInv(x, q)' /\ RestInv(x, q)'
      <4>1. ~OnLine(x, q)' /\ ~InTs(x, q)' /\ ~AtServer(x, q)'
        BY <1>4, <2>4, <2>7, <3>6 DEF Out
      <4>2. QED  BY <1>4, <2>2, <2>3, <2>4, <2>5, <3>4, <4>1, TailPool
    <3>8. ASSUME NEW y \in Ports, NEW r \in Prios, y # x \/ r # q
          PROVE  HeadInv(y, r)' /\ RestInv(y, r)'
      <4>1. HeadInv(y, r) /\ RestInv(y, r)
        BY DEF PoolsInv
      <4>2. OnLine(y, r)' <=> OnLine(y, r)
        BY <1>4, <2>7, <3>8
      <4>3. QED  BY <1>4, <3>4, <3>6, <3>8, <4>1, <4>2, Frame
    <3>9. TypeOK'
      BY <1>0, <1>2, <1>3, <2>1, <3>1, <3>4
      DEF TypeOK, PoolType, clientVars, serverVars, tsVars
    <3>10. PoolsInv'
      BY <3>5, <3>7, <3>8, <3>9 DEF PoolsInv
    <3>11. HeadReleased(x, q)
      BY <2>2, <2>4, <2>5, <3>3 DEF HeadReleased
    <3>12. QED  BY <3>10, <3>11
  <2>10. QED  BY <2>8, <2>9
<1>7. QED  BY <1>5, <1>6 DEF EndTransmit

-----------------------------------------------------------------------------
(* The theorems about packets *)

\* What a step does to the pools.
LEMMA StepPools ==
  ASSUME PoolsInv, Next
  PROVE  /\ PoolsInv'
         /\ \/ PacketsSame
            \/ Commit /\ PacketAdded(p, cur.prio)
            \/ ReplySent /\ HeadReleased(p, buf)
            \/ \E x \in Ports, q \in Prios : EndTransmit(x) /\ HeadReleased(x, q)
<1>1. ASSUME \/ \E c \in Links : SendCmd(c) \/ TakeCmd(c)
             \/ Pass \/ get_packet_from_client \/ Skip \/ Default
             \/ \E x \in Ports, q \in Prios : ForwardArrives(x, q)
      PROVE  PoolsInv' /\ PacketsSame
  <2>1. PoolsInv'
    BY <1>1, QuietSteps
  <2>2. pool' = pool
    BY <1>1 DEF SendCmd, TakeCmd, Pass, get_packet_from_client, Skip, Default, ForwardArrives
  <2>3. QED  BY <2>1, <2>2 DEF PacketsSame
<1>2. CASE Commit
  BY <1>2, CommitPools
<1>3. CASE Mark
  BY <1>3, MarkPools
<1>4. CASE get_ts_queue_entry
  <2>1. PoolsInv'
    BY <1>4, TsEntryPools
  <2>2. pool' = pool
    BY <1>4 DEF get_ts_queue_entry
  <2>3. QED  BY <2>1, <2>2 DEF PacketsSame
<1>5. CASE ReplySent
  BY <1>5, ReplyPools
<1>6. ASSUME NEW x \in Ports, StartHp(x) \/ StartLp(x)  PROVE PoolsInv' /\ PacketsSame
  <2>1. "hp" \in Prios /\ "lp" \in Prios
    BY DEF Prios
  <2>2. QED  BY <1>6, <2>1, StartPools DEF StartHp, StartLp
<1>7. ASSUME NEW x \in Ports, EndTransmit(x)
      PROVE  /\ PoolsInv'
             /\ PacketsSame \/ \E q \in Prios : EndTransmit(x) /\ HeadReleased(x, q)
  BY <1>7, EndPools
<1>8. QED  BY <1>1, <1>2, <1>3, <1>4, <1>5, <1>6, <1>7 DEF Next, Server

\* A step that changes nothing keeps PoolsInv.
LEMMA StutterPools ==
  ASSUME PoolsInv, UNCHANGED vars
  PROVE  PoolsInv'
<1>1. TypeOK' /\ UNCHANGED <<pool, tsVars>>
  BY DEF PoolsInv, TypeOK, vars, clientVars, serverVars, fwdVars, tsVars
<1>2. QED  BY <1>1, Quiet DEF vars, serverVars, Marking, AtServer, OnLine

\* What the pools, the time stamp queues, the server and the pins know of a
\* packet agrees in every state, for every number of ports and clients.
THEOREM SpecPoolsInv == Spec => []PoolsInv
<1>1. Init => PoolsInv
  BY PoolsInit
<1>2. PoolsInv /\ [Next]_vars => PoolsInv'
  BY StepPools, StutterPools
<1>3. QED  BY <1>1, <1>2, PTL DEF Spec

\* The indices, the fields of packets and the states of clients and server
\* stay in their ranges.
THEOREM TxPathTypes == Spec => []TypeOK
<1>1. PoolsInv => TypeOK
  BY DEF PoolsInv
<1>2. QED  BY <1>1, SpecPoolsInv, PTL

\* A packet that is being dealt with is in one place: the line, the time
\* stamp queue or the server, for any number of ports and packets and
\* whatever the clients ask for.
THEOREM TxPathOnePlaceEach == Spec => []OnePlaceEach
<1>1. ASSUME PoolsInv  PROVE OnePlaceEach
  <2>1. ASSUME NEW x \in Ports, NEW q \in Prios
        PROVE  Cardinality(Uses(x, q)) =
                 IF pool[x][q] # <<>> /\ pool[x][q][1].sent > 0 THEN 1 ELSE 0
    <3>0. HeadInv(x, q) /\ TsApart(x)
      BY <1>1 DEF PoolsInv
    <3> DEFINE K == {k \in 1 .. Len(TsQueue(x)) : TsQueue(x)[k] = q}
               Q == {<<"queue", k>> : k \in K}
               L == IF OnLine(x, q) THEN {<<"line", 0>>} ELSE {}
               A == IF AtServer(x, q) THEN {<<"server", 0>>} ELSE {}
    <3>1. Uses(x, q) = Q \cup L \cup A
      BY DEF Uses, OnLine, AtServer
    <3>2. K = {} <=> ~InTs(x, q)
      BY DEF InTs
    <3>3. Cardinality({}) = 0 /\ \A e : Cardinality({e}) = 1
      BY FS_EmptySet, FS_Singleton
    <3>4. ASSUME ~InTs(x, q), ~OnLine(x, q), ~AtServer(x, q)
          PROVE  Cardinality(Uses(x, q)) = 0
      <4>1. Uses(x, q) = {}
        BY <3>1, <3>2, <3>4
      <4>2. QED  BY <3>3, <4>1
    <3>5. CASE pool[x][q] = <<>>
      BY <3>0, <3>4, <3>5 DEF HeadInv
    <3>6. CASE pool[x][q] # <<>> /\ New(x, q)
      <4>1. ~(pool[x][q][1].sent > 0)
        BY <3>6 DEF New
      <4>2. QED  BY <3>4, <3>6, <4>1 DEF New
    <3>7. CASE pool[x][q] # <<>> /\ Out(x, q)
      <4>1. Uses(x, q) = {<<"line", 0>>}
        BY <3>1, <3>2, <3>7 DEF Out
      <4>2. pool[x][q][1].sent > 0
        BY <3>7 DEF Out
      <4>3. QED  BY <3>3, <3>7, <4>1, <4>2
    <3>8. CASE pool[x][q] # <<>> /\ Due(x, q)
      <4>1. pool[x][q][1].sent > 0
        BY <3>8 DEF Due
      <4>2. CASE AtServer(x, q)
        <5>1. Uses(x, q) = {<<"server", 0>>}
          BY <3>1, <3>2, <3>8, <4>2 DEF Due
        <5>2. QED  BY <3>3, <3>8, <4>1, <5>1
      <4>3. CASE ~AtServer(x, q)
        <5>1. InTs(x, q) /\ ~OnLine(x, q)
          BY <3>8, <4>3 DEF Due
        <5>2. PICK k \in K : TRUE
          BY <3>2, <5>1
        <5>3. K = {k}
          BY <3>0 DEF TsApart
        <5> HIDE DEF K
        <5>4. Uses(x, q) = {<<"queue", k>>}
          BY <3>1, <4>3, <5>1, <5>3
        <5>5. QED  BY <3>3, <3>8, <4>1, <5>4
      <4>4. QED  BY <4>2, <4>3
    <3>9. QED  BY <3>0, <3>5, <3>6, <3>7, <3>8 DEF HeadInv
  <2>2. QED  BY <2>1 DEF OnePlaceEach
<1>2. QED  BY <1>1, SpecPoolsInv, PTL

\* The packet that a step changes the pools by is the head, and it was sent.
LEMMA ReleasedSent ==
  ASSUME PoolsInv, NEW x \in Ports, NEW q \in Prios, HeadReleased(x, q),
         NEW y \in Ports, NEW r \in Prios, Len(pool'[y][r]) < Len(pool[y][r])
  PROVE  pool[y][r][1].sent = 1
<1>0. pool \in PoolType
  BY DEF PoolsInv, TypeOK, PoolType
<1>1. CASE y = x /\ r = q
  BY <1>1 DEF HeadReleased
<1>2. CASE y # x \/ r # q
  <2>1. pool'[y][r] = pool[y][r]
    BY <1>0, <1>2 DEF HeadReleased, PoolType
  <2>2. Len(pool[y][r]) \in Nat
    BY <1>0 DEF PoolType
  <2>3. QED  BY <2>1, <2>2
<1>3. QED  BY <1>1, <1>2

\* Each packet is transmitted exactly once before it is released.
THEOREM TxPathSentOnce == Spec => SentOnce
<1> DEFINE A == \A x \in Ports, q \in Prios :
                  Len(pool'[x][q]) < Len(pool[x][q]) => pool[x][q][1].sent = 1
<1>1. ASSUME PoolsInv, Next  PROVE A
  <2> SUFFICES ASSUME NEW y \in Ports, NEW r \in Prios,
                      Len(pool'[y][r]) < Len(pool[y][r])
               PROVE  pool[y][r][1].sent = 1
    OBVIOUS
  <2>0. pool \in PoolType /\ p \in Ports /\ buf \in Prios /\ cur.prio \in Prios
    BY <1>1 DEF PoolsInv, TypeOK, PoolType, Request, NoReq, Prios
  <2>1. Len(pool[y][r]) \in Nat
    BY <2>0 DEF PoolType
  <2>2. CASE PacketsSame
    BY <2>1, <2>2 DEF PacketsSame
  <2>3. CASE PacketAdded(p, cur.prio)
    <3>1. PICK x \in Ports, q \in Prios : x = p /\ q = cur.prio
      BY <2>0
    <3>2. PICK e \in Packet : pool' = [pool EXCEPT ![x][q] = Append(@, e)]
      BY <2>3, <3>1 DEF PacketAdded
    <3>3. pool[y][r] \in Seq(Packet)
      BY <2>0 DEF PoolType
    <3>4. pool'[y][r] = pool[y][r] \/ pool'[y][r] = Append(pool[y][r], e)
      BY <2>0, <3>2 DEF PoolType
    <3>5. Len(Append(pool[y][r], e)) = Len(pool[y][r]) + 1
      BY <3>3, AppendProperties
    <3>6. QED  BY <2>1, <3>4, <3>5
  <2>4. ASSUME NEW x \in Ports, NEW q \in Prios, HeadReleased(x, q)
        PROVE  pool[y][r][1].sent = 1
    BY <1>1, <2>4, ReleasedSent
  <2>5. QED  BY <1>1, <2>0, <2>2, <2>3, <2>4, StepPools
<1>2. PoolsInv /\ [Next]_vars => [A]_vars
  BY <1>1
<1>3. QED  BY <1>2, SpecPoolsInv, PTL DEF Spec, SentOnce

-----------------------------------------------------------------------------
(* Clients and their time stamps *)

\* No request is under way at first.
LEMMA RequestInit ==
  ASSUME Init
  PROVE  RequestInv /\ WaitInv
BY DEF Init, RequestInv, WaitInv, Timed

\* NextPort ends the request or goes on with it.
LEMMA NextPortCases ==
  ASSUME TypeOK, NextPort
  PROVE  \/ /\ p < NumPorts - 1 /\ p' = p + 1 /\ spc' = "commit"
            /\ UNCHANGED <<pendingCmd, i, cur>>
         \/ spc' \in {"scan", "select"} /\ pendingCmd' = [pendingCmd EXCEPT ![i] = FALSE]
BY DEF NextPort, NextClient

\* Every step keeps the agreement of a client, its request and the server.
LEMMA RequestStep ==
  ASSUME TypeOK, RequestInv, Next
  PROVE  RequestInv'
<1>0. /\ client \in [Links -> {"idle", "cmd", "slave", "wait"}]
      /\ req \in [Links -> Request \cup {NoReq}]
      /\ pendingCmd \in [Links -> BOOLEAN] /\ i \in Links
  BY DEF TypeOK
<1> USE DEF serverVars, clientVars
<1>1. ASSUME NEW c \in Links, SendCmd(c)  PROVE RequestInv'
  <2>1. PICK r \in Requests[c] : req' = [req EXCEPT ![c] = r]
    BY <1>1 DEF SendCmd
  <2>2. QED  BY <1>0, <1>1, <2>1 DEF SendCmd, RequestInv
<1>2. ASSUME NEW c \in Links, TakeCmd(c)  PROVE RequestInv'
  <2>1. client[c] = "cmd"
    BY <1>2 DEF TakeCmd, Ready
  <2>2. QED  BY <1>0, <1>2, <2>1 DEF TakeCmd, RequestInv
<1>3. CASE Pass
  <2>1. spc' \in {"scan", "select"}
    BY <1>3 DEF Pass, NextClient
  <2>2. QED  BY <1>0, <1>3, <2>1 DEF Pass, RequestInv
<1>4. CASE get_packet_from_client
  BY <1>0, <1>4 DEF get_packet_from_client, RequestInv
<1>5. CASE Commit
  BY <1>0, <1>5 DEF Commit, RequestInv
<1>6. CASE Skip \/ Mark
  <2>1. spc \in {"commit", "mark"} /\ NextPort /\ UNCHANGED <<client, req>>
    BY <1>6 DEF Skip, Mark
  <2>2. CASE spc' = "commit" /\ UNCHANGED <<pendingCmd, i, cur>>
    BY <1>0, <2>1, <2>2 DEF RequestInv
  <2>3. CASE spc' \in {"scan", "select"} /\ pendingCmd' = [pendingCmd EXCEPT ![i] = FALSE]
    BY <1>0, <2>1, <2>3 DEF RequestInv
  <2>4. QED  BY <2>1, <2>2, <2>3, NextPortCases
<1>7. CASE Default
  BY <1>0, <1>7 DEF Default, RequestInv
<1>8. CASE get_ts_queue_entry
  <2>1. spc' \in {"reply", "scan", "sending"} /\ spc = "reply"
    BY <1>8 DEF get_ts_queue_entry, NextQueue
  <2>2. QED  BY <1>0, <1>8, <2>1 DEF get_ts_queue_entry, RequestInv
<1>9. CASE ReplySent
  <2>1. spc' \in {"reply", "scan"} /\ spc = "sending"
    BY <1>9 DEF ReplySent, NextQueue
  <2>2. client' = [client EXCEPT ![Addressee] = "idle"] /\ client[Addressee] = "wait"
    BY <1>9 DEF ReplySent
  <2>3. QED  BY <1>0, <1>9, <2>1, <2>2 DEF ReplySent, RequestInv
<1>10. ASSUME UNCHANGED <<clientVars, serverVars>>  PROVE RequestInv'
  BY <1>10 DEF RequestInv
<1>11. ASSUME NEW x \in Ports, StartHp(x) \/ StartLp(x) \/ EndTransmit(x)  PROVE RequestInv'
  BY <1>10, <1>11 DEF StartHp, StartLp, StartTransmit, EndTransmit
<1>12. ASSUME NEW x \in Ports, NEW q \in Prios, ForwardArrives(x, q)  PROVE RequestInv'
  BY <1>10, <1>12 DEF ForwardArrives
<1>13. QED
  BY <1>1, <1>2, <1>3, <1>4, <1>5, <1>6, <1>7, <1>8, <1>9, <1>11, <1>12 DEF Next, Server

\* Where a packet was before a step that adds none.
Earlier(x, q, d) ==
  \A c \in Links, y \in Ports, r \in Prios, k \in Nat :
    Timed(y, r, k, c)' => Timed(y, r, IF y = x /\ r = q THEN k + d ELSE k, c)

\* If no packet moves, every timed packet was where it is.
LEMMA EarlierSame ==
  ASSUME PacketsSame, NEW x \in Ports, NEW q \in Prios
  PROVE  Earlier(x, q, 0)
BY DEF PacketsSame, Earlier, Timed

\* If a head is released, every timed packet left in that pool was one further back.
LEMMA EarlierReleased ==
  ASSUME pool \in PoolType, NEW x \in Ports, NEW q \in Prios, HeadReleased(x, q)
  PROVE  Earlier(x, q, 1)
<1>1. pool[x][q] \in Seq(Packet) /\ pool[x][q] # <<>>
  BY DEF HeadReleased, PoolType
<1>2. /\ pool'[x][q] = Tail(pool[x][q])
      /\ \A y \in Ports, r \in Prios : y # x \/ r # q => pool'[y][r] = pool[y][r]
  BY DEF HeadReleased, PoolType
<1>3. /\ Len(pool[x][q]) \in Nat /\ Len(Tail(pool[x][q])) = Len(pool[x][q]) - 1
      /\ \A k \in 1 .. Len(Tail(pool[x][q])) : Tail(pool[x][q])[k] = pool[x][q][k + 1]
  BY <1>1, HeadTailProperties
<1>4. ASSUME NEW c \in Links, NEW y \in Ports, NEW r \in Prios, NEW k \in Nat,
             Timed(y, r, k, c)'
      PROVE  Timed(y, r, IF y = x /\ r = q THEN k + 1 ELSE k, c)
  <2>1. CASE y = x /\ r = q
    <3>1. k \in 1 .. Len(Tail(pool[x][q])) /\ Tail(pool[x][q])[k].id = c
      BY <1>2, <1>4, <2>1 DEF Timed
    <3>2. k + 1 \in 1 .. Len(pool[x][q]) /\ pool[x][q][k + 1].id = c
      BY <1>3, <3>1
    <3>3. QED  BY <2>1, <3>2 DEF Timed
  <2>2. CASE y # x \/ r # q
    BY <1>2, <1>4, <2>2 DEF Timed
  <2>3. QED  BY <2>1, <2>2
<1>5. QED  BY <1>4 DEF Earlier

\* A step that adds no packet, after which the clients still wait.
LEMMA WaitKept ==
  ASSUME WaitInv, NEW x \in Ports, NEW q \in Prios, NEW d \in Nat, Earlier(x, q, d),
         \A c \in Links, y \in Ports, r \in Prios, k \in Nat :
           Timed(y, r, k, c)' => client'[c] = "wait" /\ ~(ToCommit' /\ cur'.timed /\ i' = c)
  PROVE  WaitInv'
<1>1. ASSUME NEW c \in Links, NEW a \in Ports, NEW b \in Ports, NEW r \in Prios,
             NEW t \in Prios, NEW k \in Nat, NEW l \in Nat,
             Timed(a, r, k, c)', Timed(b, t, l, c)'
      PROVE  a = b /\ r = t /\ k = l
  <2> DEFINE m == IF a = x /\ r = q THEN k + d ELSE k
             n == IF b = x /\ t = q THEN l + d ELSE l
  <2>1. Timed(a, r, m, c) /\ m \in Nat
    BY <1>1 DEF Earlier
  <2>2. Timed(b, t, n, c) /\ n \in Nat
    BY <1>1 DEF Earlier
  <2>3. a = b /\ r = t /\ m = n
    <3> HIDE DEF m, n
    <3>1. QED  BY <2>1, <2>2 DEF WaitInv
  <2>4. QED  BY <2>3
<1>2. QED  BY <1>1 DEF WaitInv

\* Every step keeps the owners of timed packets waiting, unless one of them is
\* a broadcast.
LEMMA WaitStep ==
  ASSUME TimedToOne, PoolsInv, RequestInv, WaitInv, Next
  PROVE  WaitInv'
<1>0. /\ client \in [Links -> {"idle", "cmd", "slave", "wait"}]
      /\ i \in Links /\ p \in Ports /\ buf \in Prios /\ cur.prio \in Prios
      /\ pool \in PoolType /\ TypeOK
      /\ p \in 0 .. NumPorts - 1 /\ NumPorts \in Nat
  BY TxPathAssumption DEF PoolsInv, TypeOK, PoolType, Request, NoReq, Prios, Ports
<1>1. ASSUME NEW c \in Links, NEW y \in Ports, NEW r \in Prios, NEW k \in Nat,
             Timed(y, r, k, c)
      PROVE  client[c] = "wait" /\ ~(ToCommit /\ cur.timed /\ i = c)
  BY <1>1 DEF WaitInv
<1>2. CASE Commit
  <2>1. PICK x \in Ports, q \in Prios : x = p /\ q = cur.prio
    BY <1>0
  <2>2. PICK e \in Packet :
          e.id = timestamp_id /\ pool' = [pool EXCEPT ![x][q] = Append(@, e)]
    BY <1>2, <2>1, CommitPools DEF PacketAdded
  <2>3. PICK s \in Seq(Packet) : s = pool[x][q]
    BY <1>0 DEF PoolType
  <2>4. /\ pool'[x][q] = Append(s, e)
        /\ \A y \in Ports, r \in Prios : y # x \/ r # q => pool'[y][r] = pool[y][r]
    BY <1>0, <2>2, <2>3 DEF PoolType
  <2>5. /\ Len(s) \in Nat /\ Len(Append(s, e)) = Len(s) + 1
        /\ \A k \in 1 .. Len(s) : Append(s, e)[k] = s[k]
        /\ Append(s, e)[Len(s) + 1] = e
    BY AppendProperties
  <2>6. /\ client' = client /\ spc' = "mark" /\ spc = "commit"
        /\ cur.dst \in {p, ETH_BROADCAST}
    BY <1>2 DEF Commit, clientVars
  \* A packet with client c's number is an earlier one, or the new one.
  <2>7. ASSUME NEW c \in Links, NEW y \in Ports, NEW r \in Prios, NEW k \in Nat,
               Timed(y, r, k, c)'
        PROVE  \/ Timed(y, r, k, c)
               \/ y = x /\ r = q /\ k = Len(s) + 1 /\ c = timestamp_id
    <3>1. CASE y = x /\ r = q
      <4>1. k \in 1 .. Len(s) + 1 /\ Append(s, e)[k].id = c
        BY <2>4, <2>5, <2>7, <3>1 DEF Timed
      <4>2. CASE k = Len(s) + 1
        BY <2>2, <2>5, <3>1, <4>1, <4>2
      <4>3. CASE k \in 1 .. Len(s)
        BY <2>3, <2>5, <3>1, <4>1, <4>3 DEF Timed
      <4>4. QED  BY <2>5, <4>1, <4>2, <4>3
    <3>2. CASE y # x \/ r # q
      BY <2>4, <2>7, <3>2 DEF Timed
    <3>3. QED  BY <3>1, <3>2
  \* The new one is for a client that waits, and has no other.
  <2>8. ASSUME NEW c \in Links, c = timestamp_id
        PROVE  /\ client[c] = "wait"
               /\ \A y \in Ports, r \in Prios, k \in Nat : ~Timed(y, r, k, c)
    <3>1. 0 \notin Links
      BY TxPathAssumption DEF Links
    <3>2. cur.timed /\ c = i
      BY <2>8, <3>1 DEF timestamp_id
    <3>3. client[c] = "wait"
      BY <2>6, <3>2 DEF RequestInv
    <3>4. ToCommit
      BY <1>0, <2>6 DEF ToCommit
    <3>5. QED  BY <1>1, <3>2, <3>3, <3>4
  <2>9. ASSUME NEW c \in Links, NEW y \in Ports, NEW z \in Ports, NEW r \in Prios,
               NEW t \in Prios, NEW k \in Nat, NEW l \in Nat, Timed(y, r, k, c)'
        PROVE  /\ client'[c] = "wait"
               /\ Timed(z, t, l, c)' => y = z /\ r = t /\ k = l
    <3>1. client'[c] = "wait"
      BY <1>1, <2>6, <2>7, <2>8, <2>9
    <3>2. ASSUME Timed(z, t, l, c)'  PROVE y = z /\ r = t /\ k = l
      <4>1. CASE c = timestamp_id
        BY <2>7, <2>8, <2>9, <3>2, <4>1
      <4>2. CASE c # timestamp_id
        <5>1. Timed(y, r, k, c) /\ Timed(z, t, l, c)
          BY <2>7, <2>9, <3>2, <4>2
        <5>2. QED  BY <5>1 DEF WaitInv
      <4>3. QED  BY <4>1, <4>2
    <3>3. QED  BY <3>1, <3>2
  <2>10. ~ToCommit'
    BY <2>6 DEF ToCommit
  <2>11. QED  BY <2>9, <2>10 DEF WaitInv
<1>3. CASE ReplySent
  <2>1. PICK x \in Ports, q \in Prios : x = p /\ q = buf
    BY <1>0
  <2>2. HeadReleased(x, q) /\ Addressee \in Links
    BY <1>3, <2>1, ReplyPools
  <2>3. Earlier(x, q, 1)
    BY <1>0, <2>2, EarlierReleased
  <2>4. Timed(x, q, 1, Addressee)
    <3>1. pool[x][q] \in Seq(Packet) /\ pool[x][q] # <<>> /\ Addressee = pool[x][q][1].id
      BY <1>0, <2>1, <2>2 DEF PoolType, HeadReleased, Addressee
    <3>2. QED  BY <3>1 DEF Timed
  <2>5. /\ client' = [client EXCEPT ![Addressee] = "idle"]
        /\ spc' \in {"reply", "scan"}
    BY <1>3 DEF ReplySent, NextQueue
  <2>6. ASSUME NEW c \in Links, NEW y \in Ports, NEW r \in Prios, NEW k \in Nat,
               Timed(y, r, k, c)'
        PROVE  client'[c] = "wait"
    <3> DEFINE m == IF y = x /\ r = q THEN k + 1 ELSE k
    <3>1. Timed(y, r, m, c) /\ m \in Nat /\ k >= 1
      <4>1. k >= 1
        BY <2>6 DEF Timed
      <4>2. QED  BY <2>3, <2>6, <4>1 DEF Earlier
    <3>2. client[c] = "wait"
      <4> HIDE DEF m
      <4>1. QED  BY <1>1, <3>1
    <3>3. ASSUME c = Addressee  PROVE FALSE
      <4>1. y = x /\ r = q /\ m = 1
        <5> HIDE DEF m
        <5>1. Timed(x, q, 1, c)
          BY <2>4, <3>3
        <5>2. QED  BY <3>1, <5>1 DEF WaitInv
      <4>2. QED  BY <3>1, <4>1
    <3>4. QED  BY <1>0, <2>5, <3>2, <3>3
  <2>7. ~ToCommit'
    BY <2>5 DEF ToCommit
  <2>8. QED  BY <2>2, <2>3, <2>6, <2>7, WaitKept
\* The others leave waiting clients alone, and the server does not come back
\* to a port.
<1>4. ASSUME Next, ~Commit, ~ReplySent
      PROVE  /\ \A c \in Links : client[c] = "wait" => client'[c] = "wait"
             /\ \A c \in Links : ToCommit' /\ cur'.timed /\ i' = c /\ client[c] = "wait"
                                  => ToCommit /\ cur.timed /\ i = c
  <2> USE DEF serverVars, clientVars
  <2>1. ASSUME UNCHANGED serverVars
        PROVE  \A c \in Links : ToCommit' /\ cur'.timed /\ i' = c => ToCommit /\ cur.timed /\ i = c
    BY <2>1 DEF ToCommit
  <2>2. ASSUME NEW c \in Links, SendCmd(c)
        PROVE  \A b \in Links : client[b] = "wait" => client'[b] = "wait"
    BY <1>0, <2>2 DEF SendCmd
  <2>3. CASE \E c \in Links : SendCmd(c)
    BY <2>1, <2>2, <2>3 DEF SendCmd
  <2>4. CASE \E c \in Links : TakeCmd(c)
    <3>1. PICK c \in Links : TakeCmd(c)
      BY <2>4
    <3>2. client[c] = "cmd" /\ spc' = "reply"
      BY <3>1 DEF TakeCmd, Ready
    <3>3. \A b \in Links : client[b] = "wait" => client'[b] = "wait"
      BY <1>0, <3>1, <3>2 DEF TakeCmd
    <3>4. QED  BY <3>2, <3>3 DEF ToCommit
  <2>5. CASE get_packet_from_client
    <3>1. client[i] = "slave"
      BY <1>0, <2>5 DEF get_packet_from_client, RequestInv
    <3>2. \A b \in Links : client[b] = "wait" => client'[b] = "wait"
      BY <1>0, <2>5, <3>1 DEF get_packet_from_client
    <3>3. i' = i
      BY <2>5 DEF get_packet_from_client
    <3>4. QED  BY <3>1, <3>2, <3>3
  <2>6. CASE Skip
    <3>1. client' = client /\ spc = "commit" /\ cur.dst \notin {p, ETH_BROADCAST} /\ NextPort
      BY <2>6 DEF Skip
    <3>2. CASE spc' \in {"scan", "select"}
      BY <3>1, <3>2 DEF ToCommit
    <3>3. CASE p' = p + 1 /\ spc' = "commit" /\ UNCHANGED <<i, cur>>
      <4>1. cur \in Request
        <5>1. cur \in Requests[i]
          BY <3>1 DEF RequestInv
        <5>2. QED  BY <1>0, <5>1, TxPathAssumption
      <4>2. cur.dst \in Int /\ p \in Int
        BY <1>0, <4>1 DEF Request, Ports, ETH_BROADCAST
      <4>3. p + 1 <= cur.dst => p <= cur.dst
        BY <4>2
      <4>4. QED  BY <3>1, <3>3, <4>3 DEF ToCommit
    <3>4. QED  BY <1>0, <3>1, <3>2, <3>3, NextPortCases
  <2>7. CASE Mark
    <3>1. client' = client /\ spc = "mark" /\ cur.dst \in {p, ETH_BROADCAST} /\ NextPort
      BY <2>7 DEF Mark, RequestInv
    <3>2. CASE spc' \in {"scan", "select"}
      BY <3>1, <3>2 DEF ToCommit
    <3>3. CASE p < NumPorts - 1 /\ p' = p + 1 /\ spc' = "commit" /\ UNCHANGED <<i, cur>>
      <4>1. ASSUME cur.timed  PROVE cur.dst = p
        <5>1. NumPorts # 1
          BY <1>0, <3>3
        <5>2. cur \in Requests[i]
          BY <3>1 DEF RequestInv
        <5>3. cur.dst # ETH_BROADCAST
          BY <1>0, <4>1, <5>1, <5>2 DEF TimedToOne
        <5>4. QED  BY <3>1, <5>3
      <4>2. cur.timed => ~ToCommit'
        <5>1. ASSUME cur.timed  PROVE ~ToCommit'
          <6>1. cur'.dst = p /\ p' = p + 1 /\ p \in Nat
            BY <1>0, <3>3, <4>1, <5>1
          <6>2. cur'.dst # ETH_BROADCAST /\ ~(p' <= cur'.dst)
            BY <6>1 DEF ETH_BROADCAST
          <6>3. QED  BY <6>2 DEF ToCommit
        <5>2. QED  BY <5>1
      <4>3. QED  BY <3>1, <3>3, <4>2
    <3>4. QED  BY <1>0, <3>1, <3>2, <3>3, NextPortCases
  <2>8. CASE Pass \/ Default \/ get_ts_queue_entry
    <3>1. client' = client /\ spc' # "commit"
      BY <2>8 DEF Pass, Default, get_ts_queue_entry, NextClient, NextQueue
    <3>2. QED  BY <3>1 DEF ToCommit
  <2>9. CASE \E x \in Ports : StartHp(x) \/ StartLp(x) \/ EndTransmit(x)
    <3>1. client' = client /\ UNCHANGED serverVars
      BY <2>9 DEF StartHp, StartLp, StartTransmit, EndTransmit
    <3>2. QED  BY <2>1, <3>1
  <2>10. CASE \E x \in Ports, q \in Prios : ForwardArrives(x, q)
    <3>1. client' = client /\ UNCHANGED serverVars
      BY <2>10 DEF ForwardArrives
    <3>2. QED  BY <2>1, <3>1
  <2>11. QED
    BY <1>4, <2>3, <2>4, <2>5, <2>6, <2>7, <2>8, <2>9, <2>10 DEF Next, Server
<1>5. ASSUME ~Commit, ~ReplySent, NEW x \in Ports, NEW q \in Prios, NEW d \in Nat,
             Earlier(x, q, d)
      PROVE  WaitInv'
  <2>1. ASSUME NEW c \in Links, NEW y \in Ports, NEW r \in Prios, NEW k \in Nat,
               Timed(y, r, k, c)'
        PROVE  client'[c] = "wait" /\ ~(ToCommit' /\ cur'.timed /\ i' = c)
    <3> DEFINE m == IF y = x /\ r = q THEN k + d ELSE k
    <3>1. Timed(y, r, m, c) /\ m \in Nat
      BY <1>5, <2>1 DEF Earlier
    <3> HIDE DEF m
    <3>2. client[c] = "wait" /\ ~(ToCommit /\ cur.timed /\ i = c)
      BY <1>1, <3>1
    <3>3. QED  BY <1>4, <1>5, <3>2
  <2>2. QED  BY <1>5, <2>1, WaitKept
<1>6. CASE ~Commit /\ ~ReplySent
  <2>1. CASE PacketsSame
    BY <1>0, <1>5, <1>6, <2>1, EarlierSame
  <2>2. ASSUME NEW x \in Ports, NEW q \in Prios, HeadReleased(x, q)  PROVE WaitInv'
    BY <1>0, <1>5, <1>6, <2>2, EarlierReleased
  <2>3. QED  BY <1>6, <2>1, <2>2, StepPools
<1>7. QED  BY <1>2, <1>3, <1>6

\* A time stamp goes to the client that waits for it, if packets with a time
\* stamp are not broadcast over several ports.
THEOREM TxPathReplyExpected == TimedToOne => (Spec => []ReplyExpected)
<1> DEFINE I == RequestInv /\ WaitInv
<1>0. SUFFICES ASSUME TimedToOne  PROVE Spec => []ReplyExpected
  OBVIOUS
<1>1. Init => I
  BY RequestInit
<1>2. PoolsInv /\ I /\ [Next]_vars => I'
  <2> SUFFICES ASSUME PoolsInv, I, [Next]_vars  PROVE I'
    OBVIOUS
  <2>1. CASE Next
    BY <1>0, <2>1, RequestStep, WaitStep DEF PoolsInv
  <2>2. CASE UNCHANGED vars
    BY <2>2 DEF vars, clientVars, serverVars, RequestInv, WaitInv, Timed, ToCommit
  <2>3. QED  BY <2>1, <2>2
<1>3. ASSUME PoolsInv, I  PROVE ReplyExpected
  <2> SUFFICES ASSUME spc = "sending"  PROVE client[Addressee] = "wait"
    BY DEF ReplyExpected
  <2>1. PICK x \in Ports, q \in Prios : x = p /\ q = buf
    BY <1>3 DEF PoolsInv, TypeOK
  <2>2. HeadInv(x, q) /\ AtServer(x, q)
    BY <1>3, <2>1 DEF PoolsInv, AtServer
  <2>3. pool[x][q] # <<>> /\ Due(x, q)
    BY <2>2 DEF HeadInv, New, Out
  <2>4. pool[x][q] \in Seq(Packet)
    BY <1>3 DEF PoolsInv, TypeOK
  <2>5. /\ pool[x][q][1] \in Packet /\ 1 \in 1 .. Len(pool[x][q])
        /\ Addressee = pool[x][q][1].id /\ Addressee # 0
    BY <2>1, <2>3, <2>4 DEF Due, Addressee
  <2>6. Addressee \in Links
    BY <2>5, TxPathAssumption DEF Packet, Links
  <2>7. Timed(x, q, 1, Addressee)
    BY <2>5 DEF Timed
  <2>8. QED  BY <1>3, <2>6, <2>7 DEF WaitInv
<1>4. QED  BY <1>1, <1>2, <1>3, SpecPoolsInv, PTL DEF Spec

=============================================================================
