---------------------------- MODULE RxFramesProofs ---------------------------
(***************************************************************************)
(* Received frames are counted right and stay in order, for any number of  *)
(* clients, pools, packets and entries of a ring: FramesInv is inductive,  *)
(* and the safety properties of RxFrames are parts of it.  With it, every  *)
(* step of RxFrames is one of FrameDelivery or a stutter.                  *)
(***************************************************************************)
EXTENDS RxFrames, TLAPS, FiniteSetTheorems, SequenceTheorems, WellFoundedInduction

\* A packet has one place in one pool.
OnePlace ==
  \A p, q \in Pools : \A j \in 1 .. Len(pool[p]), k \in 1 .. Len(pool[q]) :
    pool[p][j] = pool[q][k] => p = q /\ j = k

\* The packets of a pool that are in t come before the others.
Before(t) ==
  \A p \in Pools : \A k \in 1 .. Len(pool[p]) : \A j \in 1 .. k - 1 :
    pool[p][k] \in t => pool[p][j] \in t

\* A packet is in a client's queue once.
EntriesApart ==
  \A i \in Links : \A m, n \in 0 .. QueueSize(i) - 1 : Entry(i, m) = Entry(i, n) => m = n

FramesInv ==
  /\ TypeOK
  /\ OnePlace /\ Before(taken) /\ freed \subseteq taken
  /\ EntriesApart
  /\ sending # 0 => rdIndex[sending] # wrIndex[sending]
  /\ CountsOwners /\ InOrder

-----------------------------------------------------------------------------
(* The pools *)

\* A set of natural numbers has a least one.
LEMMA LeastNat ==
  ASSUME NEW T, T \subseteq Nat, T # {}
  PROVE  \E x \in T : \A y \in T : x <= y
<1> DEFINE R == OpToRel(<, Nat)
<1>1. IsWellFoundedOn(R, Nat)
  BY NatLessThanWellFounded
<1>2. \A x, y \in Nat : y < x => <<y, x>> \in R
  BY DEF R, OpToRel
<1> HIDE DEF R
<1>3. PICK x \in T : \A y \in T : ~(<<y, x>> \in R)
  BY <1>1, WFMin
<1>4. ASSUME NEW y \in T  PROVE x <= y
  <2>1. x \in Nat /\ y \in Nat
    OBVIOUS
  <2>2. ~(y < x)
    BY <1>3, <1>2, <2>1
  <2>3. QED  BY <2>1, <2>2
<1>5. QED  BY <1>4

\* FromFirstNotIn drops n packets, all of them in F, from the front.
LEMMA FirstNotIn ==
  ASSUME NEW s \in Seq(Bufs), NEW F
  PROVE  LET r == FromFirstNotIn(s, F)
         IN  /\ r \in Seq(Bufs)
             /\ \E n \in 0 .. Len(s) :
                  /\ Len(r) = Len(s) - n
                  /\ \A k \in 1 .. Len(r) : r[k] = s[k + n]
                  /\ \A j \in 1 .. n : s[j] \in F
                  /\ n < Len(s) => s[n + 1] \notin F
<1> DEFINE Good(k) == /\ \A j \in 1 .. k - 1 : s[j] \in F
                      /\ k <= Len(s) => s[k] \notin F
           T == {k \in 1 .. Len(s) : s[k] \notin F}
<1>0. Len(s) \in Nat
  OBVIOUS
<1>1. \E k \in 1 .. Len(s) + 1 : Good(k)
  <2>1. CASE T = {}
    <3>1. Good(Len(s) + 1)
      BY <1>0, <2>1
    <3>2. QED  BY <1>0, <3>1
  <2>2. CASE T # {}
    <3>1. T \subseteq Nat
      OBVIOUS
    <3>2. \E k \in T : \A j \in T : k <= j
      <4> HIDE DEF T
      <4>1. QED  BY <2>2, <3>1, LeastNat
    <3>3. PICK k \in T : \A j \in T : k <= j
      BY <3>2
    <3>4. Good(k)
      BY <1>0, <3>3
    <3>5. QED  BY <1>0, <3>3, <3>4
  <2>3. QED  BY <2>1, <2>2
<1> DEFINE m == CHOOSE k \in 1 .. Len(s) + 1 : Good(k)
           r == SubSeq(s, m, Len(s))
<1>2. m \in 1 .. Len(s) + 1 /\ Good(m)
  BY <1>1
<1>3. FromFirstNotIn(s, F) = r
  BY DEF FromFirstNotIn
<1> HIDE DEF m
<1>4. /\ r \in Seq(Bufs)
      /\ Len(r) = IF m <= Len(s) THEN Len(s) - m + 1 ELSE 0
      /\ \A k \in 1 .. Len(s) - m + 1 : r[k] = s[m + k - 1]
  <2>1. m \in Int /\ Len(s) \in Int /\ \A k \in m .. Len(s) : s[k] \in Bufs
    BY <1>0, <1>2
  <2>2. QED  BY <2>1, SubSeqProperties
<1> HIDE DEF r
<1>5. m - 1 \in 0 .. Len(s) /\ Len(r) = Len(s) - (m - 1)
  BY <1>0, <1>2, <1>4
<1>6. \A k \in 1 .. Len(r) : r[k] = s[k + (m - 1)]
  BY <1>0, <1>2, <1>4
<1>7. /\ \A j \in 1 .. m - 1 : s[j] \in F
      /\ m - 1 < Len(s) => s[(m - 1) + 1] \notin F
  BY <1>0, <1>2
<1>8. QED  BY <1>3, <1>4, <1>5, <1>6, <1>7

\* The packets in the pools.
LEMMA LivePlaces ==
  ASSUME NEW b
  PROVE  b \in Live <=> \E p \in Pools : \E k \in 1 .. Len(pool[p]) : pool[p][k] = b
BY DEF Live, InPool

\* mii_free reclaims packets that are released, and no other.
LEMMA FreePools ==
  ASSUME pool \in [Pools -> Seq(Bufs)], NEW B, mii_free(B)
  PROVE  /\ pool' \in [Pools -> Seq(Bufs)]
         /\ \A p \in Pools : \E n \in 0 .. Len(pool[p]) :
              /\ Len(pool'[p]) = Len(pool[p]) - n
              /\ \A k \in 1 .. Len(pool'[p]) : pool'[p][k] = pool[p][k + n]
              /\ \A j \in 1 .. n : pool[p][j] \in freed \cup B
         /\ freed' = (freed \cup B) \cap Live'
<1>1. pool' = [p \in Pools |-> FromFirstNotIn(pool[p], freed \cup B)]
  BY DEF mii_free
<1>2. ASSUME NEW p \in Pools
      PROVE  /\ pool'[p] = FromFirstNotIn(pool[p], freed \cup B)
             /\ pool[p] \in Seq(Bufs)
  BY <1>1
<1>3. \A p \in Pools : pool'[p] \in Seq(Bufs)
  BY <1>2, FirstNotIn
<1>4. pool' \in [Pools -> Seq(Bufs)]
  BY <1>1, <1>3
<1>5. ASSUME NEW p \in Pools
      PROVE  \E n \in 0 .. Len(pool[p]) :
               /\ Len(pool'[p]) = Len(pool[p]) - n
               /\ \A k \in 1 .. Len(pool'[p]) : pool'[p][k] = pool[p][k + n]
               /\ \A j \in 1 .. n : pool[p][j] \in freed \cup B
  <2> DEFINE s == pool[p]
             F == freed \cup B
             r == FromFirstNotIn(s, F)
  <2>1. s \in Seq(Bufs) /\ pool'[p] = r
    BY <1>2
  <2> HIDE DEF s, F
  <2>2. \E n \in 0 .. Len(s) : /\ Len(r) = Len(s) - n
                               /\ \A k \in 1 .. Len(r) : r[k] = s[k + n]
                               /\ \A j \in 1 .. n : s[j] \in F
    BY <2>1, FirstNotIn
  <2> HIDE DEF r
  <2>3. QED  BY <2>1, <2>2 DEF s, F
<1>6. freed' = (freed \cup B) \cap Live'
  BY DEF mii_free, Live, InPool
<1>7. QED  BY <1>4, <1>5, <1>6

\* The packets that stay are the others, and those that are released but
\* behind another one.
LEMMA FreeLive ==
  ASSUME pool \in [Pools -> Seq(Bufs)], NEW B, mii_free(B)
  PROVE  /\ Live' \subseteq Live
         /\ Live \ Live' \subseteq freed \cup B
<1>1. ASSUME NEW b \in Live'  PROVE b \in Live
  <2>1. PICK p \in Pools : \E k \in 1 .. Len(pool'[p]) : pool'[p][k] = b
    BY <1>1 DEF Live, InPool
  <2>2. PICK k \in 1 .. Len(pool'[p]) : pool'[p][k] = b
    BY <2>1
  <2>3. PICK n \in 0 .. Len(pool[p]) :
          /\ Len(pool'[p]) = Len(pool[p]) - n
          /\ \A l \in 1 .. Len(pool'[p]) : pool'[p][l] = pool[p][l + n]
    BY FreePools
  <2>4. Len(pool[p]) \in Nat
    OBVIOUS
  <2>5. k + n \in 1 .. Len(pool[p]) /\ pool[p][k + n] = b
    BY <2>2, <2>3, <2>4
  <2>6. QED  BY <2>5, LivePlaces
<1>2. ASSUME NEW b \in Live, b \notin Live'  PROVE b \in freed \cup B
  <2>1. PICK p \in Pools : \E k \in 1 .. Len(pool[p]) : pool[p][k] = b
    BY <1>2, LivePlaces
  <2>2. PICK k \in 1 .. Len(pool[p]) : pool[p][k] = b
    BY <2>1
  <2>3. PICK n \in 0 .. Len(pool[p]) :
          /\ Len(pool'[p]) = Len(pool[p]) - n
          /\ \A l \in 1 .. Len(pool'[p]) : pool'[p][l] = pool[p][l + n]
          /\ \A j \in 1 .. n : pool[p][j] \in freed \cup B
    BY FreePools
  <2>4. Len(pool[p]) \in Nat
    OBVIOUS
  <2>5. CASE k > n
    <3>1. k - n \in 1 .. Len(pool'[p]) /\ pool'[p][k - n] = b
      BY <2>2, <2>3, <2>4, <2>5
    <3>2. b \in Live'
      BY <3>1 DEF Live, InPool
    <3>3. QED  BY <1>2, <3>2
  <2>6. CASE k <= n
    BY <2>2, <2>3, <2>4, <2>6
  <2>7. QED  BY <2>4, <2>5, <2>6
<1>3. QED  BY <1>1, <1>2

\* What is said of the places of packets, when packets in front are reclaimed.
LEMMA FreePlaces ==
  ASSUME pool \in [Pools -> Seq(Bufs)], NEW B, mii_free(B)
  PROVE  /\ OnePlace => OnePlace'
         /\ \A p \in Pools : \A j, k \in 1 .. Len(pool'[p]) :
              \E l, m \in 1 .. Len(pool[p]) :
                pool'[p][j] = pool[p][l] /\ pool'[p][k] = pool[p][m] /\ (j < k <=> l < m)
<1>1. \A p \in Pools : Len(pool[p]) \in Nat
  OBVIOUS
<1>2. ASSUME NEW p \in Pools, NEW j \in 1 .. Len(pool'[p]), NEW k \in 1 .. Len(pool'[p])
      PROVE  \E l, m \in 1 .. Len(pool[p]) :
               pool'[p][j] = pool[p][l] /\ pool'[p][k] = pool[p][m] /\ (j < k <=> l < m)
  <2>1. PICK n \in 0 .. Len(pool[p]) :
          /\ Len(pool'[p]) = Len(pool[p]) - n
          /\ \A l \in 1 .. Len(pool'[p]) : pool'[p][l] = pool[p][l + n]
    BY FreePools
  <2>2. /\ j + n \in 1 .. Len(pool[p]) /\ k + n \in 1 .. Len(pool[p])
        /\ pool'[p][j] = pool[p][j + n] /\ pool'[p][k] = pool[p][k + n]
        /\ j < k <=> j + n < k + n
    BY <1>1, <2>1
  <2>3. QED  BY <2>2
<1>3. ASSUME OnePlace, NEW p \in Pools, NEW q \in Pools,
             NEW j \in 1 .. Len(pool'[p]), NEW k \in 1 .. Len(pool'[q]),
             pool'[p][j] = pool'[q][k]
      PROVE  p = q /\ j = k
  <2>1. PICK n \in 0 .. Len(pool[p]) :
          /\ Len(pool'[p]) = Len(pool[p]) - n
          /\ \A l \in 1 .. Len(pool'[p]) : pool'[p][l] = pool[p][l + n]
    BY FreePools
  <2>2. PICK m \in 0 .. Len(pool[q]) :
          /\ Len(pool'[q]) = Len(pool[q]) - m
          /\ \A l \in 1 .. Len(pool'[q]) : pool'[q][l] = pool[q][l + m]
    BY FreePools
  <2>3. /\ j + n \in 1 .. Len(pool[p]) /\ pool[p][j + n] = pool'[p][j]
        /\ k + m \in 1 .. Len(pool[q]) /\ pool[q][k + m] = pool'[q][k]
    <3>1. j + n \in 1 .. Len(pool[p]) /\ pool[p][j + n] = pool'[p][j]
      BY <1>1, <2>1
    <3>2. k + m \in 1 .. Len(pool[q]) /\ pool[q][k + m] = pool'[q][k]
      BY <1>1, <2>2
    <3>3. QED  BY <3>1, <3>2
  <2>4. p = q /\ j + n = k + m
    BY <1>3, <2>3 DEF OnePlace
  <2>5. n = m
    BY <1>1, <2>1, <2>2, <2>4
  <2>6. QED  BY <2>4, <2>5
<1>4. QED  BY <1>2, <1>3 DEF OnePlace
-----------------------------------------------------------------------------
(* The rings *)

\* The place of an entry, without the remainder.
LEMMA EntryPlace ==
  ASSUME NEW r \in Slots, NEW n \in Slots
  PROVE  (r + n) % NUM_MII_RX_BUF
           = IF r + n < NUM_MII_RX_BUF THEN r + n ELSE r + n - NUM_MII_RX_BUF
BY FramesAssumption DEF Slots

\* A queue has fewer packets than the ring has entries.
LEMMA SizeInSlots ==
  ASSUME TypeOK, NEW i \in Links
  PROVE  /\ QueueSize(i) \in Slots
         /\ QueueSize(i) = 0 <=> rdIndex[i] = wrIndex[i]
<1>1. rdIndex[i] \in Slots /\ wrIndex[i] \in Slots
  BY DEF TypeOK
<1>2. QED  BY <1>1, FramesAssumption DEF QueueSize, Slots

\* A queue whose ring does not change.
LEMMA SameQueue ==
  ASSUME NEW i \in Links, rdIndex'[i] = rdIndex[i], wrIndex'[i] = wrIndex[i],
         fifo'[i] = fifo[i]
  PROVE  /\ QueueSize(i)' = QueueSize(i) /\ Queue(i)' = Queue(i)
         /\ \A n : Entry(i, n)' = Entry(i, n)
BY DEF QueueSize, Queue, Entry

\* A packet is put into a ring that has room.
LEMMA Push ==
  ASSUME TypeOK, NEW i \in Links, NEW b \in Bufs, QueueHasRoom(i),
         rdIndex'[i] = rdIndex[i], wrIndex'[i] = NextIndex(wrIndex[i]),
         fifo'[i] = [fifo[i] EXCEPT ![wrIndex[i]] = b]
  PROVE  /\ QueueSize(i)' = QueueSize(i) + 1
         /\ \A n \in 0 .. QueueSize(i) - 1 : Entry(i, n)' = Entry(i, n)
         /\ \A n : n = QueueSize(i) => Entry(i, n)' = b
         /\ Queue(i)' = Queue(i) \cup {b}
<1>0. rdIndex[i] \in Slots /\ wrIndex[i] \in Slots /\ fifo[i] \in [Slots -> Bufs]
  BY DEF TypeOK
<1> DEFINE N == NUM_MII_RX_BUF
           r == rdIndex[i]
           w == wrIndex[i]
           z == QueueSize(i)
           f == fifo[i]
           g == fifo'[i]
<1>1. N \in Nat /\ r \in 0 .. N - 1 /\ w \in 0 .. N - 1 /\ f \in [0 .. N - 1 -> Bufs]
  BY <1>0, FramesAssumption DEF Slots
<1>2. z = (IF w - r < 0 THEN w - r + N ELSE w - r) /\ g = [f EXCEPT ![w] = b]
  BY DEF QueueSize
<1>3. (IF w + 1 # N THEN w + 1 ELSE 0) # r
  BY DEF QueueHasRoom, NextIndex
<1>4. QueueSize(i)' = z + 1
  <2> DEFINE v == IF w + 1 # N THEN w + 1 ELSE 0
  <2>1. QueueSize(i)' = IF v - r < 0 THEN v - r + N ELSE v - r
    BY DEF QueueSize, NextIndex
  <2> HIDE DEF N, r, w, z, f, g
  <2>2. CASE w + 1 # N
    <3>0. v = w + 1
      BY <2>2
    <3> HIDE DEF v
    <3>1. QueueSize(i)' = IF w + 1 - r < 0 THEN w + 1 - r + N ELSE w + 1 - r
      BY <1>1, <2>1, <3>0
    <3>2. N \in Nat /\ r \in 0 .. N - 1 /\ w \in 0 .. N - 1 /\ w + 1 # r
      BY <1>1, <1>3, <2>2
    <3>3. QED  BY <1>2, <3>1, <3>2
  <2>3. CASE w + 1 = N
    <3>0. v = 0
      BY <2>3
    <3> HIDE DEF v
    <3>1. QueueSize(i)' = IF 0 - r < 0 THEN 0 - r + N ELSE 0 - r
      BY <1>1, <2>1, <3>0
    <3>2. N \in Nat /\ r \in 0 .. N - 1 /\ w \in 0 .. N - 1 /\ r # 0
      BY <1>1, <1>3, <2>3
    <3>3. QED  BY <1>2, <2>3, <3>1, <3>2
  <2>4. QED  BY <2>2, <2>3
<1>5. z \in Slots /\ z + 1 \in Slots
  <2> HIDE DEF N, r, w, z
  <2>1. z \in 0 .. N - 1 /\ z + 1 \in 0 .. N - 1
    BY <1>1, <1>2, <1>3
  <2>2. QED  BY <2>1 DEF Slots, N
<1>6. ASSUME NEW n \in 0 .. z  PROVE Entry(i, n)' = IF n = z THEN b ELSE Entry(i, n)
  <2>1. n \in Slots /\ r \in Slots
    <3>1. n \in 0 .. N - 1
      <4> HIDE DEF z, r, w, f, g
      <4>1. QED  BY <1>1, <1>5 DEF Slots
    <3>2. QED  BY <1>0, <3>1 DEF Slots
  <2> DEFINE k == IF r + n < N THEN r + n ELSE r + n - N
  <2>2. (r + n) % N = k
    BY <2>1, EntryPlace
  <2>3. k \in 0 .. N - 1 /\ (k = w <=> n = z)
    <3> HIDE DEF N, r, w, z, f, g
    <3>1. z \in 0 .. N - 1 /\ n \in 0 .. z
      BY <1>1, <1>2
    <3>2. CASE w - r < 0
      BY <1>1, <1>2, <3>1, <3>2
    <3>3. CASE ~(w - r < 0)
      BY <1>1, <1>2, <3>1, <3>3
    <3>4. QED  BY <3>2, <3>3
  <2>4. Entry(i, n)' = g[k] /\ Entry(i, n) = f[k]
    BY <2>2 DEF Entry
  <2> HIDE DEF k, N, r, w, z, f, g
  <2>5. QED  BY <1>1, <1>2, <2>3, <2>4
<1>7. \A n \in 0 .. z - 1 : Entry(i, n)' = Entry(i, n)
  BY <1>5, <1>6 DEF Slots
<1>8. ASSUME NEW n, n = z  PROVE Entry(i, n)' = b
  <2>1. n \in 0 .. z
    <3> HIDE DEF z
    <3>1. QED  BY <1>5, <1>8 DEF Slots
  <2>2. QED  BY <1>6, <1>8, <2>1
<1>9. Queue(i)' = Queue(i) \cup {b}
  <2>1. Queue(i)' = {Entry(i, n)' : n \in 0 .. z}
    BY <1>4, <1>5 DEF Queue, Slots
  <2>2. z \in 0 .. z /\ \A n \in 0 .. z : n = z \/ n \in 0 .. z - 1
    BY <1>5 DEF Slots
  <2>3. 0 .. z - 1 \subseteq 0 .. z
    BY <1>5 DEF Slots
  <2> HIDE DEF z
  <2>4. Queue(i) = {Entry(i, n) : n \in 0 .. z - 1}
    BY DEF Queue, z
  <2>5. \A n \in 0 .. z : Entry(i, n)' = IF n = z THEN b ELSE Entry(i, n)
    BY <1>6
  <2>6. ASSUME NEW x \in Queue(i)'  PROVE x \in Queue(i) \cup {b}
    BY <2>1, <2>2, <2>4, <2>5
  <2>7. ASSUME NEW x \in Queue(i) \cup {b}  PROVE x \in Queue(i)'
    <3>1. CASE x = b
      BY <2>1, <2>2, <2>5, <3>1
    <3>2. CASE x \in Queue(i)
      <4>1. PICK n \in 0 .. z - 1 : x = Entry(i, n)
        BY <2>4, <3>2
      <4>2. x = Entry(i, n)' /\ n \in 0 .. z
        BY <1>7, <2>3, <4>1
      <4>3. QED  BY <2>1, <4>2
    <3>3. QED  BY <3>1, <3>2
  <2>8. QED  BY <2>6, <2>7
<1>10. QED  BY <1>4, <1>7, <1>8, <1>9

\* The oldest packet is taken out of a ring.
LEMMA Pop ==
  ASSUME TypeOK, NEW i \in Links, rdIndex[i] # wrIndex[i],
         rdIndex'[i] = NextIndex(rdIndex[i]), wrIndex'[i] = wrIndex[i],
         fifo'[i] = fifo[i]
  PROVE  /\ QueueSize(i)' = QueueSize(i) - 1
         /\ \A n \in 0 .. QueueSize(i) - 2 : Entry(i, n)' = Entry(i, n + 1)
         /\ Entry(i, 0) = fifo[i][rdIndex[i]] /\ Entry(i, 0) \in Queue(i)
<1>0. rdIndex[i] \in Slots /\ wrIndex[i] \in Slots
  BY DEF TypeOK
<1> DEFINE N == NUM_MII_RX_BUF
           r == rdIndex[i]
           w == wrIndex[i]
           z == QueueSize(i)
           q == IF r + 1 # N THEN r + 1 ELSE 0
<1>1. N \in Nat /\ r \in 0 .. N - 1 /\ w \in 0 .. N - 1 /\ r # w
  BY <1>0, FramesAssumption DEF Slots
<1>2. z = (IF w - r < 0 THEN w - r + N ELSE w - r)
  BY DEF QueueSize
<1>3. rdIndex'[i] = q
  BY DEF NextIndex
<1>4. QueueSize(i)' = z - 1 /\ z \in 1 .. N - 1 /\ q \in 0 .. N - 1
  <2>1. QueueSize(i)' = IF w - q < 0 THEN w - q + N ELSE w - q
    BY <1>3 DEF QueueSize
  <2> HIDE DEF N, r, w, z
  <2>2. QED  BY <1>1, <1>2, <2>1
<1>5. ASSUME NEW n \in 0 .. z - 2  PROVE Entry(i, n)' = Entry(i, n + 1)
  <2>1. n \in Slots /\ n + 1 \in Slots /\ r \in Slots /\ q \in Slots
    <3> HIDE DEF z, r, q
    <3>1. QED  BY <1>1, <1>4 DEF Slots
  <2>2. /\ (r + (n + 1)) % N = IF r + (n + 1) < N THEN r + (n + 1) ELSE r + (n + 1) - N
        /\ (q + n) % N = IF q + n < N THEN q + n ELSE q + n - N
    <3> HIDE DEF q
    <3>1. QED  BY <2>1, EntryPlace
  <2>3. (r + (n + 1)) % N = (q + n) % N
    <3> DEFINE x == (r + (n + 1)) % N
               y == (q + n) % N
    <3>1. /\ x = IF r + (n + 1) < N THEN r + (n + 1) ELSE r + (n + 1) - N
          /\ y = IF q + n < N THEN q + n ELSE q + n - N
      BY <2>2
    <3> HIDE DEF N, r, w, z, x, y
    <3>2. x = y
      BY <1>1, <1>4, <3>1
    <3>3. QED  BY <3>2 DEF x, y
  <2>4. QED  BY <1>3, <2>3 DEF Entry
<1>6. Entry(i, 0) = fifo[i][rdIndex[i]]
  <2>1. 0 \in Slots /\ r \in Slots
    BY <1>0, FramesAssumption DEF Slots
  <2>2. (r + 0) % N = r
    BY <1>1, <2>1, EntryPlace
  <2>3. QED  BY <2>2 DEF Entry
<1>7. Entry(i, 0) \in Queue(i)
  BY <1>4 DEF Queue
<1>8. QED  BY <1>4, <1>5, <1>6, <1>7

\* What is in a queue.
LEMMA InQueue ==
  ASSUME NEW i \in Links, NEW b
  PROVE  b \in Queue(i) <=> \E n \in 0 .. QueueSize(i) - 1 : Entry(i, n) = b
BY DEF Queue

\* The owners of a packet are clients and the other port.
LEMMA OwnersFinite ==
  ASSUME NEW b
  PROVE  /\ IsFiniteSet(Owners(b)) /\ Cardinality(Owners(b)) \in Nat
         /\ IsFiniteSet(Owners(b)') /\ Cardinality(Owners(b)') \in Nat
         /\ 0 \in Owners(b) <=> forwarding[b]
         /\ \A i \in Links : i \in Owners(b) <=> b \in Queue(i)
<1>1. IsFiniteSet(0 .. NumLinks) /\ Links \subseteq 0 .. NumLinks /\ 0 \notin Links
  BY FramesAssumption, FS_Interval DEF Links
<1>2. Owners(b) \subseteq 0 .. NumLinks /\ Owners(b)' \subseteq 0 .. NumLinks
  BY <1>1, FramesAssumption DEF Owners
<1>3. IsFiniteSet(Owners(b)) /\ IsFiniteSet(Owners(b)')
  BY <1>1, <1>2, FS_Subset
<1>4. Cardinality(Owners(b)) \in Nat /\ Cardinality(Owners(b)') \in Nat
  BY <1>3, FS_CardinalityType
<1>5. 0 \in Owners(b) <=> forwarding[b]
  BY <1>1 DEF Owners
<1>6. \A i \in Links : i \in Owners(b) <=> b \in Queue(i)
  BY <1>1 DEF Owners
<1>7. QED  BY <1>3, <1>4, <1>5, <1>6

\* The packets in a queue are in use.
LEMMA QueueInUse ==
  ASSUME CountsOwners, NEW i \in Links, NEW b \in Bufs, b \in Queue(i)
  PROVE  b \in InUse
<1>1. i \in Owners(b)
  BY OwnersFinite
<1>2. QED  BY <1>1 DEF CountsOwners

\* A packet that is not in use has no owner.
LEMMA NoOwner ==
  ASSUME CountsOwners, NEW b \in Bufs, b \notin InUse
  PROVE  Owners(b) = {} /\ ~forwarding[b] /\ \A i \in Links : b \notin Queue(i)
<1>1. Owners(b) = {}
  BY DEF CountsOwners
<1>2. QED  BY <1>1, OwnersFinite

\* Entries are packets.
LEMMA EntryType ==
  ASSUME TypeOK, NEW i \in Links, NEW n \in 0 .. QueueSize(i) - 1
  PROVE  Entry(i, n) \in Bufs /\ Entry(i, n) \in Queue(i)
<1>1. rdIndex[i] \in Slots /\ fifo[i] \in [Slots -> Bufs]
  BY DEF TypeOK
<1>2. n \in Slots
  BY SizeInSlots, FramesAssumption DEF Slots
<1> DEFINE x == (rdIndex[i] + n) % NUM_MII_RX_BUF
<1>3. x = IF rdIndex[i] + n < NUM_MII_RX_BUF THEN rdIndex[i] + n
          ELSE rdIndex[i] + n - NUM_MII_RX_BUF
  BY <1>1, <1>2, EntryPlace
<1>4. x \in Slots
  <2> HIDE DEF x
  <2>1. QED  BY <1>1, <1>2, <1>3, FramesAssumption DEF Slots
<1>5. Entry(i, n) = fifo[i][x]
  BY DEF Entry
<1> HIDE DEF x
<1>6. Entry(i, n) \in Bufs
  BY <1>1, <1>4, <1>5
<1>7. QED  BY <1>6, InQueue

-----------------------------------------------------------------------------
(* Steps that take packets out of the pools, and out of the queues, at the   *)
(* front only                                                                *)

\* What a pool holds was there before, in the same order.
PoolsKept ==
  \A p \in Pools : \A j, k \in 1 .. Len(pool'[p]) :
    \E l, m \in 1 .. Len(pool[p]) :
      pool'[p][j] = pool[p][l] /\ pool'[p][k] = pool[p][m] /\ (j < k <=> l < m)

\* So does a client's queue.
QueueKept(i) ==
  \A j, k \in 0 .. QueueSize(i)' - 1 :
    \E l, m \in 0 .. QueueSize(i) - 1 :
      /\ Entry(i, j)' = Entry(i, l) /\ Entry(i, k)' = Entry(i, m)
      /\ j < k <=> l < m
      /\ j = k <=> l = m

\* Nothing that is said of the pools changes when they do not.
LEMMA PoolsSame ==
  ASSUME pool' = pool
  PROVE  PoolsKept /\ Live' = Live /\ (OnePlace => OnePlace')
<1>1. PoolsKept
  BY DEF PoolsKept
<1>2. QED  BY <1>1 DEF Live, InPool, OnePlace

\* A client's queue is kept when its indices and entries are.
LEMMA QueueSame ==
  ASSUME NEW i \in Links, rdIndex'[i] = rdIndex[i], wrIndex'[i] = wrIndex[i],
         fifo'[i] = fifo[i]
  PROVE  QueueKept(i)
BY SameQueue DEF QueueKept

\* The server's rdptr stays in order when nothing becomes untaken.
LEMMA BeforeKept ==
  ASSUME PoolsKept, pool \in [Pools -> Seq(Bufs)], pool' \in [Pools -> Seq(Bufs)],
         \A p \in Pools : \A k \in 1 .. Len(pool[p]) : \A j \in 1 .. k - 1 :
           pool[p][k] \in taken' => pool[p][j] \in taken'
  PROVE  Before(taken)'
<1>1. ASSUME NEW p \in Pools, NEW k \in 1 .. Len(pool'[p]), NEW j \in 1 .. k - 1,
             pool'[p][k] \in taken'
      PROVE  pool'[p][j] \in taken'
  <2>0. Len(pool'[p]) \in Nat /\ Len(pool[p]) \in Nat
    OBVIOUS
  <2>1. j \in 1 .. Len(pool'[p]) /\ j < k
    BY <2>0
  <2>2. PICK l \in 1 .. Len(pool[p]), m \in 1 .. Len(pool[p]) :
          pool'[p][j] = pool[p][l] /\ pool'[p][k] = pool[p][m] /\ (j < k <=> l < m)
    BY <2>1 DEF PoolsKept
  <2>3. l \in 1 .. m - 1
    BY <2>0, <2>1, <2>2
  <2>4. QED  BY <1>1, <2>2, <2>3
<1>2. QED  BY <1>1 DEF Before

\* Queues stay in order, each packet in its place.
LEMMA OrderKept ==
  ASSUME PoolsKept, pool \in [Pools -> Seq(Bufs)], pool' \in [Pools -> Seq(Bufs)],
         \A i \in Links : QueueKept(i), EntriesApart, InOrder
  PROVE  EntriesApart' /\ InOrder'
<1>1. ASSUME NEW i \in Links, NEW m \in 0 .. QueueSize(i)' - 1,
             NEW n \in 0 .. QueueSize(i)' - 1, Entry(i, m)' = Entry(i, n)'
      PROVE  m = n
  <2>1. PICK x \in 0 .. QueueSize(i) - 1, y \in 0 .. QueueSize(i) - 1 :
          /\ Entry(i, m)' = Entry(i, x) /\ Entry(i, n)' = Entry(i, y)
          /\ m = n <=> x = y
    BY DEF QueueKept
  <2>2. QED  BY <1>1, <2>1 DEF EntriesApart
<1>2. ASSUME NEW i \in Links, NEW p \in Pools, NEW m \in 0 .. QueueSize(i)' - 1,
             NEW n \in 0 .. QueueSize(i)' - 1, NEW j \in 1 .. Len(pool'[p]),
             NEW k \in 1 .. Len(pool'[p]),
             m < n, Entry(i, m)' = pool'[p][j], Entry(i, n)' = pool'[p][k]
      PROVE  j < k
  <2>1. PICK a, c \in 1 .. Len(pool[p]) :
          pool'[p][j] = pool[p][a] /\ pool'[p][k] = pool[p][c] /\ (j < k <=> a < c)
    <3>1. Len(pool'[p]) \in Nat /\ Len(pool[p]) \in Nat
      OBVIOUS
    <3>2. QED  BY <3>1 DEF PoolsKept
  <2>2. PICK x, y \in 0 .. QueueSize(i) - 1 :
          /\ Entry(i, m)' = Entry(i, x) /\ Entry(i, n)' = Entry(i, y)
          /\ m < n <=> x < y
    BY DEF QueueKept
  <2>3. a < c
    BY <1>2, <2>1, <2>2 DEF InOrder
  <2>4. QED  BY <2>1, <2>3
<1>3. QED  BY <1>1, <1>2 DEF EntriesApart, InOrder

\* The owners of a packet whose flag and whose clients' queues are the same.
LEMMA OwnersSame ==
  ASSUME NEW b, \A i \in Links : b \in Queue(i)' <=> b \in Queue(i),
         forwarding'[b] = forwarding[b]
  PROVE  Owners(b)' = Owners(b)
BY DEF Owners

\* A step that leaves packets, counts and queues alone.
LEMMA QuietStep ==
  ASSUME FramesInv, TypeOK',
         UNCHANGED <<pool, freed, taken, tcount, forwarding, rdIndex, wrIndex, fifo>>,
         sending' # 0 => rdIndex[sending'] # wrIndex[sending'],
         transmitting' \subseteq {b \in InUse : forwarding[b]}
  PROVE  FramesInv'
<1>1. PoolsKept /\ Live' = Live /\ OnePlace'
  BY PoolsSame DEF FramesInv
<1>2. \A i \in Links : QueueKept(i) /\ Queue(i)' = Queue(i)
  BY QueueSame, SameQueue
<1>3. EntriesApart' /\ InOrder'
  BY <1>1, <1>2, OrderKept DEF FramesInv, TypeOK
<1>4. Before(taken)' /\ freed' \subseteq taken'
  BY DEF FramesInv, Before
<1>5. InUse' = InUse
  BY <1>1 DEF InUse
<1>6. \A b : Owners(b)' = Owners(b)
  BY <1>2, OwnersSame
<1>7. CountsOwners'
  BY <1>5, <1>6 DEF FramesInv, CountsOwners
<1>8. QED  BY <1>1, <1>3, <1>4, <1>7 DEF FramesInv

-----------------------------------------------------------------------------
(* The steps *)

\* FramesInv holds at first: the pools and the rings are empty.
LEMMA FramesInit ==
  ASSUME Init
  PROVE  FramesInv
<1>1. Live = {} /\ freed = {} /\ taken = {}
  BY DEF Init, Live, InPool
<1>2. \A i \in Links : QueueSize(i) = 0
  BY DEF Init, QueueSize
<1>3. \A i \in Links : Queue(i) = {}
  BY <1>2 DEF Queue
<1>4. \A b \in Bufs : Owners(b) = {}
  BY <1>3 DEF Owners, Init
<1>5. CountsOwners
  BY <1>1, <1>4 DEF CountsOwners, InUse, Init
<1>6. TypeOK
  <2>1. 0 \in Slots /\ 0 \in 0 .. NumLinks /\ NUM_MII_RX_BUF \in Nat
    BY FramesAssumption DEF Slots
  <2>2. pool \in [Pools -> Seq(Bufs)] /\ c_filter \in Seq(Bufs)
    BY DEF Init
  <2>3. /\ stage \in [Bufs -> 0 .. 1] /\ filter_result \in [Bufs -> SUBSET Bits]
        /\ tcount \in [Bufs -> 0 .. NumLinks] /\ forwarding \in [Bufs -> BOOLEAN]
    BY <2>1 DEF Init
  <2>4. /\ custom_filter_mask \in [Links -> SUBSET Bits] /\ max_queue_size \in [Links -> Nat]
        /\ rdIndex \in [Links -> Slots] /\ wrIndex \in [Links -> Slots]
        /\ fifo \in [Links -> [Slots -> Bufs]]
    BY <2>1 DEF Init
  <2>5. QED  BY <1>1, <2>1, <2>2, <2>3, <2>4 DEF Init, TypeOK
<1>7. OnePlace /\ Before(taken)
  BY DEF OnePlace, Before, Init
<1>8. EntriesApart /\ InOrder
  BY <1>2 DEF EntriesApart, InOrder
<1>9. QED  BY <1>1, <1>5, <1>6, <1>7, <1>8 DEF FramesInv, Init

\* The filter, the clients' settings and the start of a transfer.
LEMMA QuietSteps ==
  ASSUME FramesInv,
         \/ ethernet_filter
         \/ \E i \in Links : SendFrame(i) \/ mac_set_custom_filter(i) \/ mac_set_queue_size(i)
         \/ \E p \in Pools : Forward(p)
  PROVE  FramesInv'
<1>0. TypeOK /\ CountsOwners
  BY DEF FramesInv
<1>1. CASE ethernet_filter
  <2>1. Head(c_filter) \in Bufs /\ Tail(c_filter) \in Seq(Bufs)
    BY <1>0, <1>1 DEF ethernet_filter, TypeOK
  <2>2. PICK result \in SUBSET Bits :
          filter_result' = [filter_result EXCEPT ![Head(c_filter)] = result]
    BY <1>1 DEF ethernet_filter
  <2>3. /\ filter_result' \in [Bufs -> SUBSET Bits] /\ stage' \in [Bufs -> 0 .. 1]
        /\ c_filter' \in Seq(Bufs)
    BY <1>0, <1>1, <2>1, <2>2 DEF ethernet_filter, TypeOK
  <2>4. freed' \subseteq Live'
    BY <1>0, <1>1 DEF ethernet_filter, TypeOK, Live, InPool
  <2>5. TypeOK'
    BY <1>0, <1>1, <2>3, <2>4 DEF ethernet_filter, TypeOK, ringVars, setupVars, ownerVars
  <2>6. QED  BY <1>1, <2>5, QuietStep DEF ethernet_filter, ringVars, ownerVars, FramesInv, CountsOwners
<1>2. ASSUME NEW i \in Links, SendFrame(i)  PROVE FramesInv'
  <2>1. i \in 0 .. NumLinks
    BY FramesAssumption DEF Links
  <2>2. Live' = Live
    BY <1>2 DEF SendFrame, poolVars, Live, InPool
  <2>3. TypeOK'
    BY <1>0, <1>2, <2>1, <2>2 DEF SendFrame, TypeOK, poolVars, packetVars, ringVars, setupVars
  <2>4. QED
    BY <1>2, <2>3, QuietStep DEF SendFrame, poolVars, packetVars, ringVars, FramesInv, CountsOwners
<1>3. ASSUME NEW i \in Links, mac_set_custom_filter(i)  PROVE FramesInv'
  <2>1. custom_filter_mask' \in [Links -> SUBSET Bits]
    BY <1>0, <1>3, FramesAssumption DEF mac_set_custom_filter, TypeOK
  <2>2. Live' = Live
    BY <1>3 DEF mac_set_custom_filter, poolVars, Live, InPool
  <2>3. TypeOK'
    BY <1>0, <1>3, <2>1, <2>2
    DEF mac_set_custom_filter, TypeOK, poolVars, packetVars, ringVars, ownerVars
  <2>4. QED
    BY <1>3, <2>3, QuietStep
    DEF mac_set_custom_filter, poolVars, packetVars, ringVars, ownerVars, FramesInv, CountsOwners
<1>4. ASSUME NEW i \in Links, mac_set_queue_size(i)  PROVE FramesInv'
  <2>1. max_queue_size' \in [Links -> Nat]
    BY <1>0, <1>4, FramesAssumption DEF mac_set_queue_size, TypeOK
  <2>2. Live' = Live
    BY <1>4 DEF mac_set_queue_size, poolVars, Live, InPool
  <2>3. TypeOK'
    BY <1>0, <1>4, <2>1, <2>2
    DEF mac_set_queue_size, TypeOK, poolVars, packetVars, ringVars, ownerVars
  <2>4. QED
    BY <1>4, <2>3, QuietStep
    DEF mac_set_queue_size, poolVars, packetVars, ringVars, ownerVars, FramesInv, CountsOwners
<1>5. ASSUME NEW p \in Pools, Forward(p)  PROVE FramesInv'
  <2> DEFINE b == pool[p][1]
  <2>1. b \in Bufs /\ 1 \in 1 .. Len(pool[p]) /\ forwarding[b]
    BY <1>0, <1>5 DEF Forward, TypeOK
  <2>2. b \in InUse
    <3> HIDE DEF b
    <3>1. QED  BY <1>0, <2>1, NoOwner
  <2>3. Live' = Live
    BY <1>5 DEF Forward, poolVars, Live, InPool
  <2>4. transmitting' = {b}
    BY <1>5 DEF Forward
  <2> HIDE DEF b
  <2>5. TypeOK'
    BY <1>0, <1>5, <2>1, <2>3, <2>4
    DEF Forward, TypeOK, poolVars, packetVars, ringVars, setupVars
  <2>6. QED
    BY <1>5, <2>1, <2>2, <2>4, <2>5, QuietStep
    DEF Forward, poolVars, packetVars, ringVars, FramesInv
<1>6. QED  BY <1>1, <1>2, <1>3, <1>4, <1>5

\* A new packet: nobody owns the memory it is given.
LEMMA CommitStep ==
  ASSUME FramesInv, NEW p \in Pools, RxCommit(p)
  PROVE  FramesInv'
<1>0. TypeOK /\ CountsOwners /\ OnePlace /\ pool \in [Pools -> Seq(Bufs)]
  BY DEF FramesInv, TypeOK
<1>1. PICK b \in Bufs \ Live :
        /\ pool' = [pool EXCEPT ![p] = Append(@, b)]
        /\ stage' = [stage EXCEPT ![b] = 0]
        /\ forwarding' = [forwarding EXCEPT ![b] = FALSE]
        /\ taken' = taken \ {b}
        /\ c_filter' = Append(c_filter, b)
  BY DEF RxCommit
<1>2. UNCHANGED <<freed, filter_result, tcount, rdIndex, wrIndex, fifo,
                  custom_filter_mask, max_queue_size, sending, transmitting>>
  BY DEF RxCommit, ringVars, setupVars, ownerVars
<1>3. /\ pool' \in [Pools -> Seq(Bufs)]
      /\ \A q \in Pools : /\ Len(pool[q]) \in Nat
                          /\ q # p => pool'[q] = pool[q]
      /\ Len(pool'[p]) = Len(pool[p]) + 1
      /\ \A k \in 1 .. Len(pool[p]) : pool'[p][k] = pool[p][k]
      /\ pool'[p][Len(pool[p]) + 1] = b
  BY <1>0, <1>1
<1>4. \A q \in Pools : \A k \in 1 .. Len(pool'[q]) :
        \/ k \in 1 .. Len(pool[q]) /\ pool'[q][k] = pool[q][k] /\ pool[q][k] # b
        \/ q = p /\ k = Len(pool[p]) + 1 /\ pool'[q][k] = b
  <2>1. \A q \in Pools : \A k \in 1 .. Len(pool[q]) : pool[q][k] # b
    BY LivePlaces
  <2>2. QED  BY <1>3, <2>1
<1>5. Live' = Live \cup {b}
  <2>1. ASSUME NEW x \in Live'  PROVE x \in Live \cup {b}
    <3>1. PICK q \in Pools : \E k \in 1 .. Len(pool'[q]) : pool'[q][k] = x
      BY <2>1 DEF Live, InPool
    <3>2. PICK k \in 1 .. Len(pool'[q]) : pool'[q][k] = x
      BY <3>1
    <3>3. QED  BY <1>4, <3>2, LivePlaces
  <2>2. ASSUME NEW x \in Live  PROVE x \in Live'
    <3>1. PICK q \in Pools : \E k \in 1 .. Len(pool[q]) : pool[q][k] = x
      BY <2>2, LivePlaces
    <3>2. PICK k \in 1 .. Len(pool[q]) : pool[q][k] = x
      BY <3>1
    <3>3. k \in 1 .. Len(pool'[q]) /\ pool'[q][k] = x
      BY <1>3, <3>2
    <3>4. QED  BY <3>3 DEF Live, InPool
  <2>3. b \in Live'
    <3>1. Len(pool[p]) + 1 \in 1 .. Len(pool'[p])
      BY <1>3
    <3>2. QED  BY <1>3, <3>1 DEF Live, InPool
  <2>4. QED  BY <2>1, <2>2, <2>3
<1>6. freed \subseteq Live /\ b \notin freed /\ b \notin InUse
  BY <1>0, <1>1 DEF TypeOK, InUse
<1>7. InUse' = InUse
  BY <1>1, <1>2, <1>5, <1>6 DEF InUse
<1>8. ~forwarding[b]
  BY <1>0, <1>1, <1>6, NoOwner
<1>9. \A c \in Bufs : forwarding'[c] = forwarding[c]
  <2>1. forwarding \in [Bufs -> BOOLEAN]
    BY <1>0 DEF TypeOK
  <2>2. forwarding[b] = FALSE
    BY <1>8, <2>1
  <2>3. QED  BY <1>1, <2>1, <2>2
<1>10. \A i \in Links : QueueSize(i)' = QueueSize(i) /\ Queue(i)' = Queue(i)
  BY <1>2, SameQueue
<1>11. \A i \in Links : \A n : Entry(i, n)' = Entry(i, n)
  BY <1>2, SameQueue
<1>12. \A c \in Bufs : Owners(c)' = Owners(c)
  BY <1>9, <1>10, OwnersSame
<1>13. CountsOwners'
  <2>1. transmitting \subseteq Bufs
    BY <1>0 DEF TypeOK
  <2>2. InUse \subseteq Bufs
    BY <1>0 DEF TypeOK, InUse
  <2>3. \A c \in Bufs : Owners(c)' # {} => c \in InUse'
    BY <1>0, <1>7, <1>12 DEF CountsOwners
  <2>4. \A c \in InUse' : tcount'[c] + 1 = Cardinality(Owners(c)')
    BY <1>0, <1>2, <1>7, <1>12, <2>2 DEF CountsOwners
  <2>5. transmitting' \subseteq {c \in InUse' : forwarding'[c]}
    BY <1>0, <1>2, <1>7, <1>9, <2>1 DEF CountsOwners
  <2>6. QED  BY <2>3, <2>4, <2>5 DEF CountsOwners
<1>14. EntriesApart'
  BY <1>10, <1>11 DEF EntriesApart, FramesInv
<1>15. OnePlace'
  <2>1. ASSUME NEW q \in Pools, NEW r \in Pools, NEW j \in 1 .. Len(pool'[q]),
               NEW k \in 1 .. Len(pool'[r]), pool'[q][j] = pool'[r][k]
        PROVE  q = r /\ j = k
    <3>1. CASE pool'[q][j] = b
      BY <1>4, <2>1, <3>1
    <3>2. CASE pool'[q][j] # b
      <4>1. /\ j \in 1 .. Len(pool[q]) /\ pool'[q][j] = pool[q][j]
            /\ k \in 1 .. Len(pool[r]) /\ pool'[r][k] = pool[r][k]
        BY <1>4, <2>1, <3>2
      <4>2. pool[q][j] = pool[r][k]
        BY <2>1, <4>1
      <4>3. OnePlace
        BY <1>0
      <4>4. QED  BY <4>1, <4>2, <4>3, Zenon DEF OnePlace
    <3>3. QED  BY <3>1, <3>2
  <2>2. QED  BY <2>1 DEF OnePlace
<1>16. Before(taken)'
  <2>1. ASSUME NEW q \in Pools, NEW k \in 1 .. Len(pool'[q]), NEW j \in 1 .. k - 1,
               pool'[q][k] \in taken'
        PROVE  pool'[q][j] \in taken'
    <3>1. /\ k \in 1 .. Len(pool[q]) /\ pool'[q][k] = pool[q][k]
          /\ pool[q][k] \in taken
      BY <1>1, <1>4, <2>1
    <3>2. j \in 1 .. Len(pool[q]) /\ j \in 1 .. Len(pool'[q])
      BY <1>3, <3>1
    <3>3. pool'[q][j] = pool[q][j] /\ pool[q][j] # b
      BY <1>3, <1>4, <3>2
    <3>4. pool[q][j] \in taken
      BY <3>1 DEF FramesInv, Before
    <3>5. QED  BY <1>1, <3>3, <3>4
  <2>2. QED  BY <2>1 DEF Before
<1>17. InOrder'
  <2>1. ASSUME NEW i \in Links, NEW q \in Pools, NEW m \in 0 .. QueueSize(i) - 1,
               NEW n \in 0 .. QueueSize(i) - 1, NEW j \in 1 .. Len(pool'[q]),
               NEW k \in 1 .. Len(pool'[q]),
               m < n, Entry(i, m) = pool'[q][j], Entry(i, n) = pool'[q][k]
        PROVE  j < k
    <3>1. Entry(i, m) # b /\ Entry(i, n) # b
      BY <1>0, <1>6, EntryType, QueueInUse
    <3>2. /\ j \in 1 .. Len(pool[q]) /\ pool'[q][j] = pool[q][j]
          /\ k \in 1 .. Len(pool[q]) /\ pool'[q][k] = pool[q][k]
      BY <1>4, <2>1, <3>1
    <3>3. QED  BY <2>1, <3>2 DEF FramesInv, InOrder
  <2>2. QED  BY <1>10, <1>11, <2>1 DEF InOrder
<1>18. TypeOK'
  <2>1. stage' \in [Bufs -> 0 .. 1] /\ forwarding' \in [Bufs -> BOOLEAN]
    BY <1>0, <1>1 DEF TypeOK
  <2>2. c_filter' \in Seq(Bufs) /\ taken' \subseteq Bufs
    BY <1>0, <1>1 DEF TypeOK
  <2>3. QED  BY <1>0, <1>2, <1>3, <1>5, <2>1, <2>2 DEF TypeOK
<1>19. freed' \subseteq taken'
  BY <1>1, <1>2, <1>6 DEF FramesInv
<1>20. QED
  BY <1>2, <1>13, <1>14, <1>15, <1>16, <1>17, <1>18, <1>19 DEF FramesInv

\* mii_free keeps the pools, and what the server has passed, in order.
LEMMA FreeKept ==
  ASSUME TypeOK, OnePlace, Before(taken'), NEW B \in SUBSET taken', mii_free(B),
         freed \subseteq taken'
  PROVE  /\ pool' \in [Pools -> Seq(Bufs)] /\ PoolsKept /\ OnePlace'
         /\ Before(taken)' /\ freed' \subseteq Live' /\ freed' \subseteq taken'
<1>1. pool \in [Pools -> Seq(Bufs)]
  BY DEF TypeOK
<1>2. /\ pool' \in [Pools -> Seq(Bufs)]
      /\ freed' = (freed \cup B) \cap Live'
  BY <1>1, FreePools
<1>3. OnePlace' /\ PoolsKept
  BY <1>1, FreePlaces DEF PoolsKept
<1>4. Before(taken)'
  BY <1>1, <1>2, <1>3, BeforeKept DEF Before
<1>5. QED  BY <1>2, <1>3, <1>4

\* An owner o of b is done with it: the count stays right, and memory is
\* released with the last owner.
LEMMA FinishStep ==
  ASSUME FramesInv, NEW b \in InUse, NEW o \in Owners(b), Finish(b),
         Owners(b)' = Owners(b) \ {o},
         \A c \in Bufs : c # b => Owners(c)' = Owners(c),
         taken' = taken
  PROVE  /\ pool' \in [Pools -> Seq(Bufs)] /\ tcount' \in [Bufs -> 0 .. NumLinks]
         /\ PoolsKept /\ OnePlace' /\ Before(taken)'
         /\ freed' \subseteq Live' /\ freed' \subseteq taken'
         /\ \A c \in Bufs : Owners(c)' # {} => c \in InUse'
         /\ \A c \in InUse' : tcount'[c] + 1 = Cardinality(Owners(c)')
<1>0. /\ TypeOK /\ OnePlace /\ Before(taken') /\ freed \subseteq taken'
      /\ b \in Bufs /\ InUse \subseteq taken' /\ CountsOwners
      /\ pool \in [Pools -> Seq(Bufs)] /\ tcount \in [Bufs -> 0 .. NumLinks]
      /\ InUse \subseteq Bufs
  BY DEF FramesInv, TypeOK, InUse, Before
<1>1. /\ IsFiniteSet(Owners(b)) /\ Cardinality(Owners(b)) \in Nat
      /\ Cardinality(Owners(b)') = Cardinality(Owners(b)) - 1
  BY OwnersFinite, FS_RemoveElement
<1>2. tcount[b] \in Nat /\ tcount[b] <= NumLinks /\ tcount[b] + 1 = Cardinality(Owners(b))
  BY <1>0, FramesAssumption DEF CountsOwners
<1>3. CASE tcount[b] = 0
  <2>1. mii_free({b}) /\ tcount' = tcount
    BY <1>3 DEF Finish
  <2>2. /\ pool' \in [Pools -> Seq(Bufs)] /\ PoolsKept /\ OnePlace'
        /\ Before(taken)' /\ freed' \subseteq Live' /\ freed' \subseteq taken'
    BY <1>0, <2>1, FreeKept
  <2>3. Owners(b)' = {}
    <3>1. Cardinality(Owners(b)') = 0 /\ IsFiniteSet(Owners(b)')
      BY <1>1, <1>2, <1>3, OwnersFinite
    <3>2. QED  BY <3>1, FS_EmptySet
  <2>4. InUse' = InUse \ {b}
    <3>1. /\ Live' \subseteq Live /\ Live \ Live' \subseteq freed \cup {b}
          /\ freed' = (freed \cup {b}) \cap Live'
      BY <1>0, <2>1, FreeLive, FreePools
    <3>2. QED  BY <3>1 DEF InUse
  <2>5. \A c \in Bufs : Owners(c)' # {} => c \in InUse'
    BY <1>0, <2>3, <2>4 DEF CountsOwners
  <2>6. \A c \in InUse' : tcount'[c] + 1 = Cardinality(Owners(c)')
    BY <1>0, <2>1, <2>4 DEF CountsOwners
  <2>7. QED  BY <1>0, <2>1, <2>2, <2>5, <2>6
<1>4. CASE tcount[b] # 0
  <2>1. tcount' = [tcount EXCEPT ![b] = @ - 1] /\ pool' = pool /\ freed' = freed
    BY <1>4 DEF Finish
  <2>2. PoolsKept /\ Live' = Live /\ OnePlace'
    BY <1>0, <2>1, PoolsSame
  <2>3. Before(taken)' /\ freed' \subseteq Live' /\ freed' \subseteq taken'
    BY <1>0, <2>1, <2>2 DEF Before, TypeOK
  <2>4. InUse' = InUse
    BY <2>1, <2>2 DEF InUse
  <2>5. tcount' \in [Bufs -> 0 .. NumLinks] /\ tcount'[b] = tcount[b] - 1
    BY <1>0, <1>2, <1>4, <2>1, FramesAssumption
  <2>6. \A c \in Bufs : Owners(c)' # {} => c \in InUse'
    BY <1>0, <2>4 DEF CountsOwners
  <2>7. ASSUME NEW c \in InUse'  PROVE tcount'[c] + 1 = Cardinality(Owners(c)')
    <3>1. CASE c = b
      <4>1. Cardinality(Owners(b)') = tcount[b]
        BY <1>1, <1>2
      <4>2. Cardinality(Owners(c)') = tcount[b] /\ tcount'[c] = tcount[b] - 1
        BY <2>5, <3>1, <4>1
      <4>3. QED  BY <1>2, <4>2
    <3>2. CASE c # b
      <4>1. c \in InUse /\ c \in Bufs /\ tcount'[c] = tcount[c]
        BY <1>0, <2>1, <2>4, <2>7, <3>2
      <4>2. QED  BY <1>0, <3>2, <4>1 DEF CountsOwners
    <3>3. QED  BY <3>1, <3>2
  <2>8. QED  BY <1>0, <2>1, <2>2, <2>3, <2>5, <2>6, <2>7
<1>5. QED  BY <1>3, <1>4

\* A client has read the oldest packet of its queue.
LEMMA SentStep ==
  ASSUME FramesInv, FrameSent
  PROVE  FramesInv'
<1>0. TypeOK /\ CountsOwners /\ EntriesApart /\ InOrder /\ pool \in [Pools -> Seq(Bufs)]
  BY DEF FramesInv, TypeOK
<1>a. PICK i \in Links : i = sending /\ rdIndex[i] # wrIndex[i]
  BY <1>0, FramesAssumption DEF FramesInv, FrameSent, TypeOK, Links
<1>b. PICK b \in Bufs : b = fifo[i][rdIndex[i]]
  BY <1>0, <1>a DEF TypeOK
<1>1. i \in Links /\ rdIndex[i] # wrIndex[i]
  BY <1>a
<1>2. /\ Finish(b) /\ rdIndex' = [rdIndex EXCEPT ![i] = NextIndex(@)] /\ sending' = 0
      /\ UNCHANGED <<c_filter, taken, stage, filter_result, forwarding, wrIndex, fifo,
                     custom_filter_mask, max_queue_size, transmitting>>
  BY <1>a, <1>b DEF FrameSent, setupVars
<1>3. rdIndex \in [Links -> Slots] /\ rdIndex'[i] = NextIndex(rdIndex[i])
  BY <1>0, <1>1, <1>2 DEF TypeOK
<1>4. /\ QueueSize(i)' = QueueSize(i) - 1
      /\ \A n \in 0 .. QueueSize(i) - 2 : Entry(i, n)' = Entry(i, n + 1)
      /\ Entry(i, 0) = b /\ Entry(i, 0) \in Queue(i)
  BY <1>0, <1>1, <1>2, <1>3, <1>b, Pop
<1>5. QueueSize(i) \in Nat /\ QueueSize(i) # 0
  BY <1>0, <1>1, SizeInSlots, FramesAssumption DEF Slots
<1>6. ASSUME NEW k \in Links, k # i
      PROVE  Queue(k)' = Queue(k) /\ QueueKept(k)
  <2>1. rdIndex'[k] = rdIndex[k] /\ wrIndex'[k] = wrIndex[k] /\ fifo'[k] = fifo[k]
    BY <1>2, <1>3, <1>6
  <2>2. QED  BY <2>1, SameQueue, QueueSame
<1>7. QueueKept(i)
  <2>1. ASSUME NEW j \in 0 .. QueueSize(i)' - 1, NEW k \in 0 .. QueueSize(i)' - 1
        PROVE  \E l, m \in 0 .. QueueSize(i) - 1 :
                 /\ Entry(i, j)' = Entry(i, l) /\ Entry(i, k)' = Entry(i, m)
                 /\ j < k <=> l < m
                 /\ j = k <=> l = m
    <3>1. /\ j + 1 \in 0 .. QueueSize(i) - 1 /\ Entry(i, j)' = Entry(i, j + 1)
          /\ k + 1 \in 0 .. QueueSize(i) - 1 /\ Entry(i, k)' = Entry(i, k + 1)
          /\ j < k <=> j + 1 < k + 1
          /\ j = k <=> j + 1 = k + 1
      BY <1>4, <1>5
    <3>2. QED  BY <3>1
  <2>2. QED  BY <2>1 DEF QueueKept
<1>8. Queue(i)' = Queue(i) \ {b}
  <2>1. ASSUME NEW x \in Queue(i)'  PROVE x \in Queue(i) \ {b}
    <3>1. PICK n \in 0 .. QueueSize(i)' - 1 : x = Entry(i, n)'
      BY <2>1 DEF Queue
    <3>2. n \in 0 .. QueueSize(i) - 2
      BY <1>4, <1>5
    <3>3. x = Entry(i, n + 1)
      BY <1>4, <3>1, <3>2
    <3>4. n + 1 \in 0 .. QueueSize(i) - 1 /\ 0 \in 0 .. QueueSize(i) - 1 /\ n + 1 # 0
      BY <1>5, <3>2
    <3>5. x # Entry(i, 0)
      BY <1>0, <1>1, <3>3, <3>4 DEF EntriesApart
    <3>6. QED  BY <1>1, <1>4, <3>3, <3>4, <3>5, InQueue
  <2>2. ASSUME NEW x \in Queue(i), x # b  PROVE x \in Queue(i)'
    <3>1. PICK n \in 0 .. QueueSize(i) - 1 : Entry(i, n) = x
      BY <1>1, <2>2, InQueue
    <3>2. n # 0
      BY <1>4, <2>2, <3>1
    <3>3. n - 1 \in 0 .. QueueSize(i) - 2 /\ (n - 1) + 1 = n
      BY <1>5, <3>2
    <3>4. Entry(i, n - 1)' = x
      BY <1>4, <3>1, <3>3
    <3>5. n - 1 \in 0 .. QueueSize(i)' - 1
      BY <1>4, <1>5, <3>3
    <3>6. QED  BY <3>4, <3>5 DEF Queue
  <2>3. QED  BY <2>1, <2>2
<1>9. b \in Bufs /\ b \in InUse /\ i \in Owners(b)
  <2>1. 0 \in 0 .. QueueSize(i) - 1
    BY <1>5
  <2>2. b \in Bufs /\ b \in Queue(i)
    BY <1>0, <1>1, <1>4, <2>1, EntryType
  <2>3. b \in InUse
    BY <1>0, <1>1, <2>2, QueueInUse
  <2>4. QED  BY <1>1, <2>2, <2>3, OwnersFinite
<1>10. Owners(b)' = Owners(b) \ {i}
  <2>1. 0 # i
    BY <1>1, FramesAssumption DEF Links
  <2>2. \A k \in Links : b \in Queue(k)' <=> b \in Queue(k) /\ k # i
    BY <1>6, <1>8
  <2>3. QED  BY <1>2, <2>1, <2>2 DEF Owners
<1>11. ASSUME NEW c \in Bufs, c # b  PROVE Owners(c)' = Owners(c)
  <2>1. \A k \in Links : c \in Queue(k)' <=> c \in Queue(k)
    BY <1>6, <1>8, <1>11
  <2>2. QED  BY <1>2, <2>1, OwnersSame
<1>12. /\ pool' \in [Pools -> Seq(Bufs)] /\ tcount' \in [Bufs -> 0 .. NumLinks]
       /\ PoolsKept /\ OnePlace' /\ Before(taken)'
       /\ freed' \subseteq Live' /\ freed' \subseteq taken'
       /\ \A c \in Bufs : Owners(c)' # {} => c \in InUse'
       /\ \A c \in InUse' : tcount'[c] + 1 = Cardinality(Owners(c)')
  BY <1>2, <1>9, <1>10, <1>11, FinishStep
<1>13. EntriesApart' /\ InOrder'
  BY <1>0, <1>6, <1>7, <1>12, OrderKept
<1>14. transmitting' \subseteq {c \in InUse' : forwarding'[c]}
  <2>1. ASSUME NEW c \in transmitting  PROVE c \in InUse' /\ forwarding'[c]
    <3>1. c \in Bufs /\ forwarding[c] /\ forwarding'[c]
      BY <1>0, <1>2 DEF TypeOK, CountsOwners
    <3>2. 0 \in Owners(c)'
      BY <3>1 DEF Owners
    <3>3. QED  BY <1>12, <3>1, <3>2
  <2>2. QED  BY <1>2, <2>1
<1>15. CountsOwners'
  BY <1>12, <1>14 DEF CountsOwners
<1>16. TypeOK'
  <2>1. rdIndex' \in [Links -> Slots]
    <3>1. \A k \in Slots : NextIndex(k) \in Slots
      BY FramesAssumption DEF NextIndex, Slots
    <3>2. QED  BY <1>1, <1>2, <1>3, <3>1
  <2>2. sending' \in 0 .. NumLinks
    BY <1>2, FramesAssumption
  <2>3. QED  BY <1>0, <1>2, <1>12, <2>1, <2>2 DEF TypeOK
<1>17. QED  BY <1>2, <1>12, <1>13, <1>15, <1>16 DEF FramesInv

\* The other port has transmitted a packet.
LEMMA ForwardedStep ==
  ASSUME FramesInv, Forwarded
  PROVE  FramesInv'
<1>0. TypeOK /\ CountsOwners /\ EntriesApart /\ InOrder /\ pool \in [Pools -> Seq(Bufs)]
  BY DEF FramesInv, TypeOK
<1>1. PICK b \in transmitting :
        /\ forwarding' = [forwarding EXCEPT ![b] = FALSE]
        /\ Finish(b)
        /\ transmitting' = {}
        /\ UNCHANGED <<c_filter, taken, stage, filter_result, rdIndex, wrIndex, fifo,
                       custom_filter_mask, max_queue_size, sending>>
  BY DEF Forwarded, ringVars, setupVars
<1>2. b \in InUse /\ forwarding[b] /\ b \in Bufs /\ forwarding \in [Bufs -> BOOLEAN]
  BY <1>0 DEF CountsOwners, TypeOK
<1>3. \A i \in Links : Queue(i)' = Queue(i) /\ QueueKept(i)
  BY <1>1, SameQueue, QueueSame
<1>4. Owners(b)' = Owners(b) \ {0} /\ 0 \in Owners(b)
  <2>1. 0 \notin Links
    BY FramesAssumption DEF Links
  <2>2. ~forwarding'[b]
    BY <1>1, <1>2
  <2>3. QED  BY <1>2, <1>3, <2>1, <2>2 DEF Owners
<1>5. ASSUME NEW c \in Bufs, c # b  PROVE Owners(c)' = Owners(c)
  <2>1. forwarding'[c] = forwarding[c]
    BY <1>1, <1>2, <1>5
  <2>2. QED  BY <1>3, <2>1, OwnersSame
<1>6. /\ pool' \in [Pools -> Seq(Bufs)] /\ tcount' \in [Bufs -> 0 .. NumLinks]
      /\ PoolsKept /\ OnePlace' /\ Before(taken)'
      /\ freed' \subseteq Live' /\ freed' \subseteq taken'
      /\ \A c \in Bufs : Owners(c)' # {} => c \in InUse'
      /\ \A c \in InUse' : tcount'[c] + 1 = Cardinality(Owners(c)')
  BY <1>1, <1>2, <1>4, <1>5, FinishStep
<1>7. EntriesApart' /\ InOrder'
  BY <1>0, <1>3, <1>6, OrderKept
<1>8. CountsOwners'
  BY <1>1, <1>6 DEF CountsOwners
<1>9. TypeOK'
  <2>1. forwarding' \in [Bufs -> BOOLEAN]
    BY <1>1, <1>2
  <2>2. QED  BY <1>0, <1>1, <1>6, <2>1 DEF TypeOK
<1>10. QED  BY <1>1, <1>6, <1>7, <1>8, <1>9 DEF FramesInv

\* The number of clients a packet is queued for.
LEMMA ClientsCount ==
  ASSUME NEW S \in SUBSET Links
  PROVE  /\ IsFiniteSet(S) /\ Cardinality(S) \in 0 .. NumLinks
         /\ Cardinality(S) = 0 <=> S = {}
<1>1. IsFiniteSet(Links) /\ Cardinality(Links) = NumLinks
  BY FramesAssumption, FS_Interval DEF Links
<1>2. IsFiniteSet(S) /\ Cardinality(S) <= NumLinks
  BY <1>1, FS_Subset
<1>3. Cardinality(S) \in Nat /\ (Cardinality(S) = 0 <=> S = {})
  BY <1>2, FS_CardinalityType, FS_EmptySet
<1>4. QED  BY <1>2, <1>3, FramesAssumption

\* The server handles the packet at its rdptr.
LEMMA ReceivedStep ==
  ASSUME FramesInv, NEW p \in Pools, process_received_frame(p)
  PROVE  FramesInv'
<1>0. /\ TypeOK /\ CountsOwners /\ EntriesApart /\ InOrder /\ OnePlace /\ Before(taken)
      /\ pool \in [Pools -> Seq(Bufs)] /\ freed \subseteq taken
  BY DEF FramesInv, TypeOK
<1>1. PICK k \in 1 .. Len(pool[p]) :
        LET b == pool[p][k]
            S == {i \in Links : Match(i, b) /\ QueueHasRoom(i)}
        IN  /\ AtReadPointer(p, k) /\ stage[b] = 1
            /\ taken' = taken \cup {b}
            /\ fifo' = [i \in Links |-> IF i \in S THEN [fifo[i] EXCEPT ![wrIndex[i]] = b]
                                        ELSE fifo[i]]
            /\ wrIndex' = [i \in Links |-> IF i \in S THEN NextIndex(wrIndex[i])
                                           ELSE wrIndex[i]]
            /\ IF Count(b, S) < 0
               THEN mii_free({b}) /\ UNCHANGED <<tcount, forwarding>>
               ELSE /\ tcount' = [tcount EXCEPT ![b] = Count(b, S)]
                    /\ forwarding' = [forwarding EXCEPT ![b] = FORWARD \in filter_result[b]]
                    /\ UNCHANGED <<pool, freed>>
  BY DEF process_received_frame
<1>2. PICK b \in Bufs : b = pool[p][k]
  BY <1>0
<1>3. PICK S \in SUBSET Links : S = {i \in Links : Match(i, b) /\ QueueHasRoom(i)}
  OBVIOUS
<1>4. /\ AtReadPointer(p, k) /\ taken' = taken \cup {b}
      /\ fifo' = [i \in Links |-> IF i \in S THEN [fifo[i] EXCEPT ![wrIndex[i]] = b]
                                  ELSE fifo[i]]
      /\ wrIndex' = [i \in Links |-> IF i \in S THEN NextIndex(wrIndex[i]) ELSE wrIndex[i]]
      /\ UNCHANGED <<c_filter, stage, filter_result, rdIndex, custom_filter_mask,
                     max_queue_size, sending, transmitting>>
  BY <1>1, <1>2, <1>3 DEF process_received_frame, setupVars, ownerVars
<1>5. IF Count(b, S) < 0
      THEN mii_free({b}) /\ tcount' = tcount /\ forwarding' = forwarding
      ELSE /\ tcount' = [tcount EXCEPT ![b] = Count(b, S)]
           /\ forwarding' = [forwarding EXCEPT ![b] = FORWARD \in filter_result[b]]
           /\ pool' = pool /\ freed' = freed
  BY <1>1, <1>2, <1>3
<1>6. b \in Live /\ b \notin taken /\ b \notin freed /\ b \notin InUse
  BY <1>0, <1>2, <1>4, LivePlaces DEF AtReadPointer, InUse
<1>7. Owners(b) = {} /\ ~forwarding[b] /\ \A i \in Links : b \notin Queue(i)
  BY <1>0, <1>6, NoOwner
\* b comes right after the packets of its pool that are taken.
<1>8. \A j \in 1 .. Len(pool[p]) : pool[p][j] \in taken => j < k
  <2>1. ASSUME NEW j \in 1 .. Len(pool[p]), pool[p][j] \in taken, ~(j < k)
        PROVE  FALSE
    <3>1. Len(pool[p]) \in Nat /\ j # k
      BY <1>0, <1>2, <1>6, <2>1
    <3>2. k \in 1 .. j - 1
      BY <2>1, <3>1
    <3>3. pool[p][k] \in taken
      BY <1>0, <2>1, <3>2 DEF Before
    <3>4. QED  BY <1>2, <1>6, <3>3
  <2>2. QED  BY <2>1
<1>9. Before(taken')
  <2>1. ASSUME NEW q \in Pools, NEW m \in 1 .. Len(pool[q]), NEW j \in 1 .. m - 1,
               pool[q][m] \in taken'
        PROVE  pool[q][j] \in taken'
    <3>1. CASE pool[q][m] \in taken
      BY <1>0, <1>4, <3>1 DEF Before
    <3>2. CASE pool[q][m] = b
      <4>1. q = p /\ m = k
        BY <1>0, <1>2, <3>2 DEF OnePlace
      <4>2. QED  BY <1>4, <4>1 DEF AtReadPointer
    <3>3. QED  BY <1>4, <2>1, <3>1, <3>2
  <2>2. QED  BY <2>1 DEF Before
<1>10. ASSUME NEW i \in S
       PROVE  /\ QueueSize(i)' = QueueSize(i) + 1
              /\ \A n \in 0 .. QueueSize(i) - 1 : Entry(i, n)' = Entry(i, n)
              /\ \A n : n = QueueSize(i) => Entry(i, n)' = b
              /\ Queue(i)' = Queue(i) \cup {b}
  <2>1. i \in Links /\ QueueHasRoom(i)
    BY <1>3
  <2>2. /\ rdIndex'[i] = rdIndex[i] /\ wrIndex'[i] = NextIndex(wrIndex[i])
        /\ fifo'[i] = [fifo[i] EXCEPT ![wrIndex[i]] = b]
    BY <1>4, <2>1
  <2>3. QED  BY <1>0, <2>1, <2>2, Push
<1>11. ASSUME NEW i \in Links, i \notin S
       PROVE  /\ QueueSize(i)' = QueueSize(i) /\ Queue(i)' = Queue(i)
              /\ \A n : Entry(i, n)' = Entry(i, n)
              /\ QueueKept(i)
  <2>1. rdIndex'[i] = rdIndex[i] /\ wrIndex'[i] = wrIndex[i] /\ fifo'[i] = fifo[i]
    BY <1>4, <1>11
  <2>2. QED  BY <2>1, SameQueue, QueueSame
<1>12. Cardinality(S) \in 0 .. NumLinks /\ IsFiniteSet(S) /\ (Cardinality(S) = 0 <=> S = {})
  BY ClientsCount
<1>13. transmitting \subseteq {c \in InUse : forwarding[c]} /\ transmitting \subseteq Bufs
  BY <1>0 DEF CountsOwners, TypeOK
<1>14. InUse \subseteq Bufs
  BY <1>0 DEF InUse, TypeOK
<1>15. /\ wrIndex' \in [Links -> Slots] /\ fifo' \in [Links -> [Slots -> Bufs]]
       /\ taken' \subseteq Bufs
  <2>1. wrIndex \in [Links -> Slots] /\ fifo \in [Links -> [Slots -> Bufs]]
    BY <1>0 DEF TypeOK
  <2>2. \A x \in Slots : NextIndex(x) \in Slots
    BY FramesAssumption DEF NextIndex, Slots
  <2>3. QED  BY <1>0, <1>4, <2>1, <2>2 DEF TypeOK
<1>16. CASE Count(b, S) < 0
  <2>1. mii_free({b}) /\ tcount' = tcount /\ forwarding' = forwarding
    BY <1>5, <1>16
  <2>2. S = {}
    BY <1>12, <1>16, FramesAssumption DEF Count
  <2>3. /\ pool' \in [Pools -> Seq(Bufs)] /\ PoolsKept /\ OnePlace'
        /\ Before(taken)' /\ freed' \subseteq Live' /\ freed' \subseteq taken'
    <3>1. {b} \in SUBSET taken' /\ freed \subseteq taken'
      BY <1>0, <1>4
    <3>2. QED  BY <1>0, <1>9, <2>1, <3>1, FreeKept
  <2>4. InUse' = InUse
    <3>1. /\ Live' \subseteq Live /\ Live \ Live' \subseteq freed \cup {b}
          /\ freed' = (freed \cup {b}) \cap Live'
      BY <1>0, <2>1, FreeLive, FreePools
    <3>2. QED  BY <1>4, <1>6, <3>1 DEF InUse
  <2>5. \A c \in Bufs : Owners(c)' = Owners(c)
    BY <1>11, <2>1, <2>2, OwnersSame
  <2>6. CountsOwners'
    <3>1. transmitting' \subseteq {c \in InUse' : forwarding'[c]}
      BY <1>4, <1>13, <2>1, <2>4
    <3>2. \A c \in Bufs : Owners(c)' # {} => c \in InUse'
      BY <1>0, <2>4, <2>5 DEF CountsOwners
    <3>3. \A c \in InUse' : tcount'[c] + 1 = Cardinality(Owners(c)')
      BY <1>0, <1>14, <2>1, <2>4, <2>5 DEF CountsOwners
    <3>4. QED  BY <3>1, <3>2, <3>3 DEF CountsOwners
  <2>7. EntriesApart' /\ InOrder'
    BY <1>0, <1>11, <2>2, <2>3, OrderKept
  <2>8. TypeOK'
    BY <1>0, <1>4, <1>15, <2>1, <2>3 DEF TypeOK
  <2>9. sending' # 0 => rdIndex'[sending'] # wrIndex'[sending']
    BY <1>4 DEF process_received_frame
  <2>10. QED  BY <2>3, <2>6, <2>7, <2>8, <2>9 DEF FramesInv
<1>17. CASE ~(Count(b, S) < 0)
  <2>1. /\ tcount' = [tcount EXCEPT ![b] = Count(b, S)]
        /\ forwarding' = [forwarding EXCEPT ![b] = FORWARD \in filter_result[b]]
        /\ pool' = pool /\ freed' = freed
    BY <1>5, <1>17
  <2>2. PoolsKept /\ Live' = Live /\ OnePlace'
    BY <1>0, <2>1, PoolsSame
  <2>3. Before(taken)' /\ freed' \subseteq Live' /\ freed' \subseteq taken'
    <3>1. Before(taken)'
      BY <1>9, <2>1 DEF Before
    <3>2. QED  BY <1>0, <1>4, <2>1, <2>2, <3>1 DEF TypeOK
  <2>4. InUse' = InUse \cup {b}
    BY <1>4, <1>6, <2>1, <2>2 DEF InUse
  <2>5. ASSUME NEW c \in Bufs, c # b  PROVE Owners(c)' = Owners(c)
    <3>1. \A i \in Links : c \in Queue(i)' <=> c \in Queue(i)
      BY <1>10, <1>11, <2>5
    <3>2. forwarding'[c] = forwarding[c]
      BY <1>0, <2>1, <2>5 DEF TypeOK
    <3>3. QED  BY <3>1, <3>2, OwnersSame
  <2>6. Owners(b)' = S \cup (IF FORWARD \in filter_result[b] THEN {0} ELSE {})
    <3>1. \A i \in Links : b \in Queue(i)' <=> i \in S
      BY <1>7, <1>10, <1>11
    <3>2. forwarding'[b] <=> FORWARD \in filter_result[b]
      BY <1>0, <2>1 DEF TypeOK
    <3>3. QED  BY <3>1, <3>2 DEF Owners
  <2>7. Count(b, S) + 1 = Cardinality(Owners(b)')
    <3>1. CASE FORWARD \in filter_result[b]
      <4>1. 0 \notin S
        BY FramesAssumption DEF Links
      <4>2. Owners(b)' = S \cup {0}
        BY <2>6, <3>1
      <4>3. Cardinality(S \cup {0}) = Cardinality(S) + 1
        BY <1>12, <4>1, FS_AddElement
      <4>4. Count(b, S) = Cardinality(S) + 1 - 1
        BY <3>1 DEF Count
      <4>5. QED  BY <1>12, <4>2, <4>3, <4>4
    <3>2. CASE FORWARD \notin filter_result[b]
      <4>1. Owners(b)' = S /\ Count(b, S) = Cardinality(S) + 0 - 1
        BY <2>6, <3>2 DEF Count
      <4>2. QED  BY <1>12, <4>1
    <3>3. QED  BY <3>1, <3>2
  <2>8. Count(b, S) \in 0 .. NumLinks
    BY <1>12, <1>17, FramesAssumption DEF Count
  <2>9. tcount' \in [Bufs -> 0 .. NumLinks] /\ tcount'[b] = Count(b, S)
    BY <1>0, <2>1, <2>8 DEF TypeOK
  <2>10. CountsOwners'
    <3>1. transmitting' \subseteq {c \in InUse' : forwarding'[c]}
      BY <1>0, <1>4, <1>6, <1>13, <2>1, <2>4 DEF TypeOK
    <3>2. \A c \in Bufs : Owners(c)' # {} => c \in InUse'
      BY <1>0, <2>4, <2>5 DEF CountsOwners
    <3>3. ASSUME NEW c \in InUse'  PROVE tcount'[c] + 1 = Cardinality(Owners(c)')
      <4>1. CASE c = b
        BY <2>7, <2>9, <4>1
      <4>2. CASE c # b
        <5>1. c \in InUse /\ c \in Bufs
          BY <1>14, <2>4, <4>2
        <5>2. tcount'[c] = tcount[c]
          BY <1>0, <2>1, <4>2, <5>1 DEF TypeOK
        <5>3. QED  BY <1>0, <2>5, <4>2, <5>1, <5>2 DEF CountsOwners
      <4>3. QED  BY <4>1, <4>2
    <3>4. QED  BY <3>1, <3>2, <3>3 DEF CountsOwners
  <2>11. ASSUME NEW i \in S
         PROVE  /\ QueueSize(i) \in Nat
                /\ \A n \in 0 .. QueueSize(i)' - 1 :
                     \/ n \in 0 .. QueueSize(i) - 1 /\ Entry(i, n)' = Entry(i, n)
                     \/ n = QueueSize(i) /\ Entry(i, n)' = b
                /\ \A n \in 0 .. QueueSize(i) - 1 : Entry(i, n) # b /\ Entry(i, n) \in taken
    <3>1. i \in Links /\ QueueSize(i) \in Nat
      BY <1>0, SizeInSlots, FramesAssumption DEF Slots
    <3>2. \A n \in 0 .. QueueSize(i)' - 1 :
            \/ n \in 0 .. QueueSize(i) - 1 /\ Entry(i, n)' = Entry(i, n)
            \/ n = QueueSize(i) /\ Entry(i, n)' = b
      BY <1>10, <3>1
    <3>3. \A n \in 0 .. QueueSize(i) - 1 : Entry(i, n) \in InUse
      BY <1>0, <3>1, EntryType, QueueInUse
    <3>4. QED  BY <1>6, <3>1, <3>2, <3>3 DEF InUse
  <2>12. EntriesApart'
    <3>1. ASSUME NEW i \in Links, NEW m \in 0 .. QueueSize(i)' - 1,
                 NEW n \in 0 .. QueueSize(i)' - 1, Entry(i, m)' = Entry(i, n)'
          PROVE  m = n
      <4>1. CASE i \in S
        BY <1>0, <2>11, <3>1, <4>1 DEF EntriesApart
      <4>2. CASE i \notin S
        BY <1>0, <1>11, <3>1, <4>2 DEF EntriesApart
      <4>3. QED  BY <4>1, <4>2
    <3>2. QED  BY <3>1 DEF EntriesApart
  <2>13. InOrder'
    <3>1. ASSUME NEW i \in Links, NEW q \in Pools, NEW m \in 0 .. QueueSize(i)' - 1,
                 NEW n \in 0 .. QueueSize(i)' - 1, NEW j \in 1 .. Len(pool[q]),
                 NEW l \in 1 .. Len(pool[q]),
                 m < n, Entry(i, m)' = pool[q][j], Entry(i, n)' = pool[q][l]
          PROVE  j < l
      <4>1. CASE i \in S
        <5>1. m \in 0 .. QueueSize(i) - 1 /\ Entry(i, m)' = Entry(i, m)
          BY <2>11, <3>1, <4>1
        <5>2. CASE n \in 0 .. QueueSize(i) - 1 /\ Entry(i, n)' = Entry(i, n)
          BY <1>0, <3>1, <5>1, <5>2 DEF InOrder
        <5>3. CASE n = QueueSize(i) /\ Entry(i, n)' = b
          <6>1. q = p /\ l = k
            BY <1>0, <1>2, <3>1, <5>3 DEF OnePlace
          <6>2. pool[p][j] \in taken
            BY <2>11, <3>1, <4>1, <5>1, <6>1
          <6>3. QED  BY <1>8, <6>1, <6>2
        <5>4. QED  BY <2>11, <4>1, <5>2, <5>3
      <4>2. CASE i \notin S
        BY <1>0, <1>11, <3>1, <4>2 DEF InOrder
      <4>3. QED  BY <4>1, <4>2
    <3>2. QED  BY <2>1, <3>1 DEF InOrder
  <2>14. TypeOK'
    <3>1. forwarding' \in [Bufs -> BOOLEAN]
      BY <1>0, <2>1 DEF TypeOK
    <3>2. QED  BY <1>0, <1>4, <1>15, <2>1, <2>3, <2>9, <3>1 DEF TypeOK
  <2>15. sending' # 0 => rdIndex'[sending'] # wrIndex'[sending']
    BY <1>4 DEF process_received_frame
  <2>16. QED  BY <2>2, <2>3, <2>10, <2>12, <2>13, <2>14, <2>15 DEF FramesInv
<1>18. QED  BY <1>16, <1>17

-----------------------------------------------------------------------------
(* The queues, step by step *)

\* What a step does to the queue of client i.  Its packets stay, and it does
\* not have room for the packet that the server takes or its filter does not
\* match; or that packet is added at its end; or the client has read the first
\* one.
QueueStep(i) ==
  \/ /\ QueueSize(i)' = QueueSize(i)
     /\ \A n \in 0 .. QueueSize(i) - 1 : Entry(i, n)' = Entry(i, n)
     /\ \A b \in taken' \ taken : ~(Match(i, b) /\ QueueHasRoom(i))
  \/ /\ QueueSize(i)' = QueueSize(i) + 1
     /\ \A n \in 0 .. QueueSize(i) - 1 : Entry(i, n)' = Entry(i, n)
     /\ \E b \in taken' \ taken :
          /\ Match(i, b) /\ QueueHasRoom(i)
          /\ \A n \in Slots : n = QueueSize(i) => Entry(i, n)' = b
  \/ /\ QueueSize(i)' = QueueSize(i) - 1
     /\ \A n \in 0 .. QueueSize(i) - 2 : Entry(i, n)' = Entry(i, n + 1)
     /\ sending = i /\ taken' = taken

\* A client's queue gives out the packets that the server put in, in order, and
\* each once: the ring neither loses nor repeats one, whatever else the server
\* and the other owners do.
QueuesFifo == [][\A i \in Links : QueueStep(i)]_vars

\* A step that leaves the rings alone, and takes no packet.
LEMMA QueuesQuiet ==
  ASSUME UNCHANGED ringVars, taken' \subseteq taken
  PROVE  \A i \in Links : QueueStep(i)
<1>1. \A b : b \notin taken' \ taken
  OBVIOUS
<1>2. \A i \in Links : /\ QueueSize(i)' = QueueSize(i)
                       /\ \A n : Entry(i, n)' = Entry(i, n)
  BY SameQueue DEF ringVars
<1>3. QED  BY <1>1, <1>2 DEF QueueStep

\* The server takes a packet.
LEMMA QueuesReceive ==
  ASSUME FramesInv, NEW p \in Pools, process_received_frame(p), NEW i \in Links
  PROVE  QueueStep(i)
<1>0. TypeOK /\ pool \in [Pools -> Seq(Bufs)]
  BY DEF FramesInv, TypeOK
<1>1. PICK k \in 1 .. Len(pool[p]) :
        LET b == pool[p][k]
            S == {j \in Links : Match(j, b) /\ QueueHasRoom(j)}
        IN  /\ AtReadPointer(p, k)
            /\ taken' = taken \cup {b}
            /\ fifo' = [j \in Links |-> IF j \in S THEN [fifo[j] EXCEPT ![wrIndex[j]] = b]
                                        ELSE fifo[j]]
            /\ wrIndex' = [j \in Links |-> IF j \in S THEN NextIndex(wrIndex[j])
                                           ELSE wrIndex[j]]
  BY DEF process_received_frame
<1>2. PICK b \in Bufs : b = pool[p][k]
  BY <1>0
<1>3. PICK S \in SUBSET Links : S = {j \in Links : Match(j, b) /\ QueueHasRoom(j)}
  OBVIOUS
<1>4. /\ taken' = taken \cup {b} /\ b \notin taken /\ rdIndex'[i] = rdIndex[i]
      /\ fifo'[i] = IF i \in S THEN [fifo[i] EXCEPT ![wrIndex[i]] = b] ELSE fifo[i]
      /\ wrIndex'[i] = IF i \in S THEN NextIndex(wrIndex[i]) ELSE wrIndex[i]
  BY <1>1, <1>2, <1>3 DEF process_received_frame, AtReadPointer
<1>5. taken' \ taken = {b}
  BY <1>4
<1>6. CASE i \in S
  <2>1. Match(i, b) /\ QueueHasRoom(i)
    BY <1>3, <1>6
  <2>2. /\ QueueSize(i)' = QueueSize(i) + 1
        /\ \A n \in 0 .. QueueSize(i) - 1 : Entry(i, n)' = Entry(i, n)
        /\ \A n : n = QueueSize(i) => Entry(i, n)' = b
    BY <1>0, <1>4, <1>6, <2>1, Push
  <2>3. QED  BY <1>5, <2>1, <2>2 DEF QueueStep
<1>7. CASE i \notin S
  <2>1. ~(Match(i, b) /\ QueueHasRoom(i))
    BY <1>3, <1>7
  <2>2. QueueSize(i)' = QueueSize(i) /\ \A n : Entry(i, n)' = Entry(i, n)
    BY <1>4, <1>7, SameQueue
  <2>3. QED  BY <1>5, <2>1, <2>2 DEF QueueStep
<1>8. QED  BY <1>6, <1>7

\* A client has read a packet.
LEMMA QueuesSent ==
  ASSUME FramesInv, FrameSent, NEW i \in Links
  PROVE  QueueStep(i)
<1>0. TypeOK /\ rdIndex \in [Links -> Slots]
  BY DEF FramesInv, TypeOK
<1>1. /\ rdIndex' = [rdIndex EXCEPT ![sending] = NextIndex(@)]
      /\ wrIndex' = wrIndex /\ fifo' = fifo /\ taken' = taken
  BY DEF FrameSent
<1>2. CASE i = sending
  <2>1. rdIndex[i] # wrIndex[i] /\ rdIndex'[i] = NextIndex(rdIndex[i])
    BY <1>0, <1>1, <1>2 DEF FramesInv, FrameSent
  <2>2. /\ QueueSize(i)' = QueueSize(i) - 1
        /\ \A n \in 0 .. QueueSize(i) - 2 : Entry(i, n)' = Entry(i, n + 1)
    BY <1>0, <1>1, <2>1, Pop
  <2>3. QED  BY <1>1, <1>2, <2>2 DEF QueueStep
<1>3. CASE i # sending
  <2>1. rdIndex'[i] = rdIndex[i]
    BY <1>0, <1>1, <1>3
  <2>2. QueueSize(i)' = QueueSize(i) /\ \A n : Entry(i, n)' = Entry(i, n)
    BY <1>1, <2>1, SameQueue
  <2>3. QED  BY <1>1, <2>2 DEF QueueStep
<1>4. QED  BY <1>2, <1>3

-----------------------------------------------------------------------------
(* The frames are delivered as FrameDelivery says *)

\* The packets of s after the first n, if those are in F and the others not.
LEMMA RestIs ==
  ASSUME NEW s \in Seq(Bufs), NEW F, NEW n \in 0 .. Len(s), NEW u \in Seq(Bufs),
         \A j \in 1 .. n : s[j] \in F, \A j \in n + 1 .. Len(s) : s[j] \notin F,
         Len(u) = Len(s) - n, \A k \in 1 .. Len(u) : u[k] = s[k + n]
  PROVE  FromFirstNotIn(s, F) = u
<1>1. PICK r : r = FromFirstNotIn(s, F)
  OBVIOUS
<1>2. r \in Seq(Bufs) /\ \E m \in 0 .. Len(s) :
        /\ Len(r) = Len(s) - m
        /\ \A k \in 1 .. Len(r) : r[k] = s[k + m]
        /\ \A j \in 1 .. m : s[j] \in F
        /\ m < Len(s) => s[m + 1] \notin F
  BY <1>1, FirstNotIn
<1>3. PICK m \in 0 .. Len(s) :
        /\ Len(r) = Len(s) - m
        /\ \A k \in 1 .. Len(r) : r[k] = s[k + m]
        /\ \A j \in 1 .. m : s[j] \in F
        /\ m < Len(s) => s[m + 1] \notin F
  BY <1>2
<1>4. m = n
  <2>1. ~(m < n)
    BY <1>3
  <2>2. ~(n < m)
    BY <1>3
  <2>3. QED  BY <2>1, <2>2
<1>5. Len(r) = Len(u) /\ \A k \in 1 .. Len(u) : r[k] = u[k]
  BY <1>3, <1>4
<1>6. QED  BY <1>1, <1>2, <1>5, SeqEqual

\* When those in F come first, FromFirstNotIn drops all of them.
LEMMA RestOf ==
  ASSUME NEW s \in Seq(Bufs), NEW F,
         \A k \in 1 .. Len(s) : \A j \in 1 .. k - 1 : s[k] \in F => s[j] \in F
  PROVE  \E n \in 0 .. Len(s) :
           /\ Len(FromFirstNotIn(s, F)) = Len(s) - n
           /\ \A k \in 1 .. Len(FromFirstNotIn(s, F)) : FromFirstNotIn(s, F)[k] = s[k + n]
           /\ \A j \in 1 .. n : s[j] \in F
           /\ \A j \in n + 1 .. Len(s) : s[j] \notin F
<1>1. PICK r : r = FromFirstNotIn(s, F)
  OBVIOUS
<1>2. r \in Seq(Bufs) /\ \E m \in 0 .. Len(s) :
        /\ Len(r) = Len(s) - m
        /\ \A k \in 1 .. Len(r) : r[k] = s[k + m]
        /\ \A j \in 1 .. m : s[j] \in F
        /\ m < Len(s) => s[m + 1] \notin F
  BY <1>1, FirstNotIn
<1>3. PICK n \in 0 .. Len(s) :
        /\ Len(r) = Len(s) - n
        /\ \A k \in 1 .. Len(r) : r[k] = s[k + n]
        /\ \A j \in 1 .. n : s[j] \in F
        /\ n < Len(s) => s[n + 1] \notin F
  BY <1>2
<1>4. \A j \in n + 1 .. Len(s) : s[j] \notin F
  BY <1>3
<1>5. QED  BY <1>1, <1>3, <1>4

\* What the server has not passed, and from where on.
LEMMA Rest ==
  ASSUME pool \in [Pools -> Seq(Bufs)], NEW F, Before(F), NEW p \in Pools
  PROVE  /\ FromFirstNotIn(pool[p], F) \in Seq(Bufs)
         /\ \E n \in 0 .. Len(pool[p]) :
              /\ Len(FromFirstNotIn(pool[p], F)) = Len(pool[p]) - n
              /\ \A k \in 1 .. Len(FromFirstNotIn(pool[p], F)) :
                   FromFirstNotIn(pool[p], F)[k] = pool[p][k + n]
              /\ \A j \in 1 .. n : pool[p][j] \in F
              /\ \A j \in n + 1 .. Len(pool[p]) : pool[p][j] \notin F
<1>1. PICK s \in Seq(Bufs) : s = pool[p]
  OBVIOUS
<1>2. \A k \in 1 .. Len(s) : \A j \in 1 .. k - 1 : s[k] \in F => s[j] \in F
  BY <1>1 DEF Before
<1>3. FromFirstNotIn(s, F) \in Seq(Bufs)
  BY FirstNotIn
<1>4. \E n \in 0 .. Len(s) :
        /\ Len(FromFirstNotIn(s, F)) = Len(s) - n
        /\ \A k \in 1 .. Len(FromFirstNotIn(s, F)) : FromFirstNotIn(s, F)[k] = s[k + n]
        /\ \A j \in 1 .. n : s[j] \in F
        /\ \A j \in n + 1 .. Len(s) : s[j] \notin F
  BY <1>2, RestOf
<1>5. QED  BY <1>1, <1>3, <1>4

\* The arguments of Delivery.
Arrived == [p \in Pools |-> FromFirstNotIn(pool[p], taken)]
Waiting == [i \in Links |-> [n \in 1 .. QueueSize(i) |-> Entry(i, n - 1)]]
Relayed == {b \in Bufs : forwarding[b]}

\* mii_free leaves what the server has not passed as it is.
LEMMA FreeArrived ==
  ASSUME pool \in [Pools -> Seq(Bufs)], NEW B, mii_free(B), NEW F, freed \cup B \subseteq F,
         Before(F), NEW p \in Pools
  PROVE  FromFirstNotIn(pool'[p], F) = FromFirstNotIn(pool[p], F)
<1>1. PICK u \in Seq(Bufs) : u = FromFirstNotIn(pool[p], F)
  BY Rest
<1>2. PICK n \in 0 .. Len(pool[p]) :
        /\ Len(u) = Len(pool[p]) - n
        /\ \A k \in 1 .. Len(u) : u[k] = pool[p][k + n]
        /\ \A j \in 1 .. n : pool[p][j] \in F
        /\ \A j \in n + 1 .. Len(pool[p]) : pool[p][j] \notin F
  BY <1>1, Rest
<1>3. pool'[p] \in Seq(Bufs) /\ Len(pool[p]) \in Nat /\ Len(pool'[p]) \in Nat
  BY FreePools
<1>4. PICK m \in 0 .. Len(pool[p]) :
        /\ Len(pool'[p]) = Len(pool[p]) - m
        /\ \A k \in 1 .. Len(pool'[p]) : pool'[p][k] = pool[p][k + m]
        /\ \A j \in 1 .. m : pool[p][j] \in freed \cup B
  BY FreePools
<1>5. m <= n
  <2>1. SUFFICES ASSUME n < m PROVE FALSE
    BY <1>2, <1>4
  <2>2. n + 1 \in 1 .. m /\ n + 1 \in n + 1 .. Len(pool[p])
    BY <1>2, <1>4, <2>1
  <2>3. QED  BY <1>2, <1>4, <2>2
<1>6. PICK x \in 0 .. Len(pool'[p]) : x = n - m
  BY <1>2, <1>3, <1>4, <1>5
<1>7. /\ \A j \in 1 .. x : pool'[p][j] \in F
      /\ \A j \in x + 1 .. Len(pool'[p]) : pool'[p][j] \notin F
  <2>1. ASSUME NEW j \in 1 .. x  PROVE pool'[p][j] \in F
    <3>1. j \in 1 .. Len(pool'[p]) /\ j + m \in 1 .. n
      BY <1>2, <1>3, <1>4, <1>6
    <3>2. QED  BY <1>2, <1>4, <3>1
  <2>2. ASSUME NEW j \in x + 1 .. Len(pool'[p])  PROVE pool'[p][j] \notin F
    <3>1. j \in 1 .. Len(pool'[p]) /\ j + m \in n + 1 .. Len(pool[p])
      BY <1>2, <1>3, <1>4, <1>6
    <3>2. QED  BY <1>2, <1>4, <3>1
  <2>3. QED  BY <2>1, <2>2
<1>8. Len(u) = Len(pool'[p]) - x /\ \A k \in 1 .. Len(u) : u[k] = pool'[p][k + x]
  BY <1>2, <1>3, <1>4, <1>5, <1>6
<1>9. FromFirstNotIn(pool'[p], F) = u
  BY <1>3, <1>6, <1>7, <1>8, RestIs
<1>10. QED  BY <1>1, <1>9

\* A client's ring as a sequence.
LEMMA WaitingType ==
  ASSUME TypeOK, NEW i \in Links
  PROVE  Waiting[i] \in Seq(Bufs) /\ Len(Waiting[i]) = QueueSize(i)
<1>1. QueueSize(i) \in Nat
  BY SizeInSlots, FramesAssumption DEF Slots
<1>2. \A n \in 1 .. QueueSize(i) : Entry(i, n - 1) \in Bufs
  BY <1>1, EntryType
<1>3. PICK z \in Nat : z = QueueSize(i)
  BY <1>1
<1>4. Waiting[i] = [n \in 1 .. z |-> Entry(i, n - 1)]
  BY <1>3 DEF Waiting
<1>5. QED  BY <1>2, <1>3, <1>4

LEMMA WaitingSame ==
  ASSUME NEW i \in Links, rdIndex'[i] = rdIndex[i], wrIndex'[i] = wrIndex[i],
         fifo'[i] = fifo[i]
  PROVE  Waiting'[i] = Waiting[i]
<1>1. QueueSize(i)' = QueueSize(i) /\ \A n : Entry(i, n)' = Entry(i, n)
  BY SameQueue
<1>2. Waiting'[i] = [n \in 1 .. QueueSize(i)' |-> Entry(i, n - 1)']
  BY DEF Waiting
<1>3. QED  BY <1>1, <1>2 DEF Waiting

LEMMA WaitingPush ==
  ASSUME TypeOK, TypeOK', NEW i \in Links, NEW b \in Bufs, QueueHasRoom(i),
         rdIndex'[i] = rdIndex[i], wrIndex'[i] = NextIndex(wrIndex[i]),
         fifo'[i] = [fifo[i] EXCEPT ![wrIndex[i]] = b]
  PROVE  Waiting'[i] = Append(Waiting[i], b)
<1>1. /\ QueueSize(i)' = QueueSize(i) + 1
      /\ \A n \in 0 .. QueueSize(i) - 1 : Entry(i, n)' = Entry(i, n)
      /\ \A n : n = QueueSize(i) => Entry(i, n)' = b
  BY Push
<1>2. Waiting'[i] = [n \in 1 .. QueueSize(i)' |-> Entry(i, n - 1)']
  BY DEF Waiting
<1>3. PICK z \in Nat : z = QueueSize(i)
  BY SizeInSlots, FramesAssumption DEF Slots
<1>4. PICK w \in Seq(Bufs) : w = Waiting[i] /\ Len(w) = z
  BY <1>3, WaitingType
<1>5. \A n \in 1 .. z : w[n] = Entry(i, n - 1)
  BY <1>3, <1>4 DEF Waiting
<1>6. PICK v : v = Waiting'[i]
  OBVIOUS
<1>7. v = [n \in 1 .. z + 1 |-> Entry(i, n - 1)']
  BY <1>1, <1>2, <1>3, <1>6
<1>8. \A n \in 1 .. z : v[n] = w[n]
  <2>1. ASSUME NEW n \in 1 .. z  PROVE v[n] = w[n]
    <3>1. n - 1 \in 0 .. z - 1 /\ n \in 1 .. z + 1
      BY <1>3
    <3>2. Entry(i, n - 1)' = Entry(i, n - 1)
      BY <1>1, <1>3, <3>1
    <3>3. QED  BY <1>5, <1>7, <3>1, <3>2
  <2>2. QED  BY <2>1
<1>9. v[z + 1] = b
  <2>1. (z + 1) - 1 = z /\ z + 1 \in 1 .. z + 1
    BY <1>3
  <2>2. Entry(i, z)' = b
    BY <1>1, <1>3
  <2>3. v[z + 1] = Entry(i, (z + 1) - 1)'
    BY <1>7, <2>1
  <2>4. QED  BY <2>1, <2>2, <2>3
<1>10. v \in Seq(Bufs) /\ Len(v) = z + 1
  <2>1. \A n \in 1 .. z + 1 : v[n] \in Bufs
    BY <1>4, <1>8, <1>9
  <2>2. v = [n \in 1 .. z + 1 |-> v[n]]
    BY <1>7
  <2>3. QED  BY <2>1, <2>2
<1>11. v = Append(w, b)
  <2>1. Append(w, b) \in Seq(Bufs) /\ Len(Append(w, b)) = z + 1
    BY <1>4
  <2>2. \A n \in 1 .. z + 1 : Append(w, b)[n] = v[n]
    BY <1>4, <1>8, <1>9
  <2>3. QED  BY <1>10, <2>1, <2>2, SeqEqual
<1>12. QED  BY <1>4, <1>6, <1>11

LEMMA WaitingPop ==
  ASSUME TypeOK, TypeOK', NEW i \in Links, rdIndex[i] # wrIndex[i],
         rdIndex'[i] = NextIndex(rdIndex[i]), wrIndex'[i] = wrIndex[i],
         fifo'[i] = fifo[i]
  PROVE  Waiting[i] # <<>> /\ Waiting'[i] = Tail(Waiting[i])
<1>1. /\ QueueSize(i)' = QueueSize(i) - 1
      /\ \A n \in 0 .. QueueSize(i) - 2 : Entry(i, n)' = Entry(i, n + 1)
  BY Pop
<1>2. PICK z \in Nat : z = QueueSize(i) /\ z # 0
  BY SizeInSlots, FramesAssumption DEF Slots
<1>3. PICK w \in Seq(Bufs) : w = Waiting[i] /\ Len(w) = z
  BY <1>2, WaitingType
<1>4. \A n \in 1 .. z : w[n] = Entry(i, n - 1)
  BY <1>2, <1>3 DEF Waiting
<1>5. PICK v : v = Waiting'[i]
  OBVIOUS
<1>6. v = [n \in 1 .. QueueSize(i)' |-> Entry(i, n - 1)']
  BY <1>5 DEF Waiting
<1>7. v = [n \in 1 .. z - 1 |-> Entry(i, n - 1)']
  BY <1>1, <1>2, <1>6
<1>8. \A n \in 1 .. z - 1 : v[n] = w[n + 1]
  <2>1. ASSUME NEW n \in 1 .. z - 1  PROVE v[n] = w[n + 1]
    <3>1. n - 1 \in 0 .. z - 2 /\ n + 1 \in 1 .. z /\ (n - 1) + 1 = n /\ (n + 1) - 1 = n
      BY <1>2
    <3>2. Entry(i, n - 1)' = Entry(i, n)
      BY <1>1, <1>2, <3>1
    <3>3. w[n + 1] = Entry(i, n)
      BY <1>4, <3>1
    <3>4. QED  BY <1>7, <3>2, <3>3
  <2>2. QED  BY <2>1
<1>9. v \in Seq(Bufs) /\ Len(v) = z - 1
  <2>1. \A n \in 1 .. z - 1 : v[n] \in Bufs
    BY <1>2, <1>3, <1>8
  <2>2. v = [n \in 1 .. z - 1 |-> v[n]] /\ z - 1 \in Nat
    BY <1>2, <1>7
  <2>3. QED  BY <2>1, <2>2
<1>10. w # <<>> /\ Tail(w) \in Seq(Bufs) /\ Len(Tail(w)) = z - 1
  BY <1>2, <1>3
<1>11. \A n \in 1 .. z - 1 : Tail(w)[n] = w[n + 1]
  BY <1>2, <1>3
<1>12. v = Tail(w)
  BY <1>8, <1>9, <1>10, <1>11, SeqEqual
<1>13. QED  BY <1>3, <1>5, <1>10, <1>12

LEMMA AppendIs ==
  ASSUME NEW s \in Seq(Bufs), NEW b \in Bufs
  PROVE  /\ Append(s, b) \in Seq(Bufs) /\ Len(Append(s, b)) = Len(s) + 1
         /\ Append(s, b)[Len(s) + 1] = b /\ \A j \in 1 .. Len(s) : Append(s, b)[j] = s[j]
OBVIOUS

\* u is s without its first n packets, which are those in F.
Drops(s, F, n, u) ==
  /\ n \in 0 .. Len(s)
  /\ \A j \in 1 .. n : s[j] \in F
  /\ \A j \in n + 1 .. Len(s) : s[j] \notin F
  /\ Len(u) = Len(s) - n /\ \A k \in 1 .. Len(u) : u[k] = s[k + n]

\* t is s and b.
Appended(t, s, b) ==
  Len(t) = Len(s) + 1 /\ t[Len(s) + 1] = b /\ \A j \in 1 .. Len(s) : t[j] = s[j]

\* One more packet at the end, which is not in F.
LEMMA RestGrows ==
  ASSUME NEW s \in Seq(Bufs), NEW F, NEW b \in Bufs, b \notin F,
         NEW n, NEW u \in Seq(Bufs), Drops(s, F, n, u),
         NEW t \in Seq(Bufs), Appended(t, s, b), NEW v \in Seq(Bufs), Appended(v, u, b)
  PROVE  FromFirstNotIn(t, F) = v
<1>0. /\ n \in 0 .. Len(s)
      /\ \A j \in 1 .. n : s[j] \in F
      /\ \A j \in n + 1 .. Len(s) : s[j] \notin F
      /\ Len(u) = Len(s) - n /\ \A k \in 1 .. Len(u) : u[k] = s[k + n]
      /\ Len(t) = Len(s) + 1 /\ t[Len(s) + 1] = b /\ \A j \in 1 .. Len(s) : t[j] = s[j]
      /\ Len(v) = Len(u) + 1 /\ v[Len(u) + 1] = b /\ \A j \in 1 .. Len(u) : v[j] = u[j]
  BY DEF Drops, Appended
<1>1. PICK z \in Nat : z = Len(s)
  OBVIOUS
<1>2. Len(t) = z + 1 /\ t[z + 1] = b /\ \A j \in 1 .. z : t[j] = s[j]
  BY <1>0, <1>1
<1>3. PICK y \in Nat : y = z - n /\ y = Len(u)
  <2>1. z - n = Len(u) /\ Len(u) \in Nat
    BY <1>0, <1>1
  <2>2. QED  BY <2>1
<1>4. Len(v) = y + 1 /\ v[y + 1] = b /\ \A j \in 1 .. y : v[j] = u[j]
  BY <1>0, <1>3
<1>5. ASSUME NEW k \in 1 .. y + 1  PROVE v[k] = t[k + n]
  <2>1. CASE k \in 1 .. y
    <3>1. k + n \in 1 .. z
      BY <1>0, <1>3, <2>1
    <3>2. v[k] = u[k] /\ u[k] = s[k + n] /\ t[k + n] = s[k + n]
      BY <1>0, <1>2, <1>3, <1>4, <2>1, <3>1
    <3>3. QED  BY <3>2
  <2>2. CASE k = y + 1
    <3>1. k + n = z + 1
      BY <1>0, <1>3, <2>2
    <3>2. QED  BY <1>2, <1>4, <2>2, <3>1
  <2>3. QED  BY <1>3, <2>1, <2>2
<1>6. \A j \in 1 .. n : t[j] \in F
  <2>1. ASSUME NEW j \in 1 .. n  PROVE t[j] \in F
    <3>1. j \in 1 .. z
      BY <1>0, <1>1
    <3>2. t[j] = s[j]
      BY <1>0, <1>2, <3>1
    <3>3. QED  BY <1>0, <3>2
  <2>2. QED  BY <2>1
<1>7. \A j \in n + 1 .. Len(t) : t[j] \notin F
  <2>1. ASSUME NEW j \in n + 1 .. Len(t)  PROVE t[j] \notin F
    <3>1. CASE j \in n + 1 .. z
      <4>1. j \in 1 .. z /\ j \in n + 1 .. Len(s)
        BY <1>0, <1>1, <3>1
      <4>2. t[j] = s[j]
        BY <1>0, <1>2, <4>1
      <4>3. QED  BY <1>0, <4>1, <4>2
    <3>2. CASE j = z + 1
      BY <1>2, <3>2
    <3>3. QED  BY <1>1, <1>2, <3>1, <3>2
  <2>2. QED  BY <2>1
<1>8. n \in 0 .. Len(t) /\ Len(v) = Len(t) - n /\ \A k \in 1 .. Len(v) : v[k] = t[k + n]
  <2>1. n \in 0 .. Len(t) /\ Len(v) = Len(t) - n
    BY <1>0, <1>1, <1>2, <1>3, <1>4
  <2>2. QED  BY <1>4, <1>5, <2>1
<1>9. QED  BY <1>0, <1>6, <1>7, <1>8, RestIs

\* What the server has not passed grows with the pool, and a packet that is not
\* in the pool does not matter to it.
LEMMA RestAppend ==
  ASSUME NEW s \in Seq(Bufs), NEW F, NEW b \in Bufs, \A j \in 1 .. Len(s) : s[j] # b,
         \A k \in 1 .. Len(s) : \A j \in 1 .. k - 1 : s[k] \in F => s[j] \in F
  PROVE  /\ FromFirstNotIn(Append(s, b), F \ {b}) = Append(FromFirstNotIn(s, F), b)
         /\ FromFirstNotIn(s, F \ {b}) = FromFirstNotIn(s, F)
<1>1. PICK u \in Seq(Bufs) : u = FromFirstNotIn(s, F)
  BY FirstNotIn
<1>2. PICK n \in 0 .. Len(s) :
        /\ Len(u) = Len(s) - n
        /\ \A k \in 1 .. Len(u) : u[k] = s[k + n]
        /\ \A j \in 1 .. n : s[j] \in F
        /\ \A j \in n + 1 .. Len(s) : s[j] \notin F
  BY <1>1, RestOf
<1>3. PICK G : G = F \ {b}
  OBVIOUS
<1>4. b \notin G /\ \A j \in 1 .. Len(s) : s[j] \in G <=> s[j] \in F
  BY <1>3
<1>5. /\ \A j \in 1 .. n : s[j] \in G
      /\ \A j \in n + 1 .. Len(s) : s[j] \notin G
  BY <1>2, <1>4
<1>6. FromFirstNotIn(Append(s, b), G) = Append(u, b)
  <2>1. Drops(s, G, n, u)
    BY <1>2, <1>5 DEF Drops
  <2>2. b \notin G
    BY <1>4
  <2>3. PICK t \in Seq(Bufs) : t = Append(s, b)
    BY AppendIs
  <2>4. PICK v \in Seq(Bufs) : v = Append(u, b)
    BY AppendIs
  <2>5. Appended(t, s, b)
    BY <2>3, AppendIs DEF Appended
  <2>6. Appended(v, u, b)
    BY <2>4, AppendIs DEF Appended
  <2>7. FromFirstNotIn(t, G) = v
    BY <2>1, <2>2, <2>5, <2>6, RestGrows
  <2>8. QED  BY <2>3, <2>4, <2>7
<1>7. FromFirstNotIn(s, G) = u
  BY <1>2, <1>5, RestIs
<1>8. QED  BY <1>1, <1>3, <1>6, <1>7

\* The server takes the first of them.
LEMMA RestTake ==
  ASSUME NEW s \in Seq(Bufs), NEW F, NEW k \in 1 .. Len(s),
         \A j \in 1 .. k - 1 : s[j] \in F, \A j \in k .. Len(s) : s[j] \notin F,
         \A j \in 1 .. Len(s) : s[j] = s[k] => j = k
  PROVE  /\ FromFirstNotIn(s, F) # <<>> /\ Head(FromFirstNotIn(s, F)) = s[k]
         /\ FromFirstNotIn(s, F \cup {s[k]}) = Tail(FromFirstNotIn(s, F))
<1>1. PICK z \in Nat : z = Len(s) /\ k \in 1 .. z
  OBVIOUS
<1>2. PICK u \in Seq(Bufs) : Len(u) = z - k + 1 /\ \A i \in 1 .. z - k + 1 : u[i] = s[k + i - 1]
  <2>1. \A j \in k .. z : s[j] \in Bufs
    BY <1>1
  <2>2. SubSeq(s, k, z) \in Seq(Bufs) /\ Len(SubSeq(s, k, z)) = z - k + 1
        /\ \A i \in 1 .. z - k + 1 : SubSeq(s, k, z)[i] = s[k + i - 1]
    BY <1>1, <2>1, SubSeqProperties
  <2>3. QED  BY <2>2
<1>3. u # <<>> /\ Head(u) = u[1] /\ u[1] = s[k]
  BY <1>1, <1>2
<1>4. PICK v \in Seq(Bufs) : v = Tail(u)
  BY <1>3, HeadTailProperties
<1>5. Len(v) = z - k /\ \A i \in 1 .. z - k : v[i] = s[k + i]
  <2>1. Len(v) = Len(u) - 1 /\ \A i \in 1 .. Len(v) : v[i] = u[i + 1]
    BY <1>3, <1>4, HeadTailProperties
  <2>2. Len(v) = z - k
    BY <1>1, <1>2, <2>1
  <2>3. ASSUME NEW i \in 1 .. z - k  PROVE v[i] = s[k + i]
    <3>1. i + 1 \in 1 .. z - k + 1 /\ k + (i + 1) - 1 = k + i
      BY <1>1
    <3>2. v[i] = u[i + 1] /\ u[i + 1] = s[k + (i + 1) - 1]
      BY <1>2, <2>1, <2>2, <3>1
    <3>3. QED  BY <3>1, <3>2
  <2>4. QED  BY <2>2, <2>3
<1>6. FromFirstNotIn(s, F) = u
  <2>1. PICK n \in 0 .. Len(s) : n = k - 1
    BY <1>1
  <2>2. Len(u) = Len(s) - n
    BY <1>1, <1>2, <2>1
  <2>3. \A i \in 1 .. Len(u) : u[i] = s[i + n]
    <3>1. ASSUME NEW i \in 1 .. Len(u)  PROVE u[i] = s[i + n]
      <4>1. i \in 1 .. z - k + 1 /\ k + i - 1 = i + n
        BY <1>1, <1>2, <2>1
      <4>2. QED  BY <1>2, <4>1
    <3>2. QED  BY <3>1
  <2>4. /\ \A j \in 1 .. n : s[j] \in F
        /\ \A j \in n + 1 .. Len(s) : s[j] \notin F
    BY <1>1, <2>1
  <2>5. QED  BY <2>2, <2>3, <2>4, RestIs
<1>7. FromFirstNotIn(s, F \cup {s[k]}) = v
  <2>1. k \in 0 .. Len(s) /\ Len(v) = Len(s) - k
    BY <1>1, <1>5
  <2>2. \A i \in 1 .. Len(v) : v[i] = s[i + k]
    <3>1. ASSUME NEW i \in 1 .. Len(v)  PROVE v[i] = s[i + k]
      <4>1. i \in 1 .. z - k /\ k + i = i + k
        BY <1>1, <1>5
      <4>2. QED  BY <1>5, <4>1
    <3>2. QED  BY <3>1
  <2>3. PICK G : G = F \cup {s[k]}
    OBVIOUS
  <2>4. ASSUME NEW j \in 1 .. k  PROVE s[j] \in G
    <3>1. j \in 1 .. k - 1 \/ j = k
      BY <1>1
    <3>2. QED  BY <2>3, <3>1
  <2>5. ASSUME NEW j \in k + 1 .. Len(s)  PROVE s[j] \notin G
    <3>1. j \in k .. Len(s) /\ j \in 1 .. Len(s) /\ j # k
      BY <1>1
    <3>2. QED  BY <2>3, <3>1
  <2>6. FromFirstNotIn(s, G) = v
    BY <2>1, <2>2, <2>4, <2>5, RestIs
  <2>7. QED  BY <2>3, <2>6
<1>8. QED  BY <1>3, <1>4, <1>6, <1>7

\* FrameDelivery's steps, in the terms above.
LEMMA ArriveIs ==
  ASSUME NEW p \in Pools, NEW f \in Bufs, ~Delivery!Present(f),
         Arrived' = [Arrived EXCEPT ![p] = Append(@, f)],
         Waiting' = Waiting, Relayed' = Relayed
  PROVE  Delivery!Next
<1>1. Delivery!Arrive(p)
  BY DEF Delivery!Arrive, Arrived, Waiting, Relayed
<1>2. QED  BY <1>1 DEF Delivery!Next

LEMMA GiveOutIs ==
  ASSUME NEW p \in Pools, NEW S \in SUBSET Links,
         \A i \in S : Len(Waiting[i]) < NUM_MII_RX_BUF - 1,
         Arrived[p] # <<>>, Arrived' = [Arrived EXCEPT ![p] = Tail(@)],
         Waiting' = [i \in Links |-> IF i \in S THEN Append(Waiting[i], Head(Arrived[p]))
                                     ELSE Waiting[i]],
         Relayed' \in {Relayed, Relayed \cup {Head(Arrived[p])}}
  PROVE  Delivery!Next
<1>1. S \in SUBSET {i \in Links : Len(Waiting[i]) < NUM_MII_RX_BUF - 1}
  OBVIOUS
<1>2. Delivery!GiveOut(p)
  BY <1>1 DEF Delivery!GiveOut, Arrived, Waiting, Relayed
<1>3. QED  BY <1>2 DEF Delivery!Next

LEMMA GetIs ==
  ASSUME NEW i \in Links, Waiting[i] # <<>>, Waiting' = [Waiting EXCEPT ![i] = Tail(@)],
         Arrived' = Arrived, Relayed' = Relayed
  PROVE  Delivery!Next
<1>1. Delivery!Get(i)
  BY DEF Delivery!Get, Arrived, Waiting, Relayed
<1>2. QED  BY <1>1 DEF Delivery!Next

LEMMA RelayIs ==
  ASSUME NEW f \in Relayed, Relayed' = Relayed \ {f}, Arrived' = Arrived, Waiting' = Waiting
  PROVE  Delivery!Next
<1>1. Delivery!Relay
  BY DEF Delivery!Relay, Arrived, Waiting, Relayed
<1>2. QED  BY <1>1 DEF Delivery!Next

LEMMA StutterIs ==
  ASSUME Arrived' = Arrived, Waiting' = Waiting, Relayed' = Relayed
  PROVE  UNCHANGED Delivery!vars
BY DEF Delivery!vars, Arrived, Waiting, Relayed

\* Whoever has a packet, it is in a pool and not released.
LEMMA PresentLive ==
  ASSUME FramesInv, NEW b \in Bufs, Delivery!Present(b)
  PROVE  b \in Live
<1>0. TypeOK /\ CountsOwners /\ Before(taken) /\ pool \in [Pools -> Seq(Bufs)]
  BY DEF FramesInv, TypeOK
<1>1. \/ \E p \in Pools : \E k \in 1 .. Len(Arrived[p]) : Arrived[p][k] = b
      \/ \E i \in Links : \E k \in 1 .. Len(Waiting[i]) : Waiting[i][k] = b
      \/ b \in Relayed
  <2>1. \/ \E p \in Pools : b \in Delivery!In(Arrived[p])
        \/ \E i \in Links : b \in Delivery!In(Waiting[i])
        \/ b \in Relayed
    BY DEF Delivery!Present, Arrived, Waiting, Relayed
  <2>2. \A s : b \in Delivery!In(s) => \E k \in 1 .. Len(s) : s[k] = b
    BY DEF Delivery!In
  <2>3. QED  BY <2>1, <2>2
<1>2. ASSUME NEW p \in Pools, NEW k \in 1 .. Len(Arrived[p]), Arrived[p][k] = b
      PROVE  b \in Live
  <2>1. PICK u \in Seq(Bufs) : u = FromFirstNotIn(pool[p], taken)
    BY <1>0, Rest
  <2>2. u = Arrived[p]
    BY <2>1 DEF Arrived
  <2>3. PICK n \in 0 .. Len(pool[p]) :
          /\ Len(u) = Len(pool[p]) - n
          /\ \A j \in 1 .. Len(u) : u[j] = pool[p][j + n]
          /\ \A j \in 1 .. n : pool[p][j] \in taken
          /\ \A j \in n + 1 .. Len(pool[p]) : pool[p][j] \notin taken
    BY <1>0, <2>1, Rest
  <2>4. k + n \in 1 .. Len(pool[p]) /\ pool[p][k + n] = b
    BY <1>0, <1>2, <2>2, <2>3
  <2>5. QED  BY <2>4, LivePlaces
<1>3. ASSUME NEW i \in Links, NEW k \in 1 .. Len(Waiting[i]), Waiting[i][k] = b
      PROVE  b \in Live
  <2>1. Len(Waiting[i]) = QueueSize(i) /\ QueueSize(i) \in Nat
    BY <1>0, WaitingType, SizeInSlots, FramesAssumption DEF Slots
  <2>2. Waiting[i][k] = Entry(i, k - 1) /\ k - 1 \in 0 .. QueueSize(i) - 1
    BY <1>3, <2>1 DEF Waiting
  <2>3. b \in Queue(i)
    BY <1>0, <1>3, <2>2, EntryType
  <2>4. QED  BY <1>0, <2>3, QueueInUse DEF InUse
<1>4. ASSUME b \in Relayed  PROVE b \in Live
  <2>1. b \in InUse
    BY <1>0, <1>4, NoOwner DEF Relayed
  <2>2. QED  BY <2>1 DEF InUse
<1>5. QED  BY <1>1, <1>2, <1>3, <1>4

\* Rings that do not change, and packets that stay where they are.
LEMMA RingsSame ==
  ASSUME UNCHANGED ringVars
  PROVE  Waiting' = Waiting
<1>1. \A i \in Links : Waiting'[i] = Waiting[i]
  BY WaitingSame DEF ringVars
<1>2. QED  BY <1>1 DEF Waiting

LEMMA DeliveryQuiet ==
  ASSUME UNCHANGED <<pool, taken, forwarding, ringVars>>
  PROVE  UNCHANGED Delivery!vars
<1>1. Arrived' = Arrived /\ Relayed' = Relayed
  BY DEF Arrived, Relayed
<1>2. QED  BY <1>1, RingsSame, StutterIs

\* A packet that is committed arrives.
LEMMA DeliveryCommit ==
  ASSUME FramesInv, NEW p \in Pools, RxCommit(p)
  PROVE  Delivery!Next
<1>0. /\ TypeOK /\ CountsOwners /\ Before(taken) /\ pool \in [Pools -> Seq(Bufs)]
      /\ forwarding \in [Bufs -> BOOLEAN]
  BY DEF FramesInv, TypeOK
<1>1. PICK b \in Bufs \ Live :
        /\ pool' = [pool EXCEPT ![p] = Append(@, b)]
        /\ forwarding' = [forwarding EXCEPT ![b] = FALSE]
        /\ taken' = taken \ {b}
        /\ UNCHANGED ringVars
  BY DEF RxCommit
<1>2. ~Delivery!Present(b)
  BY <1>0, <1>1, PresentLive
<1>3. Waiting' = Waiting
  BY <1>1, RingsSame
<1>4. Relayed' = Relayed
  <2>1. ~forwarding[b]
    BY <1>0, <1>1, NoOwner DEF InUse
  <2>2. \A c \in Bufs : forwarding'[c] = (forwarding[c] /\ c # b)
    BY <1>0, <1>1, <2>1
  <2>3. QED  BY <2>1, <2>2 DEF Relayed
<1>5. Arrived' = [Arrived EXCEPT ![p] = Append(@, b)]
  <2>1. Arrived' = [q \in Pools |-> FromFirstNotIn(pool'[q], taken')]
    BY DEF Arrived
  <2>2. ASSUME NEW q \in Pools
        PROVE  FromFirstNotIn(pool'[q], taken')
                 = IF q = p THEN Append(FromFirstNotIn(pool[q], taken), b)
                   ELSE FromFirstNotIn(pool[q], taken)
    <3>1. PICK s \in Seq(Bufs) : s = pool[q]
      BY <1>0
    <3>2. \A j \in 1 .. Len(s) : s[j] # b
      BY <1>1, <3>1, LivePlaces
    <3>3. \A k \in 1 .. Len(s) : \A j \in 1 .. k - 1 : s[k] \in taken => s[j] \in taken
      BY <1>0, <3>1 DEF Before
    <3>4. /\ FromFirstNotIn(Append(s, b), taken \ {b}) = Append(FromFirstNotIn(s, taken), b)
          /\ FromFirstNotIn(s, taken \ {b}) = FromFirstNotIn(s, taken)
      BY <3>2, <3>3, RestAppend
    <3>5. pool'[q] = IF q = p THEN Append(s, b) ELSE s
      BY <1>0, <1>1, <3>1
    <3>6. QED  BY <1>1, <3>1, <3>4, <3>5
  <2>3. QED  BY <2>1, <2>2 DEF Arrived
<1>6. QED  BY <1>2, <1>3, <1>4, <1>5, ArriveIs

\* An owner that finishes takes nothing from what has not been passed.
LEMMA FinishArrived ==
  ASSUME FramesInv, NEW b \in InUse, Finish(b), taken' = taken
  PROVE  Arrived' = Arrived
<1>0. Before(taken) /\ pool \in [Pools -> Seq(Bufs)] /\ freed \subseteq taken
  BY DEF FramesInv, TypeOK
<1>1. Arrived' = [p \in Pools |-> FromFirstNotIn(pool'[p], taken)]
  BY DEF Arrived
<1>2. CASE mii_free({b})
  <2>1. freed \cup {b} \subseteq taken
    BY <1>0 DEF InUse
  <2>2. \A p \in Pools : FromFirstNotIn(pool'[p], taken) = FromFirstNotIn(pool[p], taken)
    BY <1>0, <1>2, <2>1, FreeArrived
  <2>3. QED  BY <1>1, <2>2 DEF Arrived
<1>3. CASE pool' = pool
  BY <1>1, <1>3 DEF Arrived
<1>4. QED  BY <1>2, <1>3 DEF Finish

\* A client has got the oldest packet of its ring.
LEMMA DeliverySent ==
  ASSUME FramesInv, FramesInv', FrameSent
  PROVE  Delivery!Next
<1>0. TypeOK /\ CountsOwners /\ TypeOK' /\ rdIndex \in [Links -> Slots]
  BY DEF FramesInv, TypeOK
<1>1. PICK i \in Links : i = sending /\ rdIndex[i] # wrIndex[i]
  BY <1>0, FramesAssumption DEF FramesInv, FrameSent, TypeOK, Links
<1>2. /\ Finish(fifo[i][rdIndex[i]]) /\ rdIndex' = [rdIndex EXCEPT ![i] = NextIndex(@)]
      /\ UNCHANGED <<taken, forwarding, wrIndex, fifo>>
  BY <1>1 DEF FrameSent
<1>3. Waiting[i] # <<>> /\ Waiting'[i] = Tail(Waiting[i])
  BY <1>0, <1>1, <1>2, WaitingPop
<1>4. \A j \in Links : j # i => Waiting'[j] = Waiting[j]
  BY <1>0, <1>2, WaitingSame
<1>5. Waiting' = [Waiting EXCEPT ![i] = Tail(@)]
  BY <1>3, <1>4 DEF Waiting
<1>6. fifo[i][rdIndex[i]] \in InUse
  <2>1. Entry(i, 0) = fifo[i][rdIndex[i]] /\ Entry(i, 0) \in Queue(i)
    BY <1>0, <1>1, <1>2, Pop
  <2>2. fifo[i][rdIndex[i]] \in Bufs
    BY <1>0, <1>1 DEF TypeOK
  <2>3. QED  BY <1>0, <2>1, <2>2, QueueInUse
<1>7. Arrived' = Arrived
  BY <1>2, <1>6, FinishArrived
<1>8. Relayed' = Relayed
  BY <1>2 DEF Relayed
<1>9. QED  BY <1>3, <1>5, <1>7, <1>8, GetIs

\* The other port has transmitted a packet.
LEMMA DeliveryForwarded ==
  ASSUME FramesInv, Forwarded
  PROVE  Delivery!Next
<1>0. TypeOK /\ CountsOwners /\ forwarding \in [Bufs -> BOOLEAN]
  BY DEF FramesInv, TypeOK
<1>1. PICK b \in transmitting :
        forwarding' = [forwarding EXCEPT ![b] = FALSE] /\ Finish(b)
  BY DEF Forwarded
<1>2. taken' = taken /\ UNCHANGED ringVars
  BY DEF Forwarded
<1>3. b \in InUse /\ forwarding[b] /\ b \in Bufs
  BY <1>0, <1>1 DEF CountsOwners, TypeOK
<1>4. b \in Relayed /\ Relayed' = Relayed \ {b}
  <2>1. \A c \in Bufs : forwarding'[c] = (forwarding[c] /\ c # b)
    BY <1>0, <1>1, <1>3
  <2>2. QED  BY <1>3, <2>1 DEF Relayed
<1>5. Arrived' = Arrived /\ Waiting' = Waiting
  BY <1>1, <1>2, <1>3, FinishArrived, RingsSame
<1>6. QED  BY <1>4, <1>5, RelayIs

\* The packet at the server's rdptr is the first of what is left of its pool.
LEMMA TakeRest ==
  ASSUME pool \in [Pools -> Seq(Bufs)], OnePlace, Before(taken), NEW p \in Pools,
         NEW k \in 1 .. Len(pool[p]), AtReadPointer(p, k)
  PROVE  /\ FromFirstNotIn(pool[p], taken) # <<>>
         /\ Head(FromFirstNotIn(pool[p], taken)) = pool[p][k]
         /\ FromFirstNotIn(pool[p], taken \cup {pool[p][k]})
              = Tail(FromFirstNotIn(pool[p], taken))
<1>1. PICK s \in Seq(Bufs) : s = pool[p]
  OBVIOUS
<1>2. /\ k \in 1 .. Len(s) /\ s[k] \notin taken
      /\ \A j \in 1 .. k - 1 : s[j] \in taken
      /\ \A j \in 1 .. Len(s) : s[j] = s[k] => j = k
  BY <1>1 DEF AtReadPointer, OnePlace
<1>3. ASSUME NEW j \in k .. Len(s)  PROVE s[j] \notin taken
  <2>1. j = k \/ k \in 1 .. j - 1
    BY <1>2
  <2>2. j \in 1 .. Len(s)
    BY <1>2
  <2>3. QED  BY <1>1, <1>2, <2>1, <2>2 DEF Before
<1>4. QED  BY <1>1, <1>2, <1>3, RestTake

\* It is in no other pool.
LEMMA TakeOther ==
  ASSUME pool \in [Pools -> Seq(Bufs)], OnePlace, Before(taken), NEW p \in Pools,
         NEW k \in 1 .. Len(pool[p]), NEW q \in Pools, q # p
  PROVE  FromFirstNotIn(pool[q], taken \cup {pool[p][k]}) = FromFirstNotIn(pool[q], taken)
<1>1. PICK s \in Seq(Bufs) : s = pool[q]
  OBVIOUS
<1>2. PICK b : b = pool[p][k]
  OBVIOUS
<1>3. \A j \in 1 .. Len(s) : s[j] # b
  BY <1>1, <1>2 DEF OnePlace
<1>4. \A m \in 1 .. Len(s) : \A j \in 1 .. m - 1 : s[m] \in taken => s[j] \in taken
  BY <1>1 DEF Before
<1>5. PICK u \in Seq(Bufs) : u = FromFirstNotIn(s, taken)
  BY FirstNotIn
<1>6. PICK n \in 0 .. Len(s) :
        /\ Len(u) = Len(s) - n
        /\ \A j \in 1 .. Len(u) : u[j] = s[j + n]
        /\ \A j \in 1 .. n : s[j] \in taken
        /\ \A j \in n + 1 .. Len(s) : s[j] \notin taken
  BY <1>4, <1>5, RestOf
<1>7. PICK G : G = taken \cup {b}
  OBVIOUS
<1>8. /\ \A j \in 1 .. n : s[j] \in G
      /\ \A j \in n + 1 .. Len(s) : s[j] \notin G
  BY <1>3, <1>6, <1>7
<1>9. FromFirstNotIn(s, G) = u
  BY <1>6, <1>8, RestIs
<1>10. QED  BY <1>1, <1>2, <1>5, <1>7, <1>9

\* The server puts the packet at its rdptr into rings that have room, and marks
\* it for the other port or releases it.
LEMMA DeliveryReceive ==
  ASSUME FramesInv, FramesInv', NEW p \in Pools, process_received_frame(p)
  PROVE  Delivery!Next
<1>0. /\ TypeOK /\ TypeOK' /\ CountsOwners /\ OnePlace /\ Before(taken)
      /\ pool \in [Pools -> Seq(Bufs)] /\ freed \subseteq taken
      /\ forwarding \in [Bufs -> BOOLEAN]
  BY DEF FramesInv, TypeOK
<1>1. PICK k \in 1 .. Len(pool[p]) :
        LET b == pool[p][k]
            S == {i \in Links : Match(i, b) /\ QueueHasRoom(i)}
        IN  /\ AtReadPointer(p, k)
            /\ taken' = taken \cup {b}
            /\ fifo' = [i \in Links |-> IF i \in S THEN [fifo[i] EXCEPT ![wrIndex[i]] = b]
                                        ELSE fifo[i]]
            /\ wrIndex' = [i \in Links |-> IF i \in S THEN NextIndex(wrIndex[i])
                                           ELSE wrIndex[i]]
            /\ IF Count(b, S) < 0
               THEN mii_free({b}) /\ UNCHANGED <<tcount, forwarding>>
               ELSE /\ tcount' = [tcount EXCEPT ![b] = Count(b, S)]
                    /\ forwarding' = [forwarding EXCEPT ![b] = FORWARD \in filter_result[b]]
                    /\ UNCHANGED <<pool, freed>>
  BY DEF process_received_frame
<1>2. PICK b \in Bufs : b = pool[p][k]
  BY <1>0
<1>3. PICK S \in SUBSET Links : S = {i \in Links : Match(i, b) /\ QueueHasRoom(i)}
  OBVIOUS
<1>4. /\ AtReadPointer(p, k) /\ taken' = taken \cup {b} /\ rdIndex' = rdIndex
      /\ fifo' = [i \in Links |-> IF i \in S THEN [fifo[i] EXCEPT ![wrIndex[i]] = b]
                                  ELSE fifo[i]]
      /\ wrIndex' = [i \in Links |-> IF i \in S THEN NextIndex(wrIndex[i]) ELSE wrIndex[i]]
  BY <1>1, <1>2, <1>3 DEF process_received_frame
<1>5. \/ mii_free({b}) /\ forwarding' = forwarding
      \/ /\ forwarding' = [forwarding EXCEPT ![b] = FORWARD \in filter_result[b]]
         /\ pool' = pool
  BY <1>1, <1>2, <1>3
\* The rings.
<1>6. \A i \in S : Waiting'[i] = Append(Waiting[i], b) /\ Len(Waiting[i]) < NUM_MII_RX_BUF - 1
  <2>1. ASSUME NEW i \in S
        PROVE  Waiting'[i] = Append(Waiting[i], b) /\ Len(Waiting[i]) < NUM_MII_RX_BUF - 1
    <3>1. /\ i \in Links /\ QueueHasRoom(i) /\ rdIndex'[i] = rdIndex[i]
          /\ wrIndex'[i] = NextIndex(wrIndex[i])
          /\ fifo'[i] = [fifo[i] EXCEPT ![wrIndex[i]] = b]
      BY <1>3, <1>4
    <3>2. Waiting'[i] = Append(Waiting[i], b)
      BY <1>0, <3>1, WaitingPush
    <3>3. QueueSize(i)' = QueueSize(i) + 1
      BY <1>0, <3>1, Push
    <3>4. QueueSize(i) \in Slots /\ QueueSize(i)' \in Slots
      <4>1. \A j \in Links : QueueSize(j) \in Slots
        BY <1>0, SizeInSlots
      <4>2. (rdIndex[i] \in Slots /\ wrIndex[i] \in Slots)'
        BY <1>0, <3>1 DEF TypeOK
      <4>3. QueueSize(i)' \in Slots
        BY <4>2, FramesAssumption DEF QueueSize, Slots
      <4>4. QED  BY <3>1, <4>1, <4>3
    <3>5. QueueSize(i) < NUM_MII_RX_BUF - 1
      BY <3>3, <3>4, FramesAssumption DEF Slots
    <3>6. QED  BY <1>0, <3>1, <3>2, <3>5, WaitingType
  <2>2. QED  BY <2>1
<1>7. \A i \in Links \ S : Waiting'[i] = Waiting[i]
  BY <1>4, WaitingSame
<1>8. Waiting' = [i \in Links |-> IF i \in S THEN Append(Waiting[i], b) ELSE Waiting[i]]
  BY <1>6, <1>7 DEF Waiting
\* The pools.
<1>9. Before(taken \cup {b})
  <2>1. SUFFICES ASSUME NEW q \in Pools, NEW m \in 1 .. Len(pool[q]), NEW j \in 1 .. m - 1,
                        pool[q][m] \in taken \cup {b}
                 PROVE  pool[q][j] \in taken \cup {b}
    BY DEF Before
  <2>2. CASE pool[q][m] \in taken
    BY <1>0, <2>2 DEF Before
  <2>3. CASE pool[q][m] = b
    <3>1. q = p /\ m = k
      BY <1>0, <1>2, <2>3 DEF OnePlace
    <3>2. QED  BY <1>4, <3>1 DEF AtReadPointer
  <2>4. QED  BY <2>1, <2>2, <2>3
<1>10. ASSUME NEW q \in Pools
       PROVE  FromFirstNotIn(pool'[q], taken') = FromFirstNotIn(pool[q], taken \cup {b})
  <2>1. CASE mii_free({b})
    <3>1. freed \cup {b} \subseteq taken \cup {b}
      BY <1>0
    <3>2. QED  BY <1>0, <1>4, <1>9, <2>1, <3>1, FreeArrived
  <2>2. CASE pool' = pool
    BY <1>4, <2>2
  <2>3. QED  BY <1>5, <2>1, <2>2
<1>11. /\ Arrived[p] # <<>> /\ Head(Arrived[p]) = b
       /\ Arrived' = [Arrived EXCEPT ![p] = Tail(@)]
  <2>1. Arrived' = [q \in Pools |-> FromFirstNotIn(pool[q], taken \cup {b})]
    BY <1>10 DEF Arrived
  <2>2. /\ FromFirstNotIn(pool[p], taken) # <<>> /\ Head(FromFirstNotIn(pool[p], taken)) = b
        /\ FromFirstNotIn(pool[p], taken \cup {b}) = Tail(FromFirstNotIn(pool[p], taken))
    BY <1>0, <1>2, <1>4, TakeRest
  <2>3. \A q \in Pools : q # p =>
          FromFirstNotIn(pool[q], taken \cup {b}) = FromFirstNotIn(pool[q], taken)
    BY <1>0, <1>2, TakeOther
  <2>4. QED  BY <2>1, <2>2, <2>3 DEF Arrived
\* The other port.
<1>12. Relayed' \in {Relayed, Relayed \cup {b}}
  <2>1. ~forwarding[b]
    <3>1. b \notin InUse
      BY <1>2, <1>4 DEF AtReadPointer, InUse
    <3>2. QED  BY <1>0, <3>1, NoOwner
  <2>2. CASE forwarding' = forwarding
    BY <2>2 DEF Relayed
  <2>3. CASE forwarding' = [forwarding EXCEPT ![b] = FORWARD \in filter_result[b]]
    <3>1. CASE FORWARD \in filter_result[b]
      <4>1. \A c \in Bufs : forwarding'[c] = (forwarding[c] \/ c = b)
        BY <1>0, <2>3, <3>1
      <4>2. QED  BY <4>1 DEF Relayed
    <3>2. CASE FORWARD \notin filter_result[b]
      <4>1. \A c \in Bufs : forwarding'[c] = forwarding[c]
        BY <1>0, <2>1, <2>3, <3>2
      <4>2. QED  BY <4>1 DEF Relayed
    <3>3. QED  BY <3>1, <3>2
  <2>4. QED  BY <1>5, <2>2, <2>3
<1>13. QED  BY <1>6, <1>8, <1>11, <1>12, GiveOutIs

-----------------------------------------------------------------------------
(* The theorems *)

\* FramesInv holds in every state.
THEOREM SpecFramesInv == Spec => []FramesInv
<1>1. Init => FramesInv
  BY FramesInit
<1>2. FramesInv /\ [Next]_vars => FramesInv'
  <2> SUFFICES ASSUME FramesInv, [Next]_vars  PROVE FramesInv'
    OBVIOUS
  <2>1. ASSUME NEW p \in Pools, RxCommit(p)  PROVE FramesInv'
    BY <2>1, CommitStep
  <2>2. ASSUME NEW p \in Pools, process_received_frame(p)  PROVE FramesInv'
    BY <2>2, ReceivedStep
  <2>3. ASSUME \/ ethernet_filter
               \/ \E i \in Links : \/ SendFrame(i) \/ mac_set_custom_filter(i)
                                   \/ mac_set_queue_size(i)
               \/ \E p \in Pools : Forward(p)
        PROVE  FramesInv'
    BY <2>3, QuietSteps
  <2>4. CASE FrameSent
    BY <2>4, SentStep
  <2>5. CASE Forwarded
    BY <2>5, ForwardedStep
  <2>6. CASE UNCHANGED vars
    <3>1. UNCHANGED <<pool, freed, taken, tcount, forwarding, rdIndex, wrIndex, fifo>>
      BY <2>6 DEF vars, poolVars, packetVars, ringVars
    <3>2. TypeOK' /\ sending' = sending /\ transmitting' = transmitting
      BY <2>6 DEF FramesInv, TypeOK, Live, InPool, vars, poolVars, packetVars, ringVars,
                  setupVars, ownerVars
    <3>3. QED  BY <3>1, <3>2, QuietStep DEF FramesInv, CountsOwners
  <2>7. QED  BY <2>1, <2>2, <2>3, <2>4, <2>5, <2>6 DEF Next
<1>3. QED  BY <1>1, <1>2, PTL DEF Spec

\* The indices of the rings, the counts and the pools stay in their ranges.
THEOREM RxFramesTypes == Spec => []TypeOK
<1>1. FramesInv => TypeOK
  BY DEF FramesInv
<1>2. QED  BY <1>1, SpecFramesInv, PTL

\* get_and_dec_transmit_count is right for any number of clients: a packet in
\* a queue or on the other port's wire is not released, and the last owner,
\* and no other, releases it.
THEOREM RxFramesCountsOwners == Spec => []CountsOwners
<1>1. FramesInv => CountsOwners
  BY DEF FramesInv
<1>2. QED  BY <1>1, SpecFramesInv, PTL

\* Each client's queue holds the packets of a pool in the order in which
\* mii_rx_pins committed them, whatever the filters and the queue sizes.
THEOREM RxFramesInOrder == Spec => []InOrder
<1>1. FramesInv => InOrder
  BY DEF FramesInv
<1>2. QED  BY <1>1, SpecFramesInv, PTL

\* A client is sent the packets that process_received_frame put into its ring,
\* in that order, each once, and every one that its filter matched and its
\* queue had room for, for any number of clients and entries.
THEOREM RxFramesQueuesFifo == Spec => QueuesFifo
<1>1. FramesInv /\ [Next]_vars => [\A i \in Links : QueueStep(i)]_vars
  <2> SUFFICES ASSUME FramesInv, Next  PROVE \A i \in Links : QueueStep(i)
    OBVIOUS
  <2>1. ASSUME NEW p \in Pools, RxCommit(p)  PROVE \A i \in Links : QueueStep(i)
    BY <2>1, QueuesQuiet DEF RxCommit
  <2>2. ASSUME NEW p \in Pools, process_received_frame(p)
        PROVE  \A i \in Links : QueueStep(i)
    BY <2>2, QueuesReceive
  <2>3. CASE FrameSent
    BY <2>3, QueuesSent
  <2>4. ASSUME NEW p \in Pools, Forward(p)  PROVE \A i \in Links : QueueStep(i)
    BY <2>4, QueuesQuiet DEF Forward, poolVars
  <2>5. CASE ethernet_filter \/ Forwarded
    BY <2>5, QueuesQuiet DEF ethernet_filter, Forwarded
  <2>6. ASSUME NEW j \in Links,
               SendFrame(j) \/ mac_set_custom_filter(j) \/ mac_set_queue_size(j)
        PROVE  \A i \in Links : QueueStep(i)
    BY <2>6, QueuesQuiet DEF SendFrame, mac_set_custom_filter, mac_set_queue_size, poolVars
  <2>7. QED  BY <2>1, <2>2, <2>3, <2>4, <2>5, <2>6 DEF Next
<1>2. QED  BY <1>1, SpecFramesInv, PTL DEF Spec, QueuesFifo

\* The rings, the pools with their gaps and their read pointers, and the transmit
\* counts together deliver frames as FrameDelivery says, for any number of
\* clients, pools, packets and entries of a ring: every step of RxFrames is
\* a step of it or changes nothing there.
THEOREM RxFramesDelivers == Spec => DeliversFrames
<1>1. Init => FramesInv /\ Delivery!Init
  <2> SUFFICES ASSUME Init  PROVE FramesInv /\ Delivery!Init
    OBVIOUS
  <2>1. FramesInv
    BY FramesInit
  <2>2. ASSUME NEW p \in Pools  PROVE FromFirstNotIn(pool[p], taken) = <<>>
    <3>0. pool[p] = <<>>
      BY DEF Init
    <3>1. PICK s \in Seq(Bufs) : s = <<>>
      <4>1. <<>> \in Seq(Bufs)
        OBVIOUS
      <4>2. QED  BY <4>1, Zenon
    <3>2. /\ 0 \in 0 .. Len(s) /\ Len(s) = Len(s) - 0
          /\ \A j \in 1 .. 0 : s[j] \in taken
          /\ \A j \in 0 + 1 .. Len(s) : s[j] \notin taken
          /\ \A k \in 1 .. Len(s) : s[k] = s[k + 0]
      BY <3>1
    <3>3. FromFirstNotIn(s, taken) = s
      BY <3>2, RestIs
    <3>4. QED  BY <3>0, <3>1, <3>3
  <2>3. ASSUME NEW i \in Links  PROVE [n \in 1 .. QueueSize(i) |-> Entry(i, n - 1)] = <<>>
    <3>1. QueueSize(i) = 0
      BY DEF Init, QueueSize
    <3>2. PICK w \in Seq(Bufs) : w = Waiting[i] /\ Len(w) = 0
      BY <2>1, <3>1, WaitingType DEF FramesInv
    <3>3. w = <<>>
      BY <3>2
    <3>4. QED  BY <3>2, <3>3 DEF Waiting
  <2>4. {b \in Bufs : forwarding[b]} = {}
    BY DEF Init
  <2>5. QED  BY <2>1, <2>2, <2>3, <2>4 DEF Delivery!Init
<1>2. FramesInv /\ FramesInv' /\ [Next]_vars => [Delivery!Next]_(Delivery!vars)
  <2> SUFFICES ASSUME FramesInv, FramesInv', [Next]_vars
               PROVE  [Delivery!Next]_(Delivery!vars)
    OBVIOUS
  <2>1. ASSUME NEW p \in Pools, RxCommit(p)  PROVE Delivery!Next
    BY <2>1, DeliveryCommit
  <2>2. ASSUME NEW p \in Pools, process_received_frame(p)  PROVE Delivery!Next
    BY <2>2, DeliveryReceive
  <2>3. CASE FrameSent
    BY <2>3, DeliverySent
  <2>4. CASE Forwarded
    BY <2>4, DeliveryForwarded
  <2>5. CASE \/ ethernet_filter \/ UNCHANGED vars
             \/ \E i \in Links : SendFrame(i) \/ mac_set_custom_filter(i) \/ mac_set_queue_size(i)
             \/ \E p \in Pools : Forward(p)
    <3>1. UNCHANGED <<pool, taken, forwarding, ringVars>>
      BY <2>5 DEF ethernet_filter, SendFrame, mac_set_custom_filter, mac_set_queue_size,
                  Forward, vars, poolVars, packetVars
    <3>2. QED  BY <3>1, DeliveryQuiet
  <2>6. QED  BY <2>1, <2>2, <2>3, <2>4, <2>5 DEF Next
<1>3. QED  BY <1>1, <1>2, SpecFramesInv, PTL DEF Spec, DeliversFrames, Delivery!Spec

=============================================================================
