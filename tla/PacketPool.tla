----------------------------- MODULE PacketPool ------------------------------
(***************************************************************************)
(* What mii_malloc.h promises: a pool is the sequence of its packets, in   *)
(* the order in which they were committed.  The reader gets each packet    *)
(* once and in that order, packets are released in any order, and the      *)
(* memory of the oldest one is reclaimed once it is released.  Modules     *)
(* RxFrames and TxPath use pools as this module has them; MiiRxPool and    *)
(* MiiTxPool, with their words, pointers and races, implement it.          *)
(***************************************************************************)
EXTENDS Sequences, Naturals

CONSTANT Bufs   \* the places that a packet may have

VARIABLES
  pool,   \* the packets that are not reclaimed, the oldest first
  taken,  \* those of them that the reader has got
  freed   \* those of them that have been released

vars == <<pool, taken, freed>>

InPool == {pool[k] : k \in 1 .. Len(pool)}

mii_init_mempool == pool = <<>> /\ taken = {} /\ freed = {}

\* mii_reserve or mii_reserve_at_least, and mii_commit: a new packet, at a
\* place that no other packet has.
mii_commit ==
  /\ \E b \in Bufs \ InPool : pool' = Append(pool, b)
  /\ UNCHANGED <<taken, freed>>

\* mii_get_next_buf, or mii_get_my_next_buf and mii_update_my_rdptr: the
\* oldest packet that the reader does not have yet.
mii_get_next_buf ==
  /\ \E k \in 1 .. Len(pool) :
       /\ pool[k] \notin taken /\ \A j \in 1 .. k - 1 : pool[j] \in taken
       /\ taken' = taken \cup {pool[k]}
  /\ UNCHANGED <<pool, freed>>

\* mii_free of a packet, once.
mii_free ==
  /\ \E b \in taken \ freed : freed' = freed \cup {b}
  /\ UNCHANGED <<pool, taken>>

\* The oldest packet is reclaimed.
Reclaim ==
  /\ pool # <<>> /\ Head(pool) \in freed
  /\ pool' = Tail(pool)
  /\ taken' = taken \ {Head(pool)} /\ freed' = freed \ {Head(pool)}

Next == mii_commit \/ mii_get_next_buf \/ mii_free \/ Reclaim

\* What may happen to a pool.
SafeSpec == mii_init_mempool /\ [][Next]_vars

\* Released packets do not stay in front of the others for ever.
Reclaims ==
  (pool # <<>> /\ Head(pool) \in freed) ~> (pool = <<>> \/ Head(pool) \notin freed)

Spec == SafeSpec /\ Reclaims

=============================================================================
