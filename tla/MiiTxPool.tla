------------------------------ MODULE MiiTxPool ------------------------------
(***************************************************************************)
(* A transmit pool: ethernet_tx_server reserves room for a packet of the   *)
(* largest size, copies the client's frame into it and commits; it does    *)
(* not look at what mii_commit returns.  mii_tx_pins transmits the oldest  *)
(* packet only (mii_get_next_buf), and it, or the server once it has       *)
(* replied with the timestamp, releases it.                                *)
(***************************************************************************)
EXTENDS MiiMalloc

CONSTANTS
  HdrWords, \* words of the two headers: malloc_hdr_t and mii_packet_t
  MinSize,  \* MII_MALLOC_FULL_PACKET_SIZE, in words, rounded up
  MaxUse    \* words of the largest packet that a client sends

ASSUME TxAssumption ==
  /\ HdrWords \in Nat /\ MinSize \in Nat /\ MaxUse \in Nat
  /\ 2 <= HdrWords /\ HdrWords < MinUsage
  /\ MinUsage <= MinSize /\ MaxUse <= MinSize

TxInit == mii_init_mempool

-----------------------------------------------------------------------------
(* ethernet_tx_server *)

\* A space computation that takes an empty pool for a full one.
Mut_SpaceLeft_empty_is_full ==
  IF rdptr - wrptr < 0 THEN rdptr - wrptr + Size ELSE rdptr - wrptr

\* space_left of mii_reserve_at_least.
SpaceLeft == IF rdptr - wrptr <= 0 THEN rdptr - wrptr + Size ELSE rdptr - wrptr

\* A mii_reserve_at_least that asks for no extra room when rdptr is at start.
Mut_CanReserveAtLeast_no_extra == SpaceLeft >= MinSize

\* mii_reserve_at_least returns a buffer.
CanReserveAtLeast ==
  SpaceLeft >= MinSize + (IF rdptr = Start THEN MinUsage ELSE 0)

\* When it fails the client's command stays pending and is tried again.
mii_reserve_at_least ==
  /\ wpc = "idle" /\ fpc # "mark" /\ CanReserveAtLeast
  /\ wpc' = "reserved" /\ dptr' = wrptr + HdrWords /\ ii' = HdrWords
  /\ \E v \in DataWords :
       mem' = [a \in Words |->
                 IF a \in wrptr + 1 .. wrptr + HdrWords - 1 THEN v ELSE mem[a]]
  /\ UNCHANGED <<rdptr, wrptr, rdptr_at_start, live, order, freeVars, held>>

\* The whole frame is copied; rdptr plays no part in it.
get_packet_from_client ==
  /\ wpc = "reserved"
  /\ \E n \in HdrWords + 1 .. MaxUse :
       /\ dptr' = Advance(wrptr, n) /\ ii' = n
       /\ \E v \in DataWords :
            mem' = [a \in Words |->
                      IF a # End /\ Dist(wrptr, a) \in HdrWords .. n - 1
                      THEN v ELSE mem[a]]
  /\ wpc' = "open"
  /\ UNCHANGED <<rdptr, wrptr, rdptr_at_start, live, order, freeVars, held>>

\* mii_commit.  A packet that it refuses is lost.
TxCommit ==
  /\ wpc = "open"
  /\ IF mii_commit_fails(dptr)
     THEN wpc' = "idle" /\ UNCHANGED <<mem, dptr>>
     ELSE /\ mem' = [mem EXCEPT ![wrptr] = CommitEnd(dptr)]
          /\ dptr' = CommitEnd(dptr) /\ wpc' = "publish"
  /\ UNCHANGED <<rdptr, wrptr, rdptr_at_start, live, order, freeVars, held,
                 ii>>

\* The frame is for another port: space was reserved and filled in every
\* port's pool, and only the destination's is committed.
TxSkip ==
  /\ wpc = "open" /\ wpc' = "idle"
  /\ UNCHANGED <<poolVars, freeVars, held, dptr, ii>>

-----------------------------------------------------------------------------
(* mii_tx_pins, and the server's timestamp replies *)

\* mii_get_next_buf returns a packet that is not being transmitted (stage 1).
TxTake ==
  /\ rdptr # wrptr /\ rdptr \notin held \cup freed
  /\ held' = held \cup {rdptr}
  /\ UNCHANGED <<poolVars, freeVars, writerVars>>

\* Transmitted, and the timestamp if asked for sent to the client.
TxFree == \E h \in held : mii_free(h)

\* A step of the mii_free that is running.  Only the oldest packet is ever
\* freed here (TxTake), so its FreeYounger case is MiiRxPool's.
TxFreeNext == fpc # "idle" /\ FreeStep

TxWriter == mii_reserve_at_least \/ get_packet_from_client \/ TxCommit \/ Publish
              \/ TxSkip

TxNext == TxWriter \/ TxTake \/ TxFree \/ TxFreeNext

TxSpec == TxInit /\ [][TxNext]_mallocVars

\* The threads run; a client waits for the timestamp it asked for.
TxFairness ==
  WF_mallocVars(TxFreeNext) /\ WF_mallocVars(TxTake) /\ WF_mallocVars(TxFree)

TxFairSpec == TxSpec /\ TxFairness

-----------------------------------------------------------------------------
(* Properties *)

\* The server ignores mii_commit's result (ethernet_tx_server.xc:224), so
\* the space that mii_reserve_at_least checked has to be enough for
\* mii_commit too, wherever rdptr has moved in the meantime.
CommitNeverRefused == wpc = "open" => ~mii_commit_fails(dptr)

\* A client whose command is pending for want of space gets some.
TxPoolRecovers == ~CanReserveAtLeast ~> CanReserveAtLeast

\* What mii_reserve_at_least found still holds when mii_commit is called:
\* there is room for the largest packet, and if rdptr is, or mii_commit still
\* believes it is, at the start, room for a header after it.
RoomInv ==
  wpc \in {"reserved", "open"} =>
    /\ wpc = "open" => ii <= MaxUse
    /\ MinSize <= Gap
    /\ rdptr = Start \/ rdptr_at_start => wrptr + MinSize + MinUsage <= End

TxInv == PoolInv /\ RoomInv

=============================================================================
