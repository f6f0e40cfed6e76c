------------------------------ MODULE MiiRxPool ------------------------------
(***************************************************************************)
(* A receive pool: mii_rx_pins (mii_master.xc) writes frames into it word  *)
(* by word as they arrive, testing the reader's rdptr before each store;   *)
(* ethernet_rx_server takes the committed packets in order, with a read    *)
(* pointer of its own, and releases them in the order its clients fetch    *)
(* them.                                                                   *)
(*                                                                         *)
(* Timing.  mii_free stores rdptr, then, about five instructions later,    *)
(* rdptr_at_start and the old header.  mii_rx_pins handles at most one     *)
(* port event (a word, the end of a frame) in that time: words arrive      *)
(* 320 ns apart and the end of a frame is handled by a dozen instructions. *)
(* That is the guard InTime below.  mii_reserve takes more than five       *)
(* instructions between its load of rdptr and its store of hdr->info, so   *)
(* it is a step outside the window.                                        *)
(***************************************************************************)
EXTENDS MiiMalloc

CONSTANT Fixed   \* words of a packet that are stored without testing rdptr:
                 \* the two headers and the first six words of the frame

ASSUME FixedAssumption == Fixed \in Nat /\ 2 <= Fixed /\ Fixed < MinUsage

VARIABLE my_rdptr   \* ethernet_rx_server's read pointer into this pool

vars == <<mallocVars, my_rdptr>>

Init ==
  /\ mii_init_mempool
  /\ my_rdptr = rdptr              \* mii_init_my_rdptr

-----------------------------------------------------------------------------
(* mii_rx_pins *)

\* At most one port event falls between the store of rdptr and FreeMark.
InTime == ~(fpc = "mark" /\ raced)

\* mii_reserve returns a buffer.
CanReserve == rdptr > wrptr => rdptr - wrptr >= MinUsage

\* mii_reserve, and the stores into the fixed part of the packet.  When it
\* fails the frame is dropped and nothing changes.
mii_reserve ==
  /\ wpc = "idle" /\ fpc # "mark" /\ CanReserve
  /\ \E v \in DataWords :
       mem' = [a \in Words |->
                 IF a \in wrptr + 1 .. wrptr + Fixed - 1 THEN v ELSE mem[a]]
  /\ dptr' = wrptr + Fixed /\ ii' = Fixed /\ wpc' = "open"
  /\ UNCHANGED <<rdptr, wrptr, rdptr_at_start, live, order, freeVars, held,
                 my_rdptr>>

\* A store that does not test rdptr.
Mut_RoomForWord_always == TRUE

\* dptr != rdptr_value.
RoomForWord == dptr # rdptr

\* A word of the frame is stored.  (A word that finds no room is dropped,
\* the frame going on.)
RxWord ==
  /\ wpc = "open" /\ InTime /\ RoomForWord
  /\ \E v \in DataWords : mem' = [mem EXCEPT ![dptr] = v]
  /\ dptr' = Advance(dptr, 1) /\ ii' = ii + 1
  /\ raced' = (raced \/ fpc = "mark")
  /\ UNCHANGED <<rdptr, wrptr, rdptr_at_start, live, order, fpc, hdr, old,
                 freed, held, wpc, my_rdptr>>

\* End of frame: the tail goes to the word after the packet, the next
\* packet's header to be, and mii_commit stores hdr->next.
RxCommit ==
  /\ wpc = "open" /\ InTime /\ RoomForWord
  /\ ~mii_commit_fails(dptr)
  /\ \E v \in DataWords :
       mem' = [mem EXCEPT ![dptr] = v, ![wrptr] = CommitEnd(dptr)]
  /\ dptr' = CommitEnd(dptr) /\ wpc' = "publish"
  /\ raced' = (raced \/ fpc = "mark")
  /\ UNCHANGED <<rdptr, wrptr, rdptr_at_start, live, order, fpc, hdr, old,
                 freed, held, ii, my_rdptr>>

RxPublish == Publish /\ UNCHANGED my_rdptr

\* The frame ends without a packet: there is no room for the tail,
\* mii_commit refuses, or the frame's priority is the other pool's.
RxDrop ==
  /\ wpc = "open"
  /\ \/ ~RoomForWord
     \/ mii_commit_fails(dptr)
     \/ ii = Fixed
  /\ wpc' = "idle"
  /\ UNCHANGED <<poolVars, freeVars, held, dptr, ii, my_rdptr>>

-----------------------------------------------------------------------------
(* ethernet_rx_server *)

\* mii_get_my_next_buf and mii_update_my_rdptr.
ServerTake ==
  /\ my_rdptr # wrptr
  /\ held' = held \cup {my_rdptr}
  /\ my_rdptr' = mem[my_rdptr]
  /\ UNCHANGED <<poolVars, freeVars, writerVars>>

\* The last client of a packet has fetched it, or no client wants it.
ServerFree == /\ \E h \in held : mii_free(h)
              /\ UNCHANGED my_rdptr

Free == FreeStep /\ UNCHANGED my_rdptr

Writer == mii_reserve \/ RxWord \/ RxCommit \/ RxPublish \/ RxDrop

Next == Writer \/ ServerTake \/ ServerFree \/ Free

Spec == Init /\ [][Next]_vars

\* The server's thread runs, and clients fetch the frames they are notified
\* of, so that every packet taken is at some point released.  Nothing is
\* assumed of the wire.
Fairness == WF_vars(Free) /\ WF_vars(ServerTake) /\ WF_vars(ServerFree)

FairSpec == Spec /\ Fairness
-----------------------------------------------------------------------------
(* Properties *)

TypeOK == PoolTypeOK /\ my_rdptr \in HeaderPlaces

\* mii_malloc.c:215: the reader's pointer is always at a packet that is
\* committed and not released, or at wrptr, so the next pointer read by
\* mii_update_my_rdptr is positive.
ReaderOnChain == IF my_rdptr = wrptr THEN Queued = {}
                 ELSE my_rdptr \in Queued /\ mem[my_rdptr] > 0

\* A receive pool that is full recovers: mii_reserve succeeds again.
PoolRecovers == ~CanReserve ~> CanReserve

\* The server's pointer is at a packet or at wrptr, and splits the packets
\* into those taken before it and those still queued.
ReaderInv ==
  /\ my_rdptr \in live \cup {wrptr}
  /\ \A h \in live :
       h \in held \cup freed <=> Dist(rdptr, h) < Dist(rdptr, my_rdptr)

RxInv == PoolInv /\ ReaderInv

\* The server's pointer in the order of commitment: it has taken the packets
\* in front of it and none of the others.
ServerPlace ==
  \E n \in 0 .. Len(order) :
    /\ \A k \in 1 .. Len(order) : order[k] \in held \cup freed <=> k <= n
    /\ my_rdptr = IF n = Len(order) THEN wrptr ELSE order[n + 1]

=============================================================================
