------------------------------ MODULE MiiMalloc ------------------------------
(***************************************************************************)
(* The packet memory of the five-core MAC                                  *)
(* (module_ethernet/src/full/mii_malloc.c).  A pool is a ring of words     *)
(* Start .. End-1 in which variable-sized packets are allocated in order.  *)
(* ONE writer reserves space at wrptr and publishes a packet by storing    *)
(* wrptr, without a lock (mii_commit).  Readers release packets in any     *)
(* order (mii_free, under ethernet_memory_lock); space is only reclaimed   *)
(* from the oldest packet on.                                              *)
(*                                                                         *)
(* This module holds the pool and mii_free.  The two writers, mii_rx_pins  *)
(* and ethernet_tx_server, are modules MiiRxPool and MiiTxPool.            *)
(*                                                                         *)
(* Addresses and sizes are in words.  Start is 1: a header address is      *)
(* positive, and the sign of a header's first word, next, is meaningful    *)
(* (negative = released but not yet reclaimed).                            *)
(***************************************************************************)
EXTENDS Integers, Sequences

CONSTANTS Size,      \* words of the ring: end - start
          MinUsage,  \* MIN_USAGE: space kept between a header and the end
          DataWords  \* the values that packet contents may have in memory

ASSUME PoolAssumption ==
  /\ Size \in Nat /\ MinUsage \in Nat
  /\ 2 < MinUsage /\ MinUsage <= Size
  /\ DataWords \subseteq Int

Start == 1
End == Start + Size
Words == Start .. End
RingWords == Start .. (End - 1)

VARIABLES
  rdptr,          \* info->rdptr: header of the oldest packet
  wrptr,          \* info->wrptr: where the next packet's header goes
  rdptr_at_start, \* info->rdptr_at_start
  mem,            \* the memory words; mem[End] is the wrap pointer
  fpc,            \* where the mii_free that holds the lock is
  hdr,            \* its local hdr
  old,            \* its local old_hdr
  raced,          \* the writer looked at rdptr since mii_free moved it
  wpc,            \* the writer: "idle", "reserved", "open" or "publish"
  dptr,           \* where its next word goes; in "publish", its end_ptr
  ii,             \* words of its packet so far, headers included
  live,           \* history: headers of the packets not yet reclaimed
  order,          \* history: the same packets, in the order of commitment
  held,           \* history: live packets that a reader owns
  freed           \* history: live packets handed to mii_free

poolVars == <<rdptr, wrptr, rdptr_at_start, mem, live, order>>
freeVars == <<fpc, hdr, old, raced, freed>>
writerVars == <<wpc, dptr, ii>>
mallocVars == <<poolVars, freeVars, writerVars, held>>

FreeStates == {"idle", "loop", "mark", "wrtest", "nexttest"}

\* The rest of an uninitialised pool holds whatever the memory held.
mii_init_mempool ==
  /\ rdptr = Start /\ wrptr = Start /\ rdptr_at_start = TRUE
  /\ \E v \in DataWords :
       mem = [a \in Words |-> CASE a = End -> Start [] a = Start -> 0
                                [] OTHER -> v]
  /\ fpc = "idle" /\ hdr = Start /\ old = Start /\ raced = FALSE
  /\ wpc = "idle" /\ dptr = Start /\ ii = 0
  /\ live = {} /\ order = <<>> /\ held = {} /\ freed = {}

-----------------------------------------------------------------------------
(* The ring *)

\* The address n words after a; running into End loads the wrap pointer
\* that mii_init_mempool stored there ("ldw %0,%0[0]").
Advance(a, n) == IF a + n >= End THEN mem[End] + (a + n - End) ELSE a + n

Abs(n) == IF n < 0 THEN -n ELSE n

\* The header that follows h, whether or not h has been released.
Next_(h) == Abs(mem[h])

\* Words from a forward to b.
Dist(a, b) == IF a <= b THEN b - a ELSE b - a + Size

\* Words the writer may use: up to the oldest packet, all of an empty ring.
Gap == IF rdptr = wrptr THEN Size ELSE Dist(wrptr, rdptr)

\* The packets that no reader has taken yet.
Queued == live \ (held \cup freed)

-----------------------------------------------------------------------------
(* mii_commit *)

\* The end of the new packet is too close to the end of the pool for a
\* header to fit after it.
NearEnd(end_ptr) == End - end_ptr < MinUsage

\* A mii_commit without the rdptr_at_start test.
Mut_mii_commit_fails_never(end_ptr) == FALSE

\* mii_commit returns 0.
mii_commit_fails(end_ptr) == NearEnd(end_ptr) /\ rdptr_at_start

\* A mii_commit that leaves no room for a header at the end of the pool.
Mut_CommitEnd_no_wrap(end_ptr) == end_ptr

\* Where the next header goes.
CommitEnd(end_ptr) == IF NearEnd(end_ptr) THEN Start ELSE end_ptr

\* mii_commit's last store: the packet exists.
Publish ==
  /\ wpc = "publish"
  /\ wrptr' = dptr
  /\ live' = live \cup {wrptr} /\ order' = Append(order, wrptr)
  /\ wpc' = "idle"
  /\ UNCHANGED <<rdptr, rdptr_at_start, mem, freeVars, held, dptr, ii>>

-----------------------------------------------------------------------------
(* mii_free(h): every shared load or store that another thread can tell    *)
(* apart is a step.  Only the lock's holder stores rdptr, rdptr_at_start   *)
(* or the next word of a live packet.                                      *)

mii_free(h) ==
  /\ fpc = "idle"
  /\ fpc' = "loop" /\ hdr' = h
  /\ held' = held \ {h} /\ freed' = freed \cup {h}
  /\ UNCHANGED <<poolVars, writerVars, old, raced>>

\* The packets in s but for b, which should be the first of them.
Without(s, b) == IF s # <<>> /\ Head(s) = b THEN Tail(s) ELSE s

\* h is the oldest packet: rdptr moves to its successor.
FreeOldest ==
  /\ fpc = "loop" /\ hdr = rdptr
  /\ rdptr' = Next_(hdr) /\ hdr' = Next_(hdr) /\ old' = hdr
  /\ live' = live \ {hdr} /\ order' = Without(order, hdr)
  /\ freed' = freed \ {hdr}
  /\ fpc' = "mark" /\ raced' = FALSE
  /\ UNCHANGED <<wrptr, rdptr_at_start, mem, held, writerVars>>

\* A younger packet's release that leaves no mark.
Mut_FreeYounger_no_mark ==
  /\ fpc = "loop" /\ hdr # rdptr
  /\ fpc' = "idle"
  /\ UNCHANGED <<poolVars, hdr, old, raced, held, freed, writerVars>>

\* h is not the oldest: mark it released, for a later mii_free to reclaim.
FreeYounger ==
  /\ fpc = "loop" /\ hdr # rdptr
  /\ mem' = [mem EXCEPT ![hdr] = -@]
  /\ fpc' = "idle"
  /\ UNCHANGED <<rdptr, wrptr, rdptr_at_start, live, order, hdr, old, raced,
                 held, freed, writerVars>>

\* rdptr_at_start follows rdptr, and the old header is marked as empty.
FreeMark ==
  /\ fpc = "mark"
  /\ rdptr_at_start' = (rdptr = Start)
  /\ mem' = [mem EXCEPT ![old] = 0]
  /\ fpc' = "wrtest"
  /\ UNCHANGED <<rdptr, wrptr, live, order, hdr, old, raced, held, freed,
                 writerVars>>

\* The two tests in the other order.
Mut_FreeTests_swapped ==
  /\ \/ fpc = "wrtest" /\ fpc' = IF mem[hdr] > 0 THEN "idle" ELSE "nexttest"
     \/ fpc = "nexttest" /\ fpc' = IF hdr = wrptr THEN "idle" ELSE "loop"
  /\ UNCHANGED <<poolVars, hdr, old, raced, held, freed, writerVars>>

\* A mii_free that reclaims one packet only.
Mut_FreeTests_once ==
  /\ fpc = "wrtest" /\ fpc' = "idle"
  /\ UNCHANGED <<poolVars, hdr, old, raced, held, freed, writerVars>>

\* hdr == wrptr || hdr->next > 0, evaluated from left to right while
\* mii_commit may run between the two.
FreeTests ==
  /\ \/ fpc = "wrtest" /\ fpc' = IF hdr = wrptr THEN "idle" ELSE "nexttest"
     \/ fpc = "nexttest" /\ fpc' = IF mem[hdr] > 0 THEN "idle" ELSE "loop"
  /\ UNCHANGED <<poolVars, hdr, old, raced, held, freed, writerVars>>

FreeStep == FreeOldest \/ FreeYounger \/ FreeMark \/ FreeTests

-----------------------------------------------------------------------------
(* Properties of every pool *)

HeaderPlaces == {a \in RingWords : a + MinUsage <= End}

PoolTypeOK ==
  /\ rdptr \in HeaderPlaces /\ wrptr \in HeaderPlaces
  /\ rdptr_at_start \in BOOLEAN /\ raced \in BOOLEAN
  /\ mem \in [Words -> Int]
  /\ fpc \in FreeStates /\ hdr \in HeaderPlaces /\ old \in HeaderPlaces
  /\ wpc \in {"idle", "reserved", "open", "publish"}
  /\ dptr \in RingWords /\ ii \in 0 .. Size
  /\ live \subseteq HeaderPlaces
  /\ held \subseteq live /\ freed \subseteq live /\ held \cap freed = {}

\* Words of a live packet, and of the gap that follows it when the next
\* header did not fit before the end of the pool.
Extent(h) == Dist(h, Next_(h))

\* No live packet contains the header of another one, the place where the
\* writer's packet starts or a word that the writer has stored: a packet is
\* intact from mii_commit until it is reclaimed.
NoOverlap ==
  \A h \in live :
    /\ \A g \in live \ {h} : Dist(h, g) >= Extent(h)
    /\ Dist(h, wrptr) >= Extent(h)
    /\ wpc \in {"reserved", "open"} => Dist(wrptr, h) >= ii

\* mii_malloc.c:126: committing never makes the buffer look empty, and a
\* buffer whose packets are all reclaimed does look empty.
LooksEmptyIffEmpty == rdptr = wrptr <=> live = {}

\* When no mii_free is running, the oldest packet is one that has not been
\* released: released packets never pile up behind a reader that is done.
\* This is what the order of the two tests of mii_free (mii_malloc.c:176)
\* and the lazy marking of younger packets have to achieve together.
NothingLeaks == fpc = "idle" /\ live # {} => rdptr \in live \ freed

-----------------------------------------------------------------------------
(* The pool that this memory implements, module PacketPool *)

Pool == INSTANCE PacketPool WITH
          Bufs <- HeaderPlaces, pool <- order, taken <- held \cup freed

\* The words, pointers and marks of mii_malloc.c, with the writer and the
\* threads that release packets interleaved, implement a pool: no packet is
\* lost, got twice, got out of order, reclaimed before it is released or left
\* behind once it is, and none is committed over another one.
ImplementsPool == Pool!Spec

-----------------------------------------------------------------------------
(***************************************************************************)
(* The inductive invariant behind these properties.  All positions are     *)
(* compared by the distance Dist around the ring, never by address.        *)
(***************************************************************************)

\* The wrap pointer is never overwritten.
WrapInv == mem[End] = Start

\* rdptr is the header of a live packet unless there is none.
HeadInv == /\ rdptr = wrptr <=> live = {}
           /\ live # {} => rdptr \in live

\* Every packet ends where another one, or the writer's space, begins, and
\* contains neither; no header is in the space between wrptr and rdptr.
ChainInv ==
  \A h \in live :
    /\ Next_(h) \in live \cup {wrptr} /\ Next_(h) # h
    /\ \A g \in live \ {h} : Dist(h, g) >= Extent(h)
    /\ Dist(h, wrptr) >= Extent(h)
    /\ Dist(wrptr, h) >= Gap

\* next is negative exactly for the packets that mii_free has marked.
SignInv ==
  \A h \in live :
    /\ mem[h] < 0 => h \in freed
    /\ h \in freed /\ mem[h] >= 0 => fpc = "loop" /\ hdr = h

\* What mii_free knows at each of its steps.
FreeInv ==
  /\ fpc = "idle" => rdptr \notin freed
  /\ fpc = "loop" => /\ hdr \in freed
                     /\ rdptr \in freed => hdr = rdptr
                     /\ hdr # rdptr => mem[hdr] >= 0
  /\ fpc \in {"mark", "wrtest", "nexttest"} => hdr = rdptr
  /\ fpc = "mark" => old \notin live /\ (wpc # "idle" => old # wrptr)
  /\ fpc = "nexttest" => hdr \in live

\* rdptr_at_start can only be out of date in a state in which mii_commit
\* does not depend on it.
FlagInv ==
  /\ fpc # "mark" => rdptr_at_start = (rdptr = Start)
  /\ fpc = "mark" /\ rdptr = Start /\ wpc = "open" /\ NearEnd(dptr) /\ ~raced
       => rdptr_at_start

\* The writer stays between wrptr and rdptr.
WriterInv ==
  /\ wpc \in {"reserved", "open"} =>
       /\ 2 <= ii /\ ii <= Gap
       /\ dptr = IF wrptr + ii >= End THEN wrptr + ii - Size ELSE wrptr + ii
  /\ wpc = "publish" =>
       /\ dptr \in HeaderPlaces /\ mem[wrptr] = dptr
       /\ dptr # wrptr /\ Dist(wrptr, dptr) < Gap

\* The chain of headers from rdptr to wrptr is the order of commitment.
OrderInv ==
  /\ order \in Seq(HeaderPlaces)
  /\ live = {order[k] : k \in 1 .. Len(order)}
  /\ \A j, k \in 1 .. Len(order) : order[j] = order[k] => j = k
  /\ order # <<>> => order[1] = rdptr
  /\ \A k \in 1 .. Len(order) :
       Next_(order[k]) = IF k < Len(order) THEN order[k + 1] ELSE wrptr

PoolInv == /\ PoolTypeOK /\ WrapInv /\ HeadInv /\ ChainInv /\ SignInv
           /\ FreeInv /\ FlagInv /\ WriterInv

=============================================================================
