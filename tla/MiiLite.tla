------------------------------- MODULE MiiLite -------------------------------
(***************************************************************************)
(* The receive buffers of the two-core MAC (module_ethernet/src/lite):     *)
(* the interrupt handler of mii_client_interrrupt.S with miiClientUser,    *)
(* and the functions of mii_client_user.xc that the application's thread   *)
(* calls.  The low-level driver (mii_lld.S) runs on a core of its own and  *)
(* is always filling the buffer packetInLLD; nextBuffer is the one that    *)
(* the handler gives it when that frame ends, or none (-1).  The handler   *)
(* interrupts the application's thread between any two instructions.       *)
(*                                                                         *)
(* There are two banks.  A packet is a header word and its data.  The      *)
(* header is the length, minus the length (freed), 0 (the rest of the bank *)
(* is unused: go on at its head) or 1 (the next packet goes here).         *)
(*                                                                         *)
(* Offsets and lengths are in words from the start of a bank.  Freeing a   *)
(* packet is broken up where an interrupt changes what it finds; the other *)
(* functions read each shared word once, or (mii_restart_buffer) only run  *)
(* when the handler leaves the pointers alone, and are one step.           *)
(***************************************************************************)
EXTENDS Integers, Sequences, FiniteSets

CONSTANTS
  BankWords, \* words of a bank
  MAXPACKET, \* MAXPACKET, rounded up to words
  Lens,      \* lengths of frames, in words, rounded up
  MaxHeld,   \* packets that the application works on at a time
  MaxEnds    \* frames that may end during one call of mii_free_in_buffer

Banks == 0 .. 1
\* A lastSafePtr that is the end of the bank.
Mut_LastSafe_end == BankWords

\* lastSafePtr: the last place where a packet of any size fits.
LastSafe == BankWords - MAXPACKET

\* The driver writes a time stamp and, behind the frame, three words for
\* miiClientUser: MAXPACKET leaves room for them.
ASSUME LiteAssumption ==
  /\ BankWords \in Nat /\ MAXPACKET \in Nat /\ MaxHeld \in Nat \ {0} /\ MaxEnds \in Nat
  /\ Lens \subseteq Nat
  /\ \A n \in Lens : 1 < n /\ n + 3 <= MAXPACKET
  /\ 1 <= LastSafe

VARIABLES
  nextBuffer, packetInLLD,    \* [bank, at], or None
  freePtr, wrPtr, readPtr,    \* offsets, for each bank
  refillBankNumber, readBank,
  hdr,                        \* the header words: hdr[bank][offset]
  notifyLast, notifySeen, notification,  \* the channel to the thread itself
  upc, ubank,                 \* the application: where it is, in which bank
  ended,                      \* frames that ended during mii_free_in_buffer
  woken,                      \* it has been told to look for packets
  live,                       \* history: packets the free pointer is yet to pass
  unread,                     \* history: for each bank, those not yet got, in order
  held                        \* history: packets that the application works on

pointerVars == <<nextBuffer, freePtr, wrPtr, readPtr, refillBankNumber, readBank, hdr>>
notifyVars == <<notifyLast, notifySeen, notification>>
userVars == <<upc, ubank, woken, held>>
vars == <<pointerVars, packetInLLD, notifyVars, userVars, ended, live, unread>>

\* A word of a frame, or of memory never used, taken for a header: freed.
Data == -1

None == [bank |-> 0, at |-> -1]
Buffer(b, a) == [bank |-> b, at |-> a]

\* mii_buffer_init.
Init ==
  /\ freePtr = [b \in Banks |-> 0] /\ readPtr = freePtr /\ wrPtr = [b \in Banks |-> 1]
  /\ hdr = [b \in Banks |-> [a \in 0 .. BankWords |-> IF a = 0 THEN 1 ELSE Data]]
  /\ packetInLLD = Buffer(0, 1) /\ nextBuffer = Buffer(1, 1)
  /\ refillBankNumber = 0 /\ readBank = 0
  /\ notifyLast = TRUE /\ notifySeen = TRUE /\ notification = <<>>
  /\ upc = "idle" /\ ubank = 0 /\ woken = FALSE /\ ended = 0
  /\ live = {} /\ held = {} /\ unread = [b \in Banks |-> <<>>]

-----------------------------------------------------------------------------
(* The interrupt handler *)

\* A miiNotify that tests for a notification that is not taken.
Mut_miiNotify_if_pending ==
  IF notifyLast # notifySeen
  THEN notifyLast' = ~notifyLast /\ notification' = Append(notification, ~notifyLast)
  ELSE UNCHANGED <<notifyLast, notification>>

\* miiNotify.
miiNotify ==
  IF notifyLast = notifySeen
  THEN notifyLast' = ~notifyLast /\ notification' = Append(notification, ~notifyLast)
  ELSE UNCHANGED <<notifyLast, notification>>

\* A test for the time stamp and two words only.
Mut_FitsBefore_half(free, w) == free - w >= MAXPACKET - 2

\* There is room for a packet of any size between w and the free pointer.
FitsBefore(free, w) == free - w >= MAXPACKET

\* A test that takes the write pointer to be free to run on.
Mut_RoomInTail_always(b, w) == TRUE

\* There is room for a packet in the tail of the bank, at w.
RoomInTail(b, w) == w > freePtr[b] \/ FitsBefore(freePtr[b], w)

\* A write pointer that never goes back to the head.
Mut_Wraps_never(b, w) == FALSE

\* The write pointer w is too far for a packet, and the head of the bank is
\* free.
Wraps(b, w) == w > LastSafe /\ freePtr[b] # 0

\* The words that the driver may store into in the buffer y: a time stamp, the
\* frame and three words for miiClientUser.
Fills(y) == y.at .. y.at + MAXPACKET - 1

\* The headers h, once the driver has the buffer y.
Overwritten(h, y) == [h EXCEPT ![y.bank] = [a \in 0 .. BankWords |->
                        IF a \in Fills(y) THEN Data ELSE @[a]]]

\* miiCommitBuffer: a frame of n words, in the buffer at wrPtr[b], is good.
miiCommitBuffer(b, n) ==
  LET w == wrPtr[b] + n + 1
      h == Overwritten(hdr, nextBuffer)
  IN
  /\ live' = live \cup {Buffer(b, wrPtr[b] - 1)}
  /\ unread' = [unread EXCEPT ![b] = Append(@, Buffer(b, wrPtr[b] - 1))]
  /\ miiNotify
  /\ IF Wraps(b, w)
     THEN \* the tail is unused, and the head of the bank is free
          /\ hdr' = [h EXCEPT ![b][wrPtr[b] - 1] = n, ![b][w - 1] = 0, ![b][0] = 1]
          /\ wrPtr' = [wrPtr EXCEPT ![b] = 1]
          /\ nextBuffer' = IF FitsBefore(freePtr[b], 1) THEN Buffer(b, 1) ELSE None
     ELSE /\ hdr' = [h EXCEPT ![b][wrPtr[b] - 1] = n, ![b][w - 1] = 1]
          /\ wrPtr' = [wrPtr EXCEPT ![b] = w]
          /\ nextBuffer' = IF w <= LastSafe /\ RoomInTail(b, w) THEN Buffer(b, w)
                           ELSE None
  /\ refillBankNumber' = IF nextBuffer' = None THEN b ELSE refillBankNumber
  /\ UNCHANGED <<freePtr, readPtr, readBank>>

\* The loop of mii_free_in_buffer takes far less time than a frame: not more
\* than MaxEnds interrupts come during it.
Interrupt ==
  /\ upc = "free" => ended < MaxEnds
  /\ ended' = IF upc = "free" THEN ended + 1 ELSE 0

\* A frame ends and there is a buffer for the next one: the driver gets it,
\* and miiClientUser keeps the frame.
FrameGood ==
  /\ nextBuffer # None /\ Interrupt
  /\ packetInLLD' = nextBuffer
  /\ \E n \in Lens : miiCommitBuffer(packetInLLD.bank, n)
  /\ UNCHANGED <<notifySeen, userVars>>

\* The CRC is wrong: miiRejectBuffer.
FrameBad ==
  /\ nextBuffer # None /\ Interrupt
  /\ packetInLLD' = nextBuffer /\ nextBuffer' = packetInLLD
  /\ hdr' = Overwritten(hdr, nextBuffer)
  /\ UNCHANGED <<freePtr, wrPtr, readPtr, refillBankNumber, readBank, notifyVars,
                 userVars, live, unread>>

\* (With no buffer for the next frame, this one is dropped and its buffer
\* used again: nothing changes.)

-----------------------------------------------------------------------------
(* The application's thread *)

\* mii_notified.
mii_notified ==
  /\ upc = "idle" /\ notification # <<>>
  /\ notifySeen' = Head(notification) /\ notification' = Tail(notification)
  /\ woken' = TRUE
  /\ UNCHANGED <<pointerVars, packetInLLD, notifyLast, upc, ubank, held, ended, live,
                 unread>>

\* Where the next packet of bank b is: behind an unused tail, at its head.
ReadAt(b) == IF hdr[b][readPtr[b]] = 0 THEN 0 ELSE readPtr[b]

\* Where the read pointer goes from the packet at a.
ReadNext(b, a) ==
  LET e == a + hdr[b][a] + 1 IN IF hdr[b][e] = 0 THEN 0 ELSE e

\* mii_get_in_buffer looks in one bank, the other one than last time, and if
\* there is nothing in the next one.  The application may look at any time;
\* having found nothing in both, it waits for a notification.
mii_get_in_buffer ==
  LET b == 1 - readBank
      a == ReadAt(b)
  IN
  /\ upc = "get2" \/ (upc = "idle" /\ Cardinality(held) < MaxHeld)
  /\ readBank' = b
  /\ IF hdr[b][a] # 1
     THEN /\ readPtr' = [readPtr EXCEPT ![b] = ReadNext(b, a)]
          /\ held' = held \cup {Buffer(b, a)} /\ unread' = [unread EXCEPT ![b] = Tail(@)]
          /\ upc' = "idle" /\ UNCHANGED woken
     ELSE /\ readPtr' = [readPtr EXCEPT ![b] = a]
          /\ upc' = IF upc = "idle" THEN "get2" ELSE "idle"
          /\ woken' = (woken /\ upc = "idle")
          /\ UNCHANGED <<held, unread>>
  /\ UNCHANGED <<nextBuffer, freePtr, wrPtr, refillBankNumber, hdr, packetInLLD,
                 notifyVars, ubank, ended, live>>

\* mii_free_in_buffer(x) marks the packet; packets may be freed in any order.
mii_free_in_buffer ==
  /\ upc = "idle"
  /\ \E x \in held :
       /\ hdr' = [hdr EXCEPT ![x.bank][x.at] = -@]
       /\ held' = held \ {x} /\ ubank' = x.bank
  /\ upc' = "free" /\ ended' = 0
  /\ UNCHANGED <<nextBuffer, freePtr, wrPtr, readPtr, refillBankNumber, readBank,
                 packetInLLD, notifyVars, woken, live, unread>>

\* Where the free pointer goes from a header that is not positive.
FreeNext(b) == LET l == hdr[b][freePtr[b]] IN IF l = 0 THEN 0 ELSE freePtr[b] + 1 - l

\* The free pointer moves past the packets that are freed.
FreeLoop ==
  /\ upc = "free"
  /\ IF hdr[ubank][freePtr[ubank]] > 0
     THEN upc' = "restart" /\ UNCHANGED <<freePtr, live>>
     ELSE /\ freePtr' = [freePtr EXCEPT ![ubank] = FreeNext(ubank)]
          /\ live' = live \ {Buffer(ubank, freePtr[ubank])}
          /\ UNCHANGED upc
  /\ UNCHANGED <<nextBuffer, wrPtr, readPtr, refillBankNumber, readBank, hdr, packetInLLD,
                 notifyVars, ubank, woken, held, ended, unread>>

\* mii_restart_buffer: if reception stopped for want of a buffer, try again.
mii_restart_buffer ==
  LET b == refillBankNumber
      wrap == Wraps(b, wrPtr[b])
      w == IF wrap THEN 1 ELSE wrPtr[b]
  IN
  /\ upc = "restart" /\ upc' = "idle"
  /\ IF nextBuffer # None THEN UNCHANGED <<hdr, wrPtr, nextBuffer>>
     ELSE /\ wrPtr' = [wrPtr EXCEPT ![b] = w]
          /\ hdr' = IF wrap THEN [hdr EXCEPT ![b][wrPtr[b] - 1] = 0, ![b][0] = 1] ELSE hdr
          /\ nextBuffer' = IF \/ wrap /\ FitsBefore(freePtr[b], w)
                              \/ ~wrap /\ w <= LastSafe /\ RoomInTail(b, w)
                           THEN Buffer(b, w) ELSE None
  /\ UNCHANGED <<freePtr, readPtr, refillBankNumber, readBank, packetInLLD, notifyVars,
                 ubank, woken, held, ended, live, unread>>

User == \/ mii_notified \/ mii_get_in_buffer \/ mii_free_in_buffer \/ FreeLoop
        \/ mii_restart_buffer

Next == FrameGood \/ FrameBad \/ User

Spec == Init /\ [][Next]_vars

\* The application waits for notifications, gets packets and frees them;
\* frames may keep coming, or stop.
Fairness ==
  /\ WF_vars(mii_notified) /\ WF_vars((woken \/ upc = "get2") /\ mii_get_in_buffer)
  /\ WF_vars(mii_free_in_buffer) /\ WF_vars(FreeLoop) /\ WF_vars(mii_restart_buffer)

FairSpec == Spec /\ Fairness

-----------------------------------------------------------------------------
(* Properties *)

Offsets == 0 .. BankWords
Packets == [bank : Banks, at : Offsets]

TypeOK ==
  /\ nextBuffer \in Packets \cup {None} /\ packetInLLD \in Packets
  /\ freePtr \in [Banks -> Offsets] /\ readPtr \in [Banks -> Offsets]
  /\ wrPtr \in [Banks -> Offsets] /\ hdr \in [Banks -> [Offsets -> Int]]
  /\ refillBankNumber \in Banks /\ readBank \in Banks
  /\ notifyLast \in BOOLEAN /\ notifySeen \in BOOLEAN /\ notification \in Seq(BOOLEAN)
  /\ upc \in {"idle", "get2", "free", "restart"} /\ ubank \in Banks /\ woken \in BOOLEAN
  /\ ended \in 0 .. MaxEnds
  /\ live \subseteq Packets /\ held \subseteq Packets

\* The words of a packet, its header included.
WordsOf(x) == LET l == hdr[x.bank][x.at]
              IN  x.at .. x.at + (IF l < 0 THEN -l ELSE l)

Filled == {packetInLLD, nextBuffer} \ {None}

\* The driver never writes over a packet that is not reclaimed, over the
\* header that mii_free_in_buffer reads next, or beyond its bank: neither in
\* the buffer that it has nor in the one it gets next.  The packets that the
\* application works on are not reclaimed, and their lengths are there.
NoOverlap ==
  /\ \A y \in Filled :
       /\ \A x \in live : x.bank = y.bank => WordsOf(x) \cap Fills(y) = {}
       /\ freePtr[y.bank] \notin Fills(y)
       /\ y.at + MAXPACKET <= BankWords
  /\ held \subseteq {x \in live : hdr[x.bank][x.at] > 1}

\* The driver never writes over the header that mii_get_in_buffer reads next.
ReadHeaderKept == \A y \in Filled : readPtr[y.bank] \notin Fills(y)

\* When reception stops because there is no room, it starts again.
ReceptionRestarts == nextBuffer = None ~> nextBuffer # None

Packet == INSTANCE LitePackets WITH
  Ats <- Offsets, queue <- unread, signal <- notification # <<>>, look <- woken

\* The banks implement what mii_client.h promises: the headers that the reader
\* follows lead it to the packets of a bank in the order in which they
\* arrived, to each of them once, whatever the handler and mii_free_in_buffer
\* write meanwhile; it finds nothing only if there is nothing or it will be
\* notified; and every packet is delivered.
ImplementsPackets == Packet!PacketSpec

=============================================================================
