---------------------------- MODULE MiiLiteProofs ----------------------------
(***************************************************************************)
(* The receive buffers of the LITE MAC are safe for every size of the      *)
(* banks and every length of frames, if the application works on one       *)
(* packet at a time (MaxHeld = 1; MCMiiLiteHold.cfg shows what two lead    *)
(* to) and at most two frames end during a call of mii_free_in_buffer.     *)
(*                                                                         *)
(* The invariant is stated of a bank as a predicate on values: the set L   *)
(* of its packets, its header words h, its free, write and read pointers   *)
(* f, w and r, and four facts of the rest of the state.  The lemmas on     *)
(* what a step does to a bank are about values only.  The second part adds *)
(* to it where the headers lead the reader, from which it follows that the *)
(* banks implement LitePackets.                                            *)
(***************************************************************************)
EXTENDS MiiLite, FiniteSetTheorems, TLAPS

OnePacket == MaxHeld = 1 /\ MaxEnds <= 2

-----------------------------------------------------------------------------
(* A bank *)

Words(l) == IF l < 0 THEN -l ELSE l

\* The header that follows the one at a.
NextAt(h, a) == a + Words(h[a]) + 1

\* No packet starts inside another one.
Apart(L, h) == \A a, g \in L : ~(a < g /\ g < NextAt(h, a))

\* From the free pointer on there are packets up to the write header w - 1.
Linear(L, h, f, w) ==
  /\ f < w /\ f \in L \cup {w - 1} /\ Apart(L, h)
  /\ \A a \in L : f <= a /\ a < w - 1 /\ NextAt(h, a) \in L \cup {w - 1}

\* From the free pointer on there are packets up to the tail mark t, and
\* from the head of the bank up to the write header, which is before f.
Wrapped(L, h, f, w, t) ==
  /\ w <= f /\ f <= t /\ h[t] = 0 /\ f \in L \cup {t} /\ 0 \in L \cup {w - 1}
  /\ Apart(L, h)
  /\ \A a \in L :
       IF f <= a THEN a < t /\ NextAt(h, a) \in L \cup {t}
                 ELSE NextAt(h, a) < w /\ NextAt(h, a) \in L \cup {w - 1}

\* The lengths are those of frames, and every packet starts where one of any
\* size fits.  A packet is only marked while mii_free_in_buffer runs (freeing)
\* and before the free pointer has passed it.
Headers(L, h, f, w, freeing) ==
  /\ 1 <= w /\ h[w - 1] = 1
  /\ \A a \in L : /\ a < LastSafe /\ 1 < Words(h[a]) /\ Words(h[a]) + 3 <= MAXPACKET
                  /\ h[a] < 0 => a = f /\ freeing

\* If the driver has a buffer in the bank, or gets one (has), it fits between
\* the write header and the free pointer or the end of the bank.
Room(L, h, f, w, has) ==
  \/ /\ Linear(L, h, f, w)
     /\ has => w <= LastSafe
  \/ /\ \E t \in Offsets : Wrapped(L, h, f, w, t)
     /\ w <= LastSafe
     /\ has => w + MAXPACKET <= f

\* The free pointer is at the tail mark in two cases: in mii_free_in_buffer,
\* which will move on, and the next frame is not the one that goes beyond
\* the last safe place (soon: there may be one); or in a bank that is too
\* short, in which reception has stopped for good.
Park(L, h, f, w, r, freeing, has, soon) ==
  h[f] = 0 =>
    \/ /\ freeing /\ r = 0
       /\ has /\ soon => w + MAXPACKET - 2 <= LastSafe
    \/ /\ ~freeing /\ ~has
       /\ L = {} /\ w = 1 /\ f <= MAXPACKET /\ r \in {0, f}

\* The read pointer is at the free pointer, or behind the packet there if
\* the application has got it (taken).
Read(L, h, f, r, taken) ==
  /\ taken => /\ f \in L
              /\ r = IF h[NextAt(h, f)] = 0 THEN 0 ELSE NextAt(h, f)
  /\ ~taken /\ h[f] # 0 => r = f

Bank(L, h, f, w, r, freeing, taken, has, soon) ==
  /\ Headers(L, h, f, w, freeing)
  /\ Room(L, h, f, w, has)
  /\ Park(L, h, f, w, r, freeing, has, soon)
  /\ Read(L, h, f, r, taken)

-----------------------------------------------------------------------------
(* The invariant *)

LiveAt(b) == {a \in Offsets : Buffer(b, a) \in live}
Freeing(b) == upc = "free" /\ ubank = b
Taken(b) == Buffer(b, freePtr[b]) \in held \/ hdr[b][freePtr[b]] < 0
HasBuffer(b) == packetInLLD.bank = b \/ nextBuffer # None
Soon(b) == ended = 0 \/ (ended = 1 /\ packetInLLD.bank = b)

BankInv(b) ==
  Bank(LiveAt(b), hdr[b], freePtr[b], wrPtr[b], readPtr[b],
       Freeing(b), Taken(b), HasBuffer(b), Soon(b))

\* The application works on one packet, at the free pointer of its bank.
HeldInv ==
  held # {} => upc = "idle" /\ \E b \in Banks : held = {Buffer(b, freePtr[b])}

\* The driver's buffer and the next one are at the write pointers, one in
\* each bank.
BuffersInv ==
  /\ packetInLLD.at = wrPtr[packetInLLD.bank]
  /\ nextBuffer # None => /\ nextBuffer.bank = 1 - packetInLLD.bank
                          /\ nextBuffer.at = wrPtr[nextBuffer.bank]
  /\ nextBuffer = None => refillBankNumber = 1 - packetInLLD.bank

\* If reception has stopped because the write pointer is too far, the free
\* pointer is at the head, or has just left it.
StopInv ==
  LET r == refillBankNumber
  IN  nextBuffer = None /\ wrPtr[r] > LastSafe =>
        /\ freePtr[r] + 2 <= MAXPACKET
        /\ \/ freePtr[r] = 0
           \/ upc \in {"free", "restart"} /\ ubank = r /\ hdr[r][freePtr[r]] > 0

LiteInv ==
  /\ TypeOK
  /\ \A b \in Banks : BankInv(b)
  /\ HeldInv /\ BuffersInv /\ StopInv

-----------------------------------------------------------------------------
(* What follows from the shape of a bank *)

\* The constants.
LEMMA Sizes ==
  /\ BankWords \in Nat /\ MAXPACKET \in Nat /\ LastSafe \in Nat
  /\ 1 <= LastSafe /\ LastSafe + MAXPACKET = BankWords
  /\ \A n \in Lens : n \in Nat /\ 1 < n /\ n + 3 <= MAXPACKET
BY LiteAssumption DEF LastSafe

\* The next header is behind the one at a.
LEMMA NextType ==
  ASSUME NEW h \in [Offsets -> Int], NEW a \in Offsets
  PROVE  /\ NextAt(h, a) \in Int /\ a < NextAt(h, a) /\ Words(h[a]) \in Nat
         /\ NextAt(h, a) = a + Words(h[a]) + 1
         /\ h[a] >= 0 => NextAt(h, a) = a + h[a] + 1
         /\ h[a] < 0 => NextAt(h, a) = a + 1 - h[a]
BY Sizes DEF NextAt, Words, Offsets

\* A free pointer at a tail mark is that of a wrapped bank.
LEMMA ParkedWrapped ==
  ASSUME NEW L \in SUBSET Offsets, NEW h \in [Offsets -> Int],
         NEW f \in Offsets, NEW w \in Offsets, NEW freeing, NEW has,
         Headers(L, h, f, w, freeing), Room(L, h, f, w, has), h[f] = 0
  PROVE  \E t \in Offsets : Wrapped(L, h, f, w, t) /\ f = t
<1>1. f \notin L /\ f # w - 1
  BY DEF Headers, Words
<1>2. ~Linear(L, h, f, w)
  BY <1>1 DEF Linear
<1>3. QED  BY <1>1, <1>2 DEF Room, Wrapped

\* Words that the bank's shape rests on.
LEMMA ShapeKept ==
  ASSUME NEW L \in SUBSET Offsets, NEW h \in [Offsets -> Int],
         NEW k \in [Offsets -> Int], NEW f \in Offsets, NEW w \in Offsets,
         NEW freeing, NEW has,
         Headers(L, h, f, w, freeing), Room(L, h, f, w, has),
         \A a \in Offsets : a < w \/ (w <= f /\ f <= a) => k[a] = h[a]
  PROVE  /\ Headers(L, k, f, w, freeing) /\ Room(L, k, f, w, has)
         /\ k[f] = h[f] /\ \A a \in L : k[a] = h[a]
         /\ f \in L => /\ NextAt(k, f) = NextAt(h, f) /\ NextAt(h, f) \in Offsets
                       /\ k[NextAt(h, f)] = h[NextAt(h, f)]
<1>1. \A a \in L : NextAt(h, a) \in Int /\ a < NextAt(h, a)
  BY NextType
<1>2. ASSUME NEW a \in L  PROVE a < w \/ (w <= f /\ f <= a)
  <2>1. CASE Linear(L, h, f, w)
    BY <2>1, Sizes DEF Linear, Offsets
  <2>2. CASE \E t \in Offsets : Wrapped(L, h, f, w, t)
    BY <1>1, <2>2, Sizes DEF Wrapped, Offsets
  <2>3. QED  BY <2>1, <2>2 DEF Room
<1>3. \A a \in L : k[a] = h[a] /\ NextAt(k, a) = NextAt(h, a)
  BY <1>2 DEF NextAt
<1>4. w - 1 \in Offsets /\ k[w - 1] = h[w - 1]
  <2>1. w - 1 \in Offsets /\ w - 1 < w
    BY Sizes DEF Headers, Offsets
  <2>2. QED  BY <2>1
<1>5. k[f] = h[f]
  BY Sizes DEF Offsets
<1>6. Headers(L, k, f, w, freeing)
  BY <1>3, <1>4 DEF Headers
<1>7. Apart(L, h) => Apart(L, k)
  BY <1>3 DEF Apart
<1>8. Linear(L, h, f, w) => Linear(L, k, f, w)
  BY <1>3, <1>7 DEF Linear
<1>9. ASSUME NEW t \in Offsets, Wrapped(L, h, f, w, t)
      PROVE  Wrapped(L, k, f, w, t) /\ k[t] = h[t]
  <2>1. k[t] = h[t]
    BY <1>9 DEF Wrapped
  <2>2. QED  BY <1>3, <1>7, <1>9, <2>1 DEF Wrapped
<1>10. Room(L, k, f, w, has)
  BY <1>8, <1>9 DEF Room
<1>11. ASSUME f \in L
       PROVE  /\ NextAt(k, f) = NextAt(h, f) /\ NextAt(h, f) \in Offsets
              /\ k[NextAt(h, f)] = h[NextAt(h, f)]
  <2>1. CASE Linear(L, h, f, w)
    <3>1. NextAt(h, f) \in L \cup {w - 1}
      BY <1>11, <2>1 DEF Linear
    <3>2. QED  BY <1>3, <1>4, <1>11, <3>1
  <2>2. CASE \E t \in Offsets : Wrapped(L, h, f, w, t)
    <3>1. PICK t \in Offsets : Wrapped(L, h, f, w, t)
      BY <2>2
    <3>2. NextAt(h, f) \in L \cup {t}
      BY <1>11, <3>1, Sizes DEF Wrapped, Offsets
    <3>3. QED  BY <1>3, <1>9, <1>11, <3>1, <3>2
  <2>3. QED  BY <2>1, <2>2 DEF Room
<1>12. QED  BY <1>3, <1>5, <1>6, <1>10, <1>11

-----------------------------------------------------------------------------
(* What a step does to a bank *)

\* The driver stores outside the packets, and a bank may lose its buffer.
LEMMA BankKept ==
  ASSUME NEW L \in SUBSET Offsets, NEW h \in [Offsets -> Int],
         NEW k \in [Offsets -> Int], NEW f \in Offsets, NEW w \in Offsets,
         NEW r \in Offsets, NEW taken \in BOOLEAN,
         NEW freeing \in BOOLEAN, NEW freeing2 \in BOOLEAN,
         NEW has \in BOOLEAN, NEW has2 \in BOOLEAN,
         NEW soon \in BOOLEAN, NEW soon2 \in BOOLEAN,
         Bank(L, h, f, w, r, freeing, taken, has, soon),
         \A a \in Offsets : a < w \/ (w <= f /\ f <= a) => k[a] = h[a],
         has2 => has, soon2 => soon \/ ~freeing2, freeing2 = freeing \/ h[f] > 0
  PROVE  Bank(L, k, f, w, r, freeing2, taken, has2, soon2)
<1>1. /\ Headers(L, h, f, w, freeing) /\ Room(L, h, f, w, has)
      /\ Park(L, h, f, w, r, freeing, has, soon) /\ Read(L, h, f, r, taken)
  BY DEF Bank
<1>2. /\ Headers(L, k, f, w, freeing) /\ Room(L, k, f, w, has)
      /\ k[f] = h[f] /\ \A a \in L : k[a] = h[a]
      /\ f \in L => /\ NextAt(k, f) = NextAt(h, f) /\ NextAt(h, f) \in Offsets
                    /\ k[NextAt(h, f)] = h[NextAt(h, f)]
  <2>1. \A a \in Offsets : a < w \/ (w <= f /\ f <= a) => k[a] = h[a]
    OBVIOUS
  <2>2. QED  BY ONLY <1>1, <2>1, ShapeKept
<1>3. h[f] \in Int
  OBVIOUS
<1>4. Headers(L, k, f, w, freeing2)
  <2>1. ASSUME NEW a \in L, k[a] < 0  PROVE a = f /\ freeing2
    BY <1>2, <1>3, <2>1 DEF Headers
  <2>2. QED  BY <1>2, <2>1 DEF Headers
<1>5. Room(L, k, f, w, has2)
  BY <1>2 DEF Room
<1>6. Park(L, k, f, w, r, freeing2, has2, soon2)
  BY <1>1, <1>2, <1>3 DEF Park
<1>7. Read(L, k, f, r, taken)
  BY <1>1, <1>2 DEF Read
<1>8. QED  BY <1>4, <1>5, <1>6, <1>7 DEF Bank

\* A frame of n words is kept, and the write pointer runs on: h becomes k.
PlainStep(L, h, k, f, w, v, r, freeing, taken, has, soon, soon2, n) ==
  /\ v = w + n + 1
  /\ Bank(L, h, f, w, r, freeing, taken, TRUE, soon) /\ (freeing => soon)
  /\ k[w - 1] = n /\ k[w + n] = 1
  /\ \A a \in Offsets : a < w - 1 \/ (w <= f /\ f <= a) => k[a] = h[a]
  /\ w + n + 1 <= LastSafe \/ f = 0
  /\ has => w + n + 1 <= LastSafe /\ (w + n + 1 > f \/ f - (w + n + 1) >= MAXPACKET)
  /\ soon2 => ~freeing

\* The kept frame is one more packet of the bank (miiCommitBuffer).
LEMMA CommitPlain ==
  ASSUME NEW L \in SUBSET Offsets, NEW h \in [Offsets -> Int],
         NEW k \in [Offsets -> Int], NEW f \in Offsets, NEW w \in Offsets,
         NEW v \in Offsets, NEW r \in Offsets, NEW taken \in BOOLEAN,
         NEW freeing \in BOOLEAN, NEW has \in BOOLEAN, NEW soon \in BOOLEAN,
         NEW soon2 \in BOOLEAN, NEW n \in Lens,
         PlainStep(L, h, k, f, w, v, r, freeing, taken, has, soon, soon2, n)
  PROVE  Bank(L \cup {w - 1}, k, f, v, r, freeing, taken, has, soon2)
<1> SUFFICES ASSUME Bank(L, h, f, w, r, freeing, taken, TRUE, soon), freeing => soon,
                   k[w - 1] = n, k[w + n] = 1,
                   \A a \in Offsets : a < w - 1 \/ (w <= f /\ f <= a) => k[a] = h[a],
                   w + n + 1 <= LastSafe \/ f = 0,
                   has => /\ w + n + 1 <= LastSafe
                          /\ w + n + 1 > f \/ f - (w + n + 1) >= MAXPACKET,
                   soon2 => ~freeing
            PROVE  Bank(L \cup {w - 1}, k, f, w + n + 1, r, freeing, taken, has, soon2)
  BY DEF PlainStep
<1>0. /\ n \in Nat /\ 1 < n /\ n + 3 <= MAXPACKET /\ MAXPACKET \in Nat /\ BankWords \in Nat
      /\ LastSafe \in Nat /\ 1 <= LastSafe /\ LastSafe + MAXPACKET = BankWords
      /\ f \in Nat /\ w \in Nat /\ f <= BankWords /\ w <= BankWords
  BY Sizes DEF Offsets
<1>1. /\ Headers(L, h, f, w, freeing) /\ Room(L, h, f, w, TRUE)
      /\ Park(L, h, f, w, r, freeing, TRUE, soon) /\ Read(L, h, f, r, taken)
  BY DEF Bank
<1>2. w <= LastSafe /\ 1 <= w /\ h[w - 1] = 1
  BY <1>1 DEF Room, Headers
<1>3. w + n + 1 \in Offsets /\ w - 1 \in Offsets /\ w + n \in Offsets
  BY ONLY <1>0, <1>2 DEF Offsets
<1>4. \A a \in L : a \in Offsets /\ a \in Int /\ NextAt(h, a) \in Int /\ a < NextAt(h, a)
  BY NextType DEF Offsets
<1>5. ASSUME NEW a \in L  PROVE k[a] = h[a] /\ NextAt(k, a) = NextAt(h, a)
  <2>1. a < w - 1 \/ (w <= f /\ f <= a)
    <3>1. CASE Linear(L, h, f, w)
      BY <3>1 DEF Linear
    <3>2. CASE \E t \in Offsets : Wrapped(L, h, f, w, t)
      BY <1>0, <1>4, <3>2 DEF Wrapped
    <3>3. QED  BY <1>1, <3>1, <3>2 DEF Room
  <2>2. QED  BY <1>4, <2>1 DEF NextAt
<1>6. NextAt(k, w - 1) = w + n
  BY <1>0, <1>3 DEF NextAt, Words
<1>7. k[f] = h[f] \/ (f = w - 1 /\ h[f] = 1 /\ k[f] = n)
  <2>1. f \in L \/ f = w - 1 \/ w <= f
    BY <1>1 DEF Room, Linear, Wrapped
  <2>2. QED  BY <1>0, <1>2, <1>5, <2>1
<1>8. Headers(L \cup {w - 1}, k, f, w + n + 1, freeing)
  <2>1. k[(w + n + 1) - 1] = 1 /\ 1 <= w + n + 1
    BY <1>0
  <2>2. ASSUME NEW a \in L
        PROVE  /\ a < LastSafe /\ 1 < Words(k[a]) /\ Words(k[a]) + 3 <= MAXPACKET
               /\ k[a] < 0 => a = f /\ freeing
    BY <1>1, <1>5 DEF Headers
  <2>3. /\ w - 1 < LastSafe /\ 1 < Words(k[w - 1]) /\ Words(k[w - 1]) + 3 <= MAXPACKET
        /\ ~(k[w - 1] < 0)
    BY <1>0, <1>2 DEF Words
  <2>4. QED  BY <2>1, <2>2, <2>3 DEF Headers
<1>9. CASE Linear(L, h, f, w)
  <2>1. \A a \in L : f <= a /\ a < w - 1 /\ NextAt(h, a) \in L \cup {w - 1} /\ NextAt(h, a) <= w - 1
    BY <1>0, <1>4, <1>9 DEF Linear
  <2>2. Apart(L \cup {w - 1}, k)
    <3>1. SUFFICES ASSUME NEW a \in L \cup {w - 1}, NEW g \in L \cup {w - 1},
                          a < g, g < NextAt(k, a)
                   PROVE  FALSE
      BY DEF Apart
    <3>2. CASE a \in L /\ g \in L
      BY <1>5, <1>9, <3>1, <3>2 DEF Linear, Apart
    <3>3. CASE a \in L /\ g = w - 1
      BY <1>0, <1>4, <1>5, <2>1, <3>1, <3>3
    <3>4. CASE a = w - 1
      BY <1>0, <1>4, <2>1, <3>1, <3>4
    <3>5. QED  BY <3>2, <3>3, <3>4
  <2>3. ASSUME NEW a \in L \cup {w - 1}
        PROVE  /\ f <= a /\ a < (w + n + 1) - 1
               /\ NextAt(k, a) \in (L \cup {w - 1}) \cup {(w + n + 1) - 1}
    <3>1. CASE a \in L
      BY <1>0, <1>4, <1>5, <2>1, <3>1
    <3>2. CASE a = w - 1
      <4>1. f <= w - 1
        BY <1>0, <1>9 DEF Linear
      <4>2. (w + n + 1) - 1 = w + n
        BY <1>0
      <4>3. QED  BY <1>0, <1>6, <3>2, <4>1, <4>2
    <3>3. QED  BY <3>1, <3>2
  <2>4. f < w + n + 1 /\ f \in (L \cup {w - 1}) \cup {(w + n + 1) - 1}
    BY <1>0, <1>9 DEF Linear
  <2>5. Linear(L \cup {w - 1}, k, f, w + n + 1)
    BY <2>2, <2>3, <2>4 DEF Linear
  <2>6. Room(L \cup {w - 1}, k, f, w + n + 1, has)
    BY <2>5 DEF Room
  <2>7. k[f] # 0
    <3>1. f \in L \/ f = w - 1
      BY <1>9 DEF Linear
    <3>2. QED  BY <1>0, <1>1, <1>2, <1>5, <3>1 DEF Headers, Words
  <2>8. h[f] # 0
    BY <1>0, <1>7, <2>7
  <2>9. ASSUME taken  PROVE f \in L \cup {w - 1} /\ r = IF k[NextAt(k, f)] = 0 THEN 0 ELSE NextAt(k, f)
    <3>1. f \in L /\ r = IF h[NextAt(h, f)] = 0 THEN 0 ELSE NextAt(h, f)
      BY <1>1, <2>9 DEF Read
    <3>2. NextAt(h, f) \in L \cup {w - 1} /\ NextAt(k, f) = NextAt(h, f)
      BY <1>5, <2>1, <3>1
    <3>3. \A a \in L \cup {w - 1} : h[a] # 0 /\ k[a] # 0
      BY <1>0, <1>1, <1>2, <1>5 DEF Headers, Words
    <3>4. QED  BY <3>1, <3>2, <3>3
  <2>10. Read(L \cup {w - 1}, k, f, r, taken)
    BY <1>1, <2>8, <2>9 DEF Read
  <2>11. QED  BY <1>3, <1>8, <2>6, <2>7, <2>10 DEF Bank, Park
<1>10. CASE \E t \in Offsets : Wrapped(L, h, f, w, t)
  <2>1. PICK t \in Offsets : Wrapped(L, h, f, w, t)
    BY <1>10
  <2>2. t \in Nat /\ w <= f /\ f <= t /\ w + MAXPACKET <= f
    <3>1. w <= f /\ f <= t /\ t \in Nat
      BY <2>1 DEF Wrapped, Offsets
    <3>2. ~Linear(L, h, f, w)
      BY <1>0, <3>1 DEF Linear
    <3>3. QED  BY <1>1, <3>1, <3>2 DEF Room
  <2>3. \A a \in L : IF f <= a THEN a < t /\ NextAt(h, a) \in L \cup {t}
                               ELSE NextAt(h, a) < w /\ NextAt(h, a) \in L \cup {w - 1}
    BY <2>1 DEF Wrapped
  <2>4. k[t] = 0 /\ h[t] = 0
    BY <2>1, <2>2 DEF Wrapped
  <2>5. w + n + 1 <= f /\ w + n + 1 <= LastSafe
    BY <1>0, <1>2, <2>2
  <2>6. Apart(L \cup {w - 1}, k)
    <3>1. SUFFICES ASSUME NEW a \in L \cup {w - 1}, NEW g \in L \cup {w - 1},
                          a < g, g < NextAt(k, a)
                   PROVE  FALSE
      BY DEF Apart
    <3>2. CASE a \in L /\ g \in L
      BY <1>5, <2>1, <3>1, <3>2 DEF Wrapped, Apart
    <3>3. CASE a \in L /\ g = w - 1
      BY <1>0, <1>4, <1>5, <2>2, <2>3, <3>1, <3>3
    <3>4. CASE a = w - 1 /\ g \in L
      BY <1>0, <1>4, <1>6, <2>3, <2>5, <3>1, <3>4
    <3>5. QED  BY <1>0, <3>1, <3>2, <3>3, <3>4
  <2>7. ASSUME NEW a \in L \cup {w - 1}
        PROVE  IF f <= a THEN a < t /\ NextAt(k, a) \in (L \cup {w - 1}) \cup {t}
               ELSE /\ NextAt(k, a) < w + n + 1
                    /\ NextAt(k, a) \in (L \cup {w - 1}) \cup {(w + n + 1) - 1}
    <3>1. CASE a \in L
      BY <1>0, <1>4, <1>5, <2>3, <3>1
    <3>2. CASE a = w - 1
      BY <1>0, <1>6, <2>2, <3>2
    <3>3. QED  BY <3>1, <3>2
  <2>8. f \in (L \cup {w - 1}) \cup {t} /\ 0 \in (L \cup {w - 1}) \cup {(w + n + 1) - 1}
    BY <2>1 DEF Wrapped
  <2>9. Wrapped(L \cup {w - 1}, k, f, w + n + 1, t)
    BY <2>2, <2>4, <2>5, <2>6, <2>7, <2>8 DEF Wrapped
  <2>10. has => (w + n + 1) + MAXPACKET <= f
    BY <1>0, <2>5
  <2>11. Room(L \cup {w - 1}, k, f, w + n + 1, has)
    BY <2>5, <2>9, <2>10 DEF Room
  <2>12. k[f] = h[f]
    BY <1>0, <2>2
  <2>13. Park(L \cup {w - 1}, k, f, w + n + 1, r, freeing, has, soon2)
    BY <1>1, <2>12 DEF Park
  <2>14. ASSUME taken  PROVE f \in L \cup {w - 1} /\ r = IF k[NextAt(k, f)] = 0 THEN 0 ELSE NextAt(k, f)
    <3>1. f \in L /\ r = IF h[NextAt(h, f)] = 0 THEN 0 ELSE NextAt(h, f)
      BY <1>1, <2>14 DEF Read
    <3>2. NextAt(h, f) \in L \cup {t} /\ NextAt(k, f) = NextAt(h, f)
      BY <1>0, <1>5, <2>3, <3>1
    <3>3. \A a \in L \cup {t} : h[a] = k[a]
      BY <1>5, <2>4
    <3>4. QED  BY <3>1, <3>2, <3>3
  <2>15. Read(L \cup {w - 1}, k, f, r, taken)
    BY <1>1, <2>12, <2>14 DEF Read
  <2>16. QED  BY <1>3, <1>8, <2>11, <2>13, <2>15 DEF Bank
<1>11. QED  BY <1>1, <1>9, <1>10 DEF Room

\* A bank in which the write pointer may go to the head is one run of packets.
LEMMA WrapsLinear ==
  ASSUME NEW L \in SUBSET Offsets, NEW h \in [Offsets -> Int],
         NEW f \in Offsets, NEW w \in Offsets, NEW r \in Offsets,
         NEW freeing \in BOOLEAN, NEW soon \in BOOLEAN,
         Headers(L, h, f, w, freeing), Room(L, h, f, w, TRUE),
         Park(L, h, f, w, r, freeing, TRUE, soon), freeing => soon
  PROVE  Linear(L, h, f, w) \/ w + MAXPACKET - 2 <= LastSafe
<1>1. MAXPACKET \in Nat /\ LastSafe \in Nat /\ f \in Nat /\ w \in Nat
  BY Sizes DEF Offsets
<1>2. /\ Headers(L, h, f, w, freeing) /\ Room(L, h, f, w, TRUE)
      /\ Park(L, h, f, w, r, freeing, TRUE, soon)
  OBVIOUS
<1>3. SUFFICES ASSUME ~Linear(L, h, f, w)  PROVE w + MAXPACKET - 2 <= LastSafe
  OBVIOUS
<1>4. PICK t \in Offsets : Wrapped(L, h, f, w, t)
  BY <1>2, <1>3 DEF Room
<1>5. w + MAXPACKET <= f
  BY <1>2, <1>3 DEF Room
<1>6. CASE f \in L
  BY <1>1, <1>2, <1>5, <1>6 DEF Headers
<1>7. CASE f \notin L
  <2>1. h[f] = 0
    BY <1>4, <1>7 DEF Wrapped
  <2>2. QED  BY <1>2, <2>1 DEF Park
<1>8. QED  BY <1>6, <1>7

\* A frame of n words is kept, and the write pointer goes to the head.
WrapStep(L, h, k, f, w, r, freeing, taken, has, soon, n) ==
  /\ Bank(L, h, f, w, r, freeing, taken, TRUE, soon) /\ (freeing => soon)
  /\ w + n + 1 > LastSafe /\ f # 0
  /\ k[w - 1] = n /\ k[w + n] = 0 /\ k[0] = 1
  /\ \A a \in Offsets : 0 < a /\ a < w - 1 => k[a] = h[a]
  /\ has => f - 1 >= MAXPACKET

\* The kept frame is the last packet before the tail mark, and the bank is
\* wrapped from then on (miiCommitBuffer).
LEMMA CommitWrap ==
  ASSUME NEW L \in SUBSET Offsets, NEW h \in [Offsets -> Int],
         NEW k \in [Offsets -> Int], NEW f \in Offsets, NEW w \in Offsets,
         NEW r \in Offsets, NEW taken \in BOOLEAN, NEW freeing \in BOOLEAN,
         NEW has \in BOOLEAN, NEW soon \in BOOLEAN, NEW soon2 \in BOOLEAN, NEW n \in Lens,
         WrapStep(L, h, k, f, w, r, freeing, taken, has, soon, n)
  PROVE  /\ Bank(L \cup {w - 1}, k, f, 1, r, freeing, taken, has, soon2)
         /\ w - 1 \in Offsets
<1> SUFFICES ASSUME Bank(L, h, f, w, r, freeing, taken, TRUE, soon), freeing => soon,
                   w + n + 1 > LastSafe, f # 0,
                   k[w - 1] = n, k[w + n] = 0, k[0] = 1,
                   \A a \in Offsets : 0 < a /\ a < w - 1 => k[a] = h[a],
                   has => f - 1 >= MAXPACKET
            PROVE  /\ Bank(L \cup {w - 1}, k, f, 1, r, freeing, taken, has, soon2)
                   /\ w - 1 \in Offsets
  BY DEF WrapStep
<1>0. /\ n \in Nat /\ 1 < n /\ n + 3 <= MAXPACKET /\ MAXPACKET \in Nat /\ BankWords \in Nat
      /\ LastSafe \in Nat /\ 1 <= LastSafe /\ LastSafe + MAXPACKET = BankWords
      /\ f \in Nat /\ w \in Nat /\ f <= BankWords /\ w <= BankWords
  BY Sizes DEF Offsets
<1>1. /\ Headers(L, h, f, w, freeing) /\ Room(L, h, f, w, TRUE)
      /\ Park(L, h, f, w, r, freeing, TRUE, soon) /\ Read(L, h, f, r, taken)
  BY DEF Bank
<1>2. w <= LastSafe /\ 1 <= w /\ h[w - 1] = 1
  BY <1>1 DEF Room, Headers
<1>3. w - 1 \in Offsets /\ w + n \in Offsets
  BY <1>0, <1>2 DEF Offsets
<1>4. \A a \in L : a \in Offsets /\ a \in Int /\ NextAt(h, a) \in Int /\ a < NextAt(h, a)
  BY NextType DEF Offsets
<1>5. Linear(L, h, f, w)
  <2>1. Linear(L, h, f, w) \/ w + MAXPACKET - 2 <= LastSafe
    BY <1>1, WrapsLinear
  <2>2. QED  BY <1>0, <2>1
<1>6. \A a \in L : f <= a /\ a < w - 1 /\ NextAt(h, a) \in L \cup {w - 1} /\ NextAt(h, a) <= w - 1
  BY <1>0, <1>4, <1>5 DEF Linear
<1>7. ASSUME NEW a \in L  PROVE k[a] = h[a] /\ NextAt(k, a) = NextAt(h, a)
  BY <1>0, <1>4, <1>6 DEF NextAt
<1>8. NextAt(k, w - 1) = w + n
  BY <1>0, <1>3 DEF NextAt, Words
<1>9. Headers(L \cup {w - 1}, k, f, 1, freeing)
  <2>1. k[1 - 1] = 1 /\ 1 <= 1
    BY <1>0
  <2>2. ASSUME NEW a \in L
        PROVE  /\ a < LastSafe /\ 1 < Words(k[a]) /\ Words(k[a]) + 3 <= MAXPACKET
               /\ k[a] < 0 => a = f /\ freeing
    BY <1>1, <1>7 DEF Headers
  <2>3. /\ w - 1 < LastSafe /\ 1 < Words(k[w - 1]) /\ Words(k[w - 1]) + 3 <= MAXPACKET
        /\ ~(k[w - 1] < 0)
    BY <1>0, <1>2 DEF Words
  <2>4. QED  BY <2>1, <2>2, <2>3 DEF Headers
<1>10. Apart(L \cup {w - 1}, k)
  <2>1. SUFFICES ASSUME NEW a \in L \cup {w - 1}, NEW g \in L \cup {w - 1},
                        a < g, g < NextAt(k, a)
                 PROVE  FALSE
    BY DEF Apart
  <2>2. CASE a \in L /\ g \in L
    BY <1>5, <1>7, <2>1, <2>2 DEF Linear, Apart
  <2>3. CASE a \in L /\ g = w - 1
    BY <1>0, <1>4, <1>6, <1>7, <2>1, <2>3
  <2>4. CASE a = w - 1
    BY <1>0, <1>4, <1>6, <2>1, <2>4
  <2>5. QED  BY <2>2, <2>3, <2>4
<1>11. f \in L \cup {w - 1} /\ f <= w - 1
  BY <1>0, <1>5 DEF Linear
<1>12. Wrapped(L \cup {w - 1}, k, f, 1, w + n)
  <2>1. ASSUME NEW a \in L \cup {w - 1}
        PROVE  f <= a /\ a < w + n /\ NextAt(k, a) \in (L \cup {w - 1}) \cup {w + n}
    <3>1. CASE a \in L
      BY <1>0, <1>4, <1>6, <1>7, <3>1
    <3>2. CASE a = w - 1
      BY <1>0, <1>8, <1>11, <3>2
    <3>3. QED  BY <3>1, <3>2
  <2>2. 1 <= f /\ f <= w + n /\ 0 = 1 - 1
    BY <1>0, <1>11
  <2>3. QED  BY <1>10, <1>11, <2>1, <2>2 DEF Wrapped
<1>13. Room(L \cup {w - 1}, k, f, 1, has)
  <2>1. has => 1 + MAXPACKET <= f
    BY <1>0
  <2>2. QED  BY <1>0, <1>3, <1>12, <2>1 DEF Room
<1>14. \A a \in L \cup {w - 1} : h[a] # 0 /\ k[a] # 0
  BY <1>0, <1>1, <1>2, <1>7 DEF Headers, Words
<1>15. ASSUME taken
       PROVE  f \in L \cup {w - 1} /\ r = IF k[NextAt(k, f)] = 0 THEN 0 ELSE NextAt(k, f)
  <2>1. f \in L /\ r = IF h[NextAt(h, f)] = 0 THEN 0 ELSE NextAt(h, f)
    BY <1>1, <1>15 DEF Read
  <2>2. NextAt(h, f) \in L \cup {w - 1} /\ NextAt(k, f) = NextAt(h, f)
    BY <1>6, <1>7, <2>1
  <2>3. QED  BY <1>14, <2>1, <2>2
<1>16. Read(L \cup {w - 1}, k, f, r, taken)
  BY <1>1, <1>11, <1>14, <1>15 DEF Read
<1>17. QED  BY <1>3, <1>9, <1>11, <1>13, <1>14, <1>16 DEF Bank, Park

\* Where mii_get_in_buffer looks, and what follows the packet at f.
Look(h, r) == IF h[r] = 0 THEN 0 ELSE r
Follow(h, f) == IF h[NextAt(h, f)] = 0 THEN 0 ELSE NextAt(h, f)

\* A bank of which the application has no packet, while mii_free_in_buffer
\* does not run.
Untaken(L, h, f, w, r, has, soon) == Bank(L, h, f, w, r, FALSE, FALSE, has, soon)

\* The bank when it has looked: there is none, or it has the one at the free
\* pointer.
NoneFound(L, h, f, w, r, has, soon) ==
  Bank(L, h, f, w, Look(h, r), FALSE, FALSE, has, soon)
OneFound(L, h, f, w, has, soon) ==
  Bank(L, h, f, w, Follow(h, f), FALSE, TRUE, has, soon)

\* What mii_get_in_buffer finds: the packet at the free pointer, or none.
LEMMA TakeFound ==
  ASSUME NEW L \in SUBSET Offsets, NEW h \in [Offsets -> Int],
         NEW f \in Offsets, NEW w \in Offsets, NEW r \in Offsets,
         NEW has \in BOOLEAN, NEW soon \in BOOLEAN,
         Untaken(L, h, f, w, r, has, soon)
  PROVE  /\ Look(h, r) \in Offsets
         /\ h[Look(h, r)] = 1 => NoneFound(L, h, f, w, r, has, soon)
         /\ h[Look(h, r)] # 1 =>
              /\ Look(h, r) = f /\ f \in L /\ h[f] > 1 /\ NextAt(h, f) \in Offsets
              /\ f + h[f] + 1 = NextAt(h, f)
              /\ OneFound(L, h, f, w, has, soon)
<1>0. PICK a : a = Look(h, r) /\ a = IF h[r] = 0 THEN 0 ELSE r
  BY DEF Look
<1>1. /\ Headers(L, h, f, w, FALSE) /\ Room(L, h, f, w, has)
      /\ Park(L, h, f, w, r, FALSE, has, soon) /\ Read(L, h, f, r, FALSE)
  BY DEF Bank, Untaken
<1>2. a \in Offsets /\ 0 \in Offsets
  BY <1>0, Sizes DEF Offsets
<1>3. CASE h[f] = 0
  <2>1. ~has /\ L = {} /\ w = 1 /\ f <= MAXPACKET /\ r \in {0, f}
    BY <1>1, <1>3 DEF Park
  <2>2. h[0] = 1
    BY <1>1, <2>1 DEF Headers
  <2>3. a = 0 /\ h[a] = 1
    BY <1>0, <1>3, <2>1, <2>2
  <2>4. Park(L, h, f, w, a, FALSE, has, soon)
    BY <2>1, <2>3 DEF Park
  <2>5. Read(L, h, f, a, FALSE)
    BY <1>3 DEF Read
  <2>6. Bank(L, h, f, w, a, FALSE, FALSE, has, soon)
    BY <1>1, <2>4, <2>5 DEF Bank
  <2>7. QED  BY <1>0, <1>2, <2>3, <2>6 DEF NoneFound
<1>4. CASE h[f] # 0
  <2>1. r = f /\ a = f
    BY <1>0, <1>1, <1>4 DEF Read
  <2>2. ASSUME h[a] # 1
        PROVE  /\ f \in L /\ h[f] > 1 /\ NextAt(h, f) \in Offsets
               /\ f + h[f] + 1 = NextAt(h, f)
    <3>1. f \in L
      BY <1>1, <1>4, <2>1, <2>2 DEF Room, Linear, Wrapped, Headers
    <3>2. h[f] > 1
      BY <1>1, <3>1 DEF Headers, Words
    <3>3. NextAt(h, f) \in Offsets
      <4>1. \A g \in Offsets : g < w \/ (w <= f /\ f <= g) => h[g] = h[g]
        OBVIOUS
      <4>2. QED  BY ONLY <1>1, <3>1, <4>1, ShapeKept
    <3>4. QED  BY <2>1, <3>1, <3>2, <3>3, NextType
  <2>3. ASSUME h[a] # 1
        PROVE  Bank(L, h, f, w, Follow(h, f), FALSE, TRUE, has, soon)
    BY <1>1, <1>4, <2>2, <2>3 DEF Bank, Park, Read, Follow
  <2>4. ASSUME h[a] = 1
        PROVE  Bank(L, h, f, w, a, FALSE, FALSE, has, soon)
    BY <1>1, <2>1 DEF Bank
  <2>5. QED  BY <1>0, <1>2, <2>1, <2>2, <2>3, <2>4 DEF NoneFound, OneFound
<1>5. QED  BY <1>3, <1>4

\* mii_free_in_buffer marks the packet at the free pointer: h becomes k.
MarkStep(L, h, k, f, w, r, has, soon) ==
  /\ Bank(L, h, f, w, r, FALSE, TRUE, has, soon)
  /\ k[f] = -h[f] /\ \A a \in Offsets : a # f => k[a] = h[a]

\* The bank when the packet is marked.
Marked(L, k, f, w, r, has, soon) ==
  Bank(L, k, f, w, r, TRUE, TRUE, has, soon) /\ k[f] < 0

\* Marking the packet that the application has keeps the bank's shape.
LEMMA MarkKept ==
  ASSUME NEW L \in SUBSET Offsets, NEW h \in [Offsets -> Int],
         NEW k \in [Offsets -> Int], NEW f \in Offsets, NEW w \in Offsets,
         NEW r \in Offsets, NEW has \in BOOLEAN, NEW soon \in BOOLEAN,
         NEW soon2 \in BOOLEAN,
         MarkStep(L, h, k, f, w, r, has, soon)
  PROVE  Marked(L, k, f, w, r, has, soon2)
<1> SUFFICES ASSUME Bank(L, h, f, w, r, FALSE, TRUE, has, soon),
                    k[f] = -h[f], \A a \in Offsets : a # f => k[a] = h[a]
             PROVE  Bank(L, k, f, w, r, TRUE, TRUE, has, soon2) /\ k[f] < 0
  BY DEF MarkStep, Marked
<1>1. /\ Headers(L, h, f, w, FALSE) /\ Room(L, h, f, w, has) /\ Read(L, h, f, r, TRUE)
  BY DEF Bank
<1>2. f \in L /\ h[f] > 1 /\ k[f] < 0 /\ Words(k[f]) = Words(h[f])
  BY <1>1 DEF Read, Headers, Words
<1>3. \A a \in L : Words(k[a]) = Words(h[a]) /\ NextAt(k, a) = NextAt(h, a)
  BY <1>2 DEF NextAt
<1>4. \A a \in Offsets : h[a] = 0 \/ h[a] = 1 => k[a] = h[a]
  BY <1>2
<1>5. Headers(L, k, f, w, TRUE)
  <2>1. w - 1 \in Offsets
    BY <1>1, Sizes DEF Headers, Offsets
  <2>2. k[w - 1] = 1
    BY <1>1, <1>4, <2>1 DEF Headers
  <2>3. ASSUME NEW a \in L, k[a] < 0  PROVE a = f
    BY <1>1, <2>3 DEF Headers
  <2>4. QED  BY <1>1, <1>3, <2>2, <2>3 DEF Headers
<1>6. Apart(L, h) => Apart(L, k)
  BY <1>3 DEF Apart
<1>7. Linear(L, h, f, w) => Linear(L, k, f, w)
  BY <1>3, <1>6 DEF Linear
<1>8. ASSUME NEW t \in Offsets, Wrapped(L, h, f, w, t)  PROVE Wrapped(L, k, f, w, t)
  BY <1>3, <1>4, <1>6, <1>8 DEF Wrapped
<1>9. Room(L, k, f, w, has)
  BY <1>1, <1>7, <1>8 DEF Room
<1>10. k[NextAt(k, f)] = h[NextAt(h, f)]
  <2>1. NextAt(h, f) \in Offsets
    <3>1. \A g \in Offsets : g < w \/ (w <= f /\ f <= g) => h[g] = h[g]
      OBVIOUS
    <3>2. QED  BY ONLY <1>1, <1>2, <3>1, ShapeKept
  <2>2. f < NextAt(h, f)
    BY NextType
  <2>3. QED  BY <1>2, <1>3, <2>1, <2>2 DEF Offsets
<1>11. Read(L, k, f, r, TRUE)
  BY <1>1, <1>2, <1>3, <1>10 DEF Read
<1>12. Park(L, k, f, w, r, TRUE, has, soon2)
  BY <1>2 DEF Park
<1>13. QED  BY <1>2, <1>5, <1>9, <1>11, <1>12 DEF Bank

\* The free pointer is at a packet that is freed; and it has passed it.
PacketFreed(L, h, f, w, r, taken, has, soon) ==
  Bank(L, h, f, w, r, TRUE, taken, has, soon) /\ (taken <=> h[f] < 0) /\ h[f] < 0
Passed(L, h, f, w, r, has, soon) ==
  Bank(L \ {f}, h, NextAt(h, f), w, r, TRUE, FALSE, has, soon)

\* mii_free_in_buffer passes a marked packet: the bank without it keeps its
\* shape, with the free pointer on the header behind it.
LEMMA FreePacket ==
  ASSUME NEW L \in SUBSET Offsets, NEW h \in [Offsets -> Int],
         NEW f \in Offsets, NEW w \in Offsets, NEW r \in Offsets,
         NEW taken \in BOOLEAN, NEW has \in BOOLEAN, NEW soon \in BOOLEAN,
         PacketFreed(L, h, f, w, r, taken, has, soon)
  PROVE  /\ f \in L /\ NextAt(h, f) \in Offsets /\ NextAt(h, f) = f + 1 - h[f]
         /\ ~(h[NextAt(h, f)] < 0)
         /\ Passed(L, h, f, w, r, has, soon)
<1> SUFFICES ASSUME Bank(L, h, f, w, r, TRUE, taken, has, soon), taken <=> h[f] < 0, h[f] < 0
             PROVE  /\ f \in L /\ NextAt(h, f) \in Offsets /\ NextAt(h, f) = f + 1 - h[f]
                    /\ ~(h[NextAt(h, f)] < 0)
                    /\ Bank(L \ {f}, h, NextAt(h, f), w, r, TRUE, FALSE, has, soon)
  BY DEF PacketFreed, Passed
<1>0. /\ MAXPACKET \in Nat /\ LastSafe \in Nat /\ f \in Nat /\ w \in Nat
  BY Sizes DEF Offsets
<1>1. /\ Headers(L, h, f, w, TRUE) /\ Room(L, h, f, w, has) /\ Read(L, h, f, r, TRUE)
  BY DEF Bank
<1>2. f \in L
  BY <1>1 DEF Read
<1>3. /\ \A g \in Offsets : g < w \/ (w <= f /\ f <= g) => h[g] = h[g]
  OBVIOUS
<1>4. NextAt(h, f) \in Offsets
  BY ONLY <1>1, <1>2, <1>3, ShapeKept
<1>5. PICK e \in Offsets : e = NextAt(h, f)
  BY <1>4
<1>6. e = f + 1 - h[f] /\ e \in Nat /\ f < e
  <2>1. NextAt(h, f) = f + 1 - h[f] /\ f < NextAt(h, f)
    BY NextType
  <2>2. QED  BY <1>5, <2>1 DEF Offsets
<1>7. \A a \in L : a \in Int /\ NextAt(h, a) \in Int /\ a < NextAt(h, a)
  BY NextType DEF Offsets
<1>8. ASSUME Apart(L, h)  PROVE Apart(L \ {f}, h) /\ \A a \in L : ~(f < a /\ a < e)
  BY <1>2, <1>5, <1>8 DEF Apart
<1>9. ~(h[e] < 0)
  <2>1. SUFFICES ASSUME h[e] < 0  PROVE FALSE
    OBVIOUS
  <2>2. e \notin L
    BY <1>1, <1>6, <2>1 DEF Headers
  <2>3. e # w - 1
    BY <1>1, <2>1 DEF Headers
  <2>4. CASE Linear(L, h, f, w)
    BY <1>2, <1>5, <2>2, <2>3, <2>4 DEF Linear
  <2>5. CASE \E t \in Offsets : Wrapped(L, h, f, w, t)
    BY <1>0, <1>2, <1>5, <2>1, <2>2, <2>5 DEF Wrapped
  <2>6. QED  BY <1>1, <2>4, <2>5 DEF Room
<1>10. Headers(L \ {f}, h, e, w, TRUE)
  BY <1>1 DEF Headers
<1>11. Read(L \ {f}, h, e, r, FALSE)
  BY <1>1, <1>5 DEF Read
<1>12. CASE Linear(L, h, f, w)
  <2>1. ASSUME NEW a \in L \ {f}
        PROVE  e <= a /\ a < w - 1 /\ NextAt(h, a) \in (L \ {f}) \cup {w - 1}
    <3>1. f <= a /\ a < w - 1 /\ NextAt(h, a) \in L \cup {w - 1}
      BY <1>12 DEF Linear
    <3>2. ~(f < a /\ a < e)
      BY <1>8, <1>12 DEF Linear
    <3>3. QED  BY <1>0, <1>6, <1>7, <3>1, <3>2
  <2>2. e \in (L \ {f}) \cup {w - 1} /\ e < w
    <3>1. e \in L \cup {w - 1} /\ f < w
      BY <1>2, <1>5, <1>12 DEF Linear
    <3>2. \A a \in L : a < w - 1
      BY <1>12 DEF Linear
    <3>3. QED  BY <1>0, <1>6, <3>1, <3>2
  <2>3. Linear(L \ {f}, h, e, w)
    BY <1>8, <1>12, <2>1, <2>2 DEF Linear
  <2>4. Room(L \ {f}, h, e, w, has)
    <3>1. has => w <= LastSafe
      BY <1>1 DEF Room
    <3>2. QED  BY <2>3, <3>1 DEF Room
  <2>5. h[e] # 0
    BY <1>1, <2>2 DEF Headers, Words
  <2>6. QED  BY <1>2, <1>5, <1>6, <1>9, <1>10, <1>11, <2>4, <2>5 DEF Bank, Park
<1>13. CASE \E t \in Offsets : Wrapped(L, h, f, w, t)
  <2>1. PICK t \in Offsets : Wrapped(L, h, f, w, t)
    BY <1>13
  <2>2. t \in Nat /\ w <= f /\ h[t] = 0 /\ Apart(L, h) /\ 0 \in L \cup {w - 1} /\ 1 <= w
    BY <1>1, <2>1 DEF Wrapped, Offsets, Headers
  <2>3. \A a \in L : IF f <= a THEN a < t /\ NextAt(h, a) \in L \cup {t}
                               ELSE NextAt(h, a) < w /\ NextAt(h, a) \in L \cup {w - 1}
    BY <2>1 DEF Wrapped
  <2>4. e \in (L \ {f}) \cup {t} /\ e <= t
    <3>1. f <= f /\ f <= e /\ e # f
      BY <1>0, <1>6
    <3>2. e \in L \cup {t}
      BY <1>2, <1>5, <2>3, <3>1
    <3>3. e \in L => e < t
      BY <2>3, <3>1
    <3>4. QED  BY <1>6, <2>2, <3>1, <3>2, <3>3
  <2>5. ASSUME NEW a \in L \ {f}
        PROVE  IF e <= a THEN a < t /\ NextAt(h, a) \in (L \ {f}) \cup {t}
               ELSE NextAt(h, a) < w /\ NextAt(h, a) \in (L \ {f}) \cup {w - 1}
    <3>1. ~(f < a /\ a < e)
      BY <1>8, <2>2
    <3>2. CASE f < a
      BY <1>0, <1>6, <1>7, <2>3, <3>1, <3>2
    <3>3. CASE ~(f < a)
      <4>1. a < f /\ a < e
        BY <1>0, <1>6, <1>7, <3>3
      <4>2. NextAt(h, a) < w /\ NextAt(h, a) \in L \cup {w - 1} /\ NextAt(h, a) # f
        BY <1>0, <1>7, <2>2, <2>3, <4>1
      <4>3. QED  BY <1>6, <1>7, <4>1, <4>2
    <3>4. QED  BY <3>2, <3>3
  <2>6. w <= e /\ 0 \in (L \ {f}) \cup {w - 1}
    BY <1>0, <1>6, <2>2
  <2>7. Wrapped(L \ {f}, h, e, w, t)
    BY <1>8, <2>2, <2>4, <2>5, <2>6 DEF Wrapped
  <2>8. ~Linear(L, h, f, w)
    BY <1>0, <2>2 DEF Linear
  <2>9. w <= LastSafe /\ (has => w + MAXPACKET <= f)
    BY <1>1, <2>8 DEF Room
  <2>10. Room(L \ {f}, h, e, w, has)
    <3>1. has => w + MAXPACKET <= e
      BY ONLY <1>0, <1>6, <2>9
    <3>2. QED  BY <2>7, <2>9, <3>1 DEF Room
  <2>11. Park(L \ {f}, h, e, w, r, TRUE, has, soon)
    <3>1. f < LastSafe
      BY <1>1, <1>2 DEF Headers
    <3>2. h[e] = 0 => r = 0
      BY <1>1, <1>5 DEF Read
    <3>3. has => w + MAXPACKET - 2 <= LastSafe
      BY <1>0, <2>9, <3>1
    <3>4. QED  BY <3>2, <3>3 DEF Park
  <2>12. QED  BY <1>2, <1>5, <1>6, <1>9, <1>10, <1>11, <2>10, <2>11 DEF Bank
<1>14. QED  BY <1>1, <1>12, <1>13 DEF Room

\* The free pointer is at the tail mark; and it is at the head.
TailFreed(L, h, f, w, r, taken, has, soon) ==
  Bank(L, h, f, w, r, TRUE, taken, has, soon) /\ h[f] = 0
AtHead(L, h, w, r, has, soon) == Bank(L, h, 0, w, r, TRUE, FALSE, has, soon)

\* mii_free_in_buffer goes from the tail mark to the head: the bank is one run
\* of packets again.
LEMMA FreeTail ==
  ASSUME NEW L \in SUBSET Offsets, NEW h \in [Offsets -> Int],
         NEW f \in Offsets, NEW w \in Offsets, NEW r \in Offsets,
         NEW has \in BOOLEAN, NEW soon \in BOOLEAN, NEW taken \in BOOLEAN,
         TailFreed(L, h, f, w, r, taken, has, soon)
  PROVE  f \notin L /\ 0 \in Offsets /\ h[0] > 0 /\ AtHead(L, h, w, r, has, soon)
<1> SUFFICES ASSUME Bank(L, h, f, w, r, TRUE, taken, has, soon), h[f] = 0
             PROVE  /\ f \notin L /\ 0 \in Offsets /\ h[0] > 0
                    /\ Bank(L, h, 0, w, r, TRUE, FALSE, has, soon)
  BY DEF TailFreed, AtHead
<1>0. /\ MAXPACKET \in Nat /\ LastSafe \in Nat /\ f \in Nat /\ w \in Nat /\ 0 \in Offsets
  BY Sizes DEF Offsets
<1>1. /\ Headers(L, h, f, w, TRUE) /\ Room(L, h, f, w, has) /\ Park(L, h, f, w, r, TRUE, has, soon)
  BY DEF Bank
<1>2. Wrapped(L, h, f, w, f)
  <2>1. \E t \in Offsets : Wrapped(L, h, f, w, t) /\ f = t
    BY <1>1, ParkedWrapped
  <2>2. QED  BY <2>1
<1>3. \A a \in L : a \in Int /\ NextAt(h, a) \in Int /\ a < NextAt(h, a) /\ 0 <= a
  BY NextType DEF Offsets
<1>4. ~Linear(L, h, f, w) /\ 1 <= w /\ w <= f /\ 0 \in L \cup {w - 1}
  BY <1>0, <1>1, <1>2 DEF Linear, Wrapped, Headers
<1>5. f \notin L
  BY <1>1 DEF Headers, Words
<1>6. \A a \in L : a < f /\ NextAt(h, a) < w /\ NextAt(h, a) \in L \cup {w - 1}
  BY <1>0, <1>2, <1>3, <1>4 DEF Wrapped
<1>7. \A a \in L : ~(h[a] < 0)
  BY <1>1, <1>5 DEF Headers
<1>8. h[0] > 0
  BY <1>0, <1>1, <1>4, <1>7 DEF Headers, Words
<1>9. Linear(L, h, 0, w)
  BY <1>0, <1>2, <1>3, <1>4, <1>6 DEF Linear, Wrapped
<1>10. Room(L, h, 0, w, has)
  BY <1>1, <1>4, <1>9 DEF Room
<1>11. Headers(L, h, 0, w, TRUE)
  BY <1>1, <1>7 DEF Headers
<1>12. r = 0
  BY <1>1 DEF Park
<1>13. QED  BY <1>0, <1>5, <1>8, <1>10, <1>11, <1>12 DEF Bank, Park, Read

\* Reception starts again at the write pointer, or not.
RestartStep(L, h, f, w, r, has, soon) ==
  /\ Bank(L, h, f, w, r, FALSE, FALSE, FALSE, soon)
  /\ has => w <= LastSafe /\ (w > f \/ f - w >= MAXPACKET)
Started(L, h, f, w, r, has, soon) == Bank(L, h, f, w, r, FALSE, FALSE, has, soon)

\* mii_restart_buffer gives the driver the space at the write pointer, if there
\* is enough of it.
LEMMA RestartPlain ==
  ASSUME NEW L \in SUBSET Offsets, NEW h \in [Offsets -> Int],
         NEW f \in Offsets, NEW w \in Offsets, NEW r \in Offsets,
         NEW has \in BOOLEAN, NEW soon \in BOOLEAN,
         RestartStep(L, h, f, w, r, has, soon)
  PROVE  Started(L, h, f, w, r, has, soon)
<1> SUFFICES ASSUME Bank(L, h, f, w, r, FALSE, FALSE, FALSE, soon),
                    has => w <= LastSafe /\ (w > f \/ f - w >= MAXPACKET)
             PROVE  Bank(L, h, f, w, r, FALSE, FALSE, has, soon)
  BY DEF RestartStep, Started
<1>0. /\ MAXPACKET \in Nat /\ LastSafe \in Nat /\ f \in Nat /\ w \in Nat /\ 0 \in Offsets
  BY Sizes DEF Offsets
<1>1. /\ Headers(L, h, f, w, FALSE) /\ Room(L, h, f, w, FALSE)
      /\ Park(L, h, f, w, r, FALSE, FALSE, soon)
      /\ Read(L, h, f, r, FALSE)
  BY DEF Bank
<1>2. Room(L, h, f, w, has)
  BY <1>0, <1>1 DEF Room, Wrapped
<1>3. ASSUME h[f] = 0  PROVE ~has /\ L = {} /\ w = 1 /\ f <= MAXPACKET /\ r \in {0, f}
  <2>1. L = {} /\ w = 1 /\ f <= MAXPACKET /\ r \in {0, f}
    BY <1>1, <1>3 DEF Park
  <2>2. h[0] = 1
    BY <1>1, <2>1 DEF Headers
  <2>3. f >= 1
    BY <1>0, <1>3, <2>2
  <2>4. QED  BY <1>0, <2>1, <2>3
<1>4. Park(L, h, f, w, r, FALSE, has, soon)
  BY <1>3 DEF Park
<1>5. QED  BY <1>1, <1>2, <1>4 DEF Bank

\* Reception starts again at the head of the bank, or not.
RestartWrapStep(L, h, k, f, w, r, has, soon) ==
  /\ Bank(L, h, f, w, r, FALSE, FALSE, FALSE, soon)
  /\ w > LastSafe /\ f # 0 /\ f + 2 <= MAXPACKET
  /\ k[w - 1] = 0 /\ k[0] = 1 /\ \A a \in Offsets : 0 < a /\ a # w - 1 => k[a] = h[a]
  /\ has => f - 1 >= MAXPACKET

\* mii_restart_buffer stores the tail mark and goes to the head, and gives the
\* driver the space there, if there is enough of it.
LEMMA RestartWrap ==
  ASSUME NEW L \in SUBSET Offsets, NEW h \in [Offsets -> Int],
         NEW k \in [Offsets -> Int], NEW f \in Offsets, NEW w \in Offsets,
         NEW r \in Offsets, NEW has \in BOOLEAN, NEW soon \in BOOLEAN,
         RestartWrapStep(L, h, k, f, w, r, has, soon)
  PROVE  Started(L, k, f, 1, r, has, soon)
<1> SUFFICES ASSUME Bank(L, h, f, w, r, FALSE, FALSE, FALSE, soon),
                    w > LastSafe, f # 0, f + 2 <= MAXPACKET,
                    k[w - 1] = 0, k[0] = 1, \A a \in Offsets : 0 < a /\ a # w - 1 => k[a] = h[a],
                    has => f - 1 >= MAXPACKET
             PROVE  Bank(L, k, f, 1, r, FALSE, FALSE, has, soon)
  BY DEF RestartWrapStep, Started
<1>0. /\ MAXPACKET \in Nat /\ LastSafe \in Nat /\ f \in Nat /\ w \in Nat /\ 0 \in Offsets
      /\ 1 <= LastSafe
  BY Sizes DEF Offsets
<1>1. /\ Headers(L, h, f, w, FALSE) /\ Room(L, h, f, w, FALSE)
      /\ Park(L, h, f, w, r, FALSE, FALSE, soon) /\ Read(L, h, f, r, FALSE)
  BY DEF Bank
<1>2. w - 1 \in Offsets
  BY <1>0, Sizes DEF Offsets
<1>3. Linear(L, h, f, w)
  BY <1>0, <1>1 DEF Room
<1>4. \A a \in L : a \in Offsets /\ a \in Int /\ NextAt(h, a) \in Int /\ a < NextAt(h, a)
  BY NextType DEF Offsets
<1>5. \A a \in L : f <= a /\ a < w - 1 /\ NextAt(h, a) \in L \cup {w - 1} /\ 0 < a
  BY <1>0, <1>3, <1>4 DEF Linear
<1>6. \A a \in L : k[a] = h[a] /\ NextAt(k, a) = NextAt(h, a)
  BY <1>0, <1>4, <1>5 DEF NextAt
<1>7. Headers(L, k, f, 1, FALSE)
  <2>1. k[1 - 1] = 1 /\ 1 <= 1
    BY <1>0
  <2>2. QED  BY <1>1, <1>6, <2>1 DEF Headers
<1>8. Apart(L, k)
  BY <1>3, <1>6 DEF Apart, Linear
<1>9. f \in L \cup {w - 1} /\ f <= w - 1
  BY <1>0, <1>3 DEF Linear
<1>10. Wrapped(L, k, f, 1, w - 1)
  <2>1. 1 <= f /\ 0 = 1 - 1
    BY <1>0
  <2>2. QED  BY <1>5, <1>6, <1>8, <1>9, <2>1 DEF Wrapped
<1>11. Room(L, k, f, 1, has)
  <2>1. has => 1 + MAXPACKET <= f
    BY <1>0
  <2>2. QED  BY <1>0, <1>2, <1>10, <2>1 DEF Room
<1>12. h[f] # 0 /\ (f \in L => k[f] # 0)
  BY <1>1, <1>6, <1>9 DEF Headers, Words
<1>13. Park(L, k, f, 1, r, FALSE, has, soon)
  <2>1. SUFFICES ASSUME k[f] = 0  PROVE ~has /\ L = {} /\ f <= MAXPACKET /\ r \in {0, f}
    BY DEF Park
  <2>2. f = w - 1
    BY <1>9, <1>12, <2>1
  <2>3. L = {}
    BY <1>0, <1>4, <1>5, <2>2
  <2>4. r = f
    BY <1>1, <1>12 DEF Read
  <2>5. ~has /\ f <= MAXPACKET
    BY <1>0
  <2>6. QED  BY <2>3, <2>4, <2>5
<1>14. Read(L, k, f, r, FALSE)
  BY <1>1, <1>12 DEF Read
<1>15. QED  BY <1>2, <1>7, <1>11, <1>13, <1>14 DEF Bank

-----------------------------------------------------------------------------
(* The steps of the program *)

\* A step that leaves a bank's packets and pointers alone, and stores outside
\* its packets.
LEMMA BankStays ==
  ASSUME LiteInv, TypeOK', NEW b \in Banks,
         LiveAt(b)' = LiveAt(b), freePtr'[b] = freePtr[b],
         wrPtr'[b] = wrPtr[b], readPtr'[b] = readPtr[b],
         \A a \in Offsets : \/ a < wrPtr[b]
                            \/ wrPtr[b] <= freePtr[b] /\ freePtr[b] <= a
                            => hdr'[b][a] = hdr[b][a],
         Freeing(b)' = Freeing(b) \/ hdr[b][freePtr[b]] > 0,
         Taken(b)' = Taken(b), HasBuffer(b)' => HasBuffer(b),
         Soon(b)' => Soon(b) \/ ~Freeing(b)'
  PROVE  BankInv(b)'
<1>1. /\ LiveAt(b) \in SUBSET Offsets /\ hdr[b] \in [Offsets -> Int]
      /\ hdr'[b] \in [Offsets -> Int] /\ freePtr[b] \in Offsets /\ wrPtr[b] \in Offsets
      /\ readPtr[b] \in Offsets
  BY DEF LiteInv, TypeOK, LiveAt
<1>2. Bank(LiveAt(b), hdr[b], freePtr[b], wrPtr[b], readPtr[b],
           Freeing(b), Taken(b), HasBuffer(b), Soon(b))
  BY DEF LiteInv, BankInv
<1>3. /\ Freeing(b) \in BOOLEAN /\ Freeing(b)' \in BOOLEAN /\ Taken(b) \in BOOLEAN
      /\ HasBuffer(b) \in BOOLEAN /\ HasBuffer(b)' \in BOOLEAN
      /\ Soon(b) \in BOOLEAN /\ Soon(b)' \in BOOLEAN
  BY DEF Freeing, Taken, HasBuffer, Soon
<1>4. Bank(LiveAt(b), hdr'[b], freePtr[b], wrPtr[b], readPtr[b],
           Freeing(b)', Taken(b), HasBuffer(b)', Soon(b)')
  BY <1>1, <1>2, <1>3, BankKept
<1>5. QED  BY <1>4 DEF BankInv

\* The words that the driver may store into, once it has the buffer y.
LEMMA OverwrittenWords ==
  ASSUME NEW h \in [Banks -> [Offsets -> Int]], NEW y \in Packets
  PROVE  /\ Overwritten(h, y) \in [Banks -> [Offsets -> Int]]
         /\ \A b \in Banks : b # y.bank => Overwritten(h, y)[b] = h[b]
         /\ \A a \in Offsets : a < y.at \/ y.at + MAXPACKET <= a =>
              Overwritten(h, y)[y.bank][a] = h[y.bank][a]
<1>1. y.bank \in Banks /\ y.at \in Offsets
  BY DEF Packets
<1>2. PICK k \in [Offsets -> Int] :
        k = [a \in 0 .. BankWords |-> IF a \in Fills(y) THEN Data ELSE h[y.bank][a]]
  <2>1. 0 .. BankWords = Offsets /\ Data \in Int
    BY DEF Offsets, Data
  <2>2. \A a \in Offsets : h[y.bank][a] \in Int
    BY <1>1
  <2>3. [a \in Offsets |-> IF a \in Fills(y) THEN Data ELSE h[y.bank][a]] \in [Offsets -> Int]
    BY <2>1, <2>2
  <2>4. QED  BY <2>1, <2>3
<1>3. Overwritten(h, y) = [h EXCEPT ![y.bank] = k]
  BY <1>2 DEF Overwritten
<1>4. \A a \in Offsets : a < y.at \/ y.at + MAXPACKET <= a => k[a] = h[y.bank][a]
  <2>1. \A a \in Offsets : a < y.at \/ y.at + MAXPACKET <= a => a \notin Fills(y)
    BY <1>1, Sizes DEF Fills, Offsets
  <2>2. QED  BY <1>2, <2>1 DEF Offsets
<1>5. QED  BY <1>1, <1>3, <1>4

\* A buffer of the driver is outside the packets of its bank.
LEMMA RoomAbove ==
  ASSUME NEW L \in SUBSET Offsets, NEW h \in [Offsets -> Int],
         NEW f \in Offsets, NEW w \in Offsets, Room(L, h, f, w, TRUE)
  PROVE  w <= LastSafe /\ (f < w \/ w + MAXPACKET <= f)
BY DEF Room, Linear

\* The driver's buffers are where BuffersInv says, and outside the packets.
LEMMA BuffersOutside ==
  ASSUME LiteInv, nextBuffer # None
  PROVE  /\ packetInLLD \in Packets /\ nextBuffer \in Packets
         /\ packetInLLD.bank \in Banks /\ nextBuffer.bank \in Banks
         /\ nextBuffer.bank = 1 - packetInLLD.bank /\ nextBuffer.bank # packetInLLD.bank
         /\ packetInLLD = Buffer(packetInLLD.bank, wrPtr[packetInLLD.bank])
         /\ nextBuffer = Buffer(nextBuffer.bank, wrPtr[nextBuffer.bank])
         /\ packetInLLD # None
         /\ \A b \in Banks : /\ HasBuffer(b) /\ wrPtr[b] <= LastSafe
                             /\ freePtr[b] < wrPtr[b] \/ wrPtr[b] + MAXPACKET <= freePtr[b]
<1>1. /\ nextBuffer \in Packets /\ packetInLLD \in Packets
      /\ packetInLLD.bank \in Banks /\ nextBuffer.bank \in Banks
  BY DEF LiteInv, TypeOK, Packets
<1>2. /\ packetInLLD.at = wrPtr[packetInLLD.bank] /\ nextBuffer.bank = 1 - packetInLLD.bank
      /\ nextBuffer.at = wrPtr[nextBuffer.bank]
  BY DEF LiteInv, BuffersInv
<1>3. packetInLLD # None
  BY <1>1 DEF None, Packets, Offsets
<1>4. nextBuffer.bank # packetInLLD.bank
  BY <1>1, <1>2 DEF Banks
<1>5. /\ packetInLLD = Buffer(packetInLLD.bank, wrPtr[packetInLLD.bank])
      /\ nextBuffer = Buffer(nextBuffer.bank, wrPtr[nextBuffer.bank])
  BY <1>1, <1>2 DEF Packets, Buffer
<1>6. ASSUME NEW b \in Banks
      PROVE  /\ HasBuffer(b) /\ wrPtr[b] <= LastSafe
             /\ freePtr[b] < wrPtr[b] \/ wrPtr[b] + MAXPACKET <= freePtr[b]
  <2>1. HasBuffer(b)
    BY DEF HasBuffer
  <2>2. /\ LiveAt(b) \in SUBSET Offsets /\ hdr[b] \in [Offsets -> Int]
        /\ freePtr[b] \in Offsets /\ wrPtr[b] \in Offsets
    BY DEF LiteInv, TypeOK, LiveAt
  <2>3. Room(LiveAt(b), hdr[b], freePtr[b], wrPtr[b], TRUE)
    BY <2>1 DEF LiteInv, BankInv, Bank, Room
  <2>4. QED  BY <2>1, <2>2, <2>3, RoomAbove
<1>7. QED  BY <1>1, <1>2, <1>3, <1>4, <1>5, <1>6

\* A store in the driver's next buffer is outside what its bank's shape rests on.
LEMMA OutsideBuffer ==
  ASSUME LiteInv, nextBuffer # None, NEW b \in Banks, b = nextBuffer.bank,
         \A a \in Offsets : a < nextBuffer.at \/ nextBuffer.at + MAXPACKET <= a =>
           hdr'[b][a] = hdr[b][a]
  PROVE  \A a \in Offsets : \/ a < wrPtr[b]
                            \/ wrPtr[b] <= freePtr[b] /\ freePtr[b] <= a
                            => hdr'[b][a] = hdr[b][a]
<1>1. /\ nextBuffer.at = wrPtr[b] /\ wrPtr[b] \in Int /\ freePtr[b] \in Int
      /\ freePtr[b] < wrPtr[b] \/ wrPtr[b] + MAXPACKET <= freePtr[b]
  <2>1. wrPtr[b] \in Offsets /\ freePtr[b] \in Offsets
    BY DEF LiteInv, TypeOK
  <2>2. nextBuffer = Buffer(b, wrPtr[b])
    BY BuffersOutside
  <2>3. QED  BY <2>1, <2>2, BuffersOutside DEF Offsets, Buffer
<1>2. ASSUME NEW a \in Offsets, a < wrPtr[b] \/ (wrPtr[b] <= freePtr[b] /\ freePtr[b] <= a)
      PROVE  a < nextBuffer.at \/ nextBuffer.at + MAXPACKET <= a
  BY <1>1, <1>2, Sizes DEF Offsets
<1>3. QED  BY <1>2

\* What the driver may store when a frame with a wrong CRC ends.
LEMMA FrameBadStores ==
  ASSUME LiteInv, FrameBad
  PROVE  /\ hdr' \in [Banks -> [Offsets -> Int]]
         /\ \A b \in Banks : \A a \in Offsets :
              a < wrPtr[b] \/ (wrPtr[b] <= freePtr[b] /\ freePtr[b] <= a)
                => hdr'[b][a] = hdr[b][a]
<1>1. nextBuffer # None /\ hdr' = Overwritten(hdr, nextBuffer)
  BY DEF FrameBad
<1>2. /\ hdr' \in [Banks -> [Offsets -> Int]]
      /\ \A b \in Banks : b # nextBuffer.bank => hdr'[b] = hdr[b]
      /\ \A a \in Offsets : a < nextBuffer.at \/ nextBuffer.at + MAXPACKET <= a =>
           hdr'[nextBuffer.bank][a] = hdr[nextBuffer.bank][a]
  BY <1>1, BuffersOutside, OverwrittenWords DEF LiteInv, TypeOK
<1>3. ASSUME NEW b \in Banks
      PROVE  \A a \in Offsets : a < wrPtr[b] \/ (wrPtr[b] <= freePtr[b] /\ freePtr[b] <= a)
               => hdr'[b][a] = hdr[b][a]
  <2>1. CASE b = nextBuffer.bank
    BY <1>1, <1>2, <2>1, OutsideBuffer
  <2>2. CASE b # nextBuffer.bank
    BY <1>2, <2>2
  <2>3. QED  BY <2>1, <2>2
<1>4. QED  BY <1>2, <1>3

\* A frame with a wrong CRC.
LEMMA FrameBadKeeps ==
  ASSUME LiteInv, FrameBad, MaxEnds <= 2
  PROVE  LiteInv'
<1>1. /\ nextBuffer # None /\ packetInLLD' = nextBuffer /\ nextBuffer' = packetInLLD
      /\ hdr' = Overwritten(hdr, nextBuffer)
      /\ freePtr' = freePtr /\ wrPtr' = wrPtr /\ readPtr' = readPtr
      /\ refillBankNumber' = refillBankNumber /\ readBank' = readBank
      /\ notifyLast' = notifyLast /\ notifySeen' = notifySeen /\ notification' = notification
      /\ upc' = upc /\ ubank' = ubank /\ woken' = woken /\ held' = held /\ live' = live
  BY DEF FrameBad, notifyVars, userVars
<1>2. /\ upc = "free" => ended < MaxEnds /\ ended' = ended + 1
      /\ upc # "free" => ended' = 0
  BY DEF FrameBad, Interrupt
<1>3. TypeOK /\ MaxEnds \in Nat /\ ended \in 0 .. MaxEnds
  BY LiteAssumption DEF LiteInv, TypeOK
<1>4. hdr' \in [Banks -> [Offsets -> Int]]
  BY FrameBadStores
<1>5. TypeOK'
  <2>1. ended' \in 0 .. MaxEnds
    BY <1>2, <1>3
  <2>2. packetInLLD' \in Packets /\ nextBuffer' \in Packets \cup {None}
    BY <1>1, BuffersOutside
  <2>3. QED  BY <1>1, <1>3, <1>4, <2>1, <2>2 DEF TypeOK
<1>6. \A b \in Banks : \A a \in Offsets :
        a < wrPtr[b] \/ (wrPtr[b] <= freePtr[b] /\ freePtr[b] <= a) => hdr'[b][a] = hdr[b][a]
  BY FrameBadStores
<1>7. ASSUME NEW b \in Banks  PROVE BankInv(b)'
  <2>1. LiveAt(b)' = LiveAt(b)
    BY <1>1 DEF LiveAt
  <2>2. Freeing(b)' = Freeing(b)
    BY <1>1 DEF Freeing
  <2>3. Taken(b)' = Taken(b)
    <3>1. hdr'[b][freePtr[b]] = hdr[b][freePtr[b]]
      <4>1. freePtr[b] \in Offsets /\ wrPtr[b] \in Offsets
        BY <1>3 DEF TypeOK
      <4>2. freePtr[b] < wrPtr[b] \/ (wrPtr[b] <= freePtr[b] /\ freePtr[b] <= freePtr[b])
        BY <4>1 DEF Offsets
      <4>3. QED  BY <1>6, <4>1, <4>2
    <3>2. QED  BY <1>1, <3>1 DEF Taken
  <2>4. HasBuffer(b)
    BY <1>1, BuffersOutside
  <2>5. Soon(b)' => Soon(b) \/ ~Freeing(b)'
    BY <1>1, <1>2, <1>3 DEF Soon, Freeing
  <2>6. QED  BY <1>1, <1>5, <1>6, <2>1, <2>2, <2>3, <2>4, <2>5, BankStays
<1>8. HeldInv'
  BY <1>1 DEF LiteInv, HeldInv
<1>9. BuffersInv'
  BY <1>1, BuffersOutside DEF LiteInv, BuffersInv, Banks
<1>10. StopInv'
  BY <1>1, BuffersOutside DEF StopInv
<1>11. QED  BY <1>5, <1>7, <1>8, <1>9, <1>10 DEF LiteInv

\* A header word is stored.
LEMMA OneWord ==
  ASSUME NEW h \in [Banks -> [Offsets -> Int]], NEW b \in Banks, NEW i \in Offsets,
         NEW u \in Int, NEW k, k = [h EXCEPT ![b][i] = u]
  PROVE  /\ k \in [Banks -> [Offsets -> Int]]
         /\ \A c \in Banks : c # b => k[c] = h[c]
         /\ k[b][i] = u
         /\ \A a \in Offsets : a # i => k[b][a] = h[b][a]
OBVIOUS

\* Two header words are stored.
LEMMA TwoWords ==
  ASSUME NEW h \in [Banks -> [Offsets -> Int]], NEW b \in Banks,
         NEW i \in Offsets, NEW j \in Offsets, i # j, NEW u \in Int, NEW v \in Int
  PROVE  /\ [h EXCEPT ![b][i] = u, ![b][j] = v] \in [Banks -> [Offsets -> Int]]
         /\ \A c \in Banks : c # b => [h EXCEPT ![b][i] = u, ![b][j] = v][c] = h[c]
         /\ [h EXCEPT ![b][i] = u, ![b][j] = v][b][i] = u
         /\ [h EXCEPT ![b][i] = u, ![b][j] = v][b][j] = v
         /\ \A a \in Offsets : a # i /\ a # j =>
              [h EXCEPT ![b][i] = u, ![b][j] = v][b][a] = h[b][a]
OBVIOUS

\* Three header words are stored.
LEMMA ThreeWords ==
  ASSUME NEW h \in [Banks -> [Offsets -> Int]], NEW b \in Banks,
         NEW i \in Offsets, NEW j \in Offsets, NEW m \in Offsets, i # j, i # m, j # m,
         NEW u \in Int, NEW v \in Int, NEW x \in Int,
         NEW k, k = [h EXCEPT ![b][i] = u, ![b][j] = v, ![b][m] = x]
  PROVE  /\ k \in [Banks -> [Offsets -> Int]]
         /\ \A c \in Banks : c # b => k[c] = h[c]
         /\ k[b][i] = u /\ k[b][j] = v /\ k[b][m] = x
         /\ \A a \in Offsets : a # i /\ a # j /\ a # m => k[b][a] = h[b][a]
<1>1. PICK g \in [Banks -> [Offsets -> Int]] : g = [h EXCEPT ![b][i] = u, ![b][j] = v]
  BY TwoWords
<1>2. k = [g EXCEPT ![b][m] = x]
  BY <1>1
<1>3. /\ \A c \in Banks : c # b => g[c] = h[c]
      /\ g[b][i] = u /\ g[b][j] = v
      /\ \A a \in Offsets : a # i /\ a # j => g[b][a] = h[b][a]
  BY <1>1, TwoWords
<1>4. /\ k \in [Banks -> [Offsets -> Int]] /\ k[b][m] = x
      /\ \A c \in Banks : c # b => k[c] = g[c]
      /\ \A a \in Offsets : a # m => k[b][a] = g[b][a]
  BY ONLY <1>2, OneWord
<1>5. QED  BY <1>3, <1>4

\* The driver's bank is one run of packets, if the write pointer goes to the
\* head; mii_free_in_buffer may run, with at most one frame before this one.
LEMMA CommitState ==
  ASSUME LiteInv, MaxEnds <= 2, nextBuffer # None, Interrupt, NEW b \in Banks,
         b = packetInLLD.bank, NEW n \in Lens, NEW w \in Offsets, w = wrPtr[b],
         NEW f \in Offsets, f = freePtr[b]
  PROVE  /\ Bank(LiveAt(b), hdr[b], f, w, readPtr[b], Freeing(b), Taken(b), TRUE, Soon(b))
         /\ Freeing(b) => Soon(b)
         /\ w <= LastSafe /\ 1 <= w /\ w - 1 \in Offsets /\ w + n \in Offsets
         /\ f < w \/ w + MAXPACKET <= f
         /\ Wraps(b, w + n + 1) => 1 < w /\ f # 0 /\ f < w
<1>1. Bank(LiveAt(b), hdr[b], f, w, readPtr[b], Freeing(b), Taken(b), TRUE, Soon(b))
  <2>1. HasBuffer(b) = TRUE
    BY DEF HasBuffer
  <2>2. BankInv(b)
    BY DEF LiteInv
  <2>3. QED  BY <2>1, <2>2 DEF BankInv
<1>2. Freeing(b) => Soon(b)
  <2>1. ended \in 0 .. MaxEnds /\ MaxEnds \in Nat
    BY LiteAssumption DEF LiteInv, TypeOK
  <2>2. Freeing(b) => ended < MaxEnds
    BY DEF Freeing, Interrupt
  <2>3. QED  BY <2>1, <2>2 DEF Soon
<1>3. w <= LastSafe /\ (f < w \/ w + MAXPACKET <= f)
  BY BuffersOutside
<1>4. 1 <= w
  BY <1>1 DEF Bank, Headers
<1>5. w - 1 \in Offsets /\ w + n \in Offsets
  BY <1>3, <1>4, Sizes DEF Offsets
<1>6. ASSUME Wraps(b, w + n + 1)  PROVE 1 < w /\ f # 0 /\ f < w
  <2>1. w + n + 1 > LastSafe /\ f # 0
    BY <1>6 DEF Wraps
  <2>2. /\ LiveAt(b) \in SUBSET Offsets /\ hdr[b] \in [Offsets -> Int] /\ readPtr[b] \in Offsets
    BY DEF LiteInv, TypeOK, LiveAt
  <2>3. Freeing(b) \in BOOLEAN /\ Taken(b) \in BOOLEAN /\ Soon(b) \in BOOLEAN
    BY DEF Freeing, Taken, Soon
  <2>4. Linear(LiveAt(b), hdr[b], f, w) \/ w + MAXPACKET - 2 <= LastSafe
    BY <1>1, <1>2, <2>2, <2>3, WrapsLinear DEF Bank
  <2>5. w \in Nat /\ f \in Nat /\ Linear(LiveAt(b), hdr[b], f, w)
    BY <2>1, <2>4, Sizes DEF Offsets
  <2>6. QED  BY <2>1, <2>5 DEF Linear
<1>7. QED  BY <1>1, <1>2, <1>3, <1>4, <1>5, <1>6

\* What miiCommitBuffer stores.
LEMMA CommitStores ==
  ASSUME LiteInv, MaxEnds <= 2, nextBuffer # None, Interrupt, NEW b \in Banks,
         b = packetInLLD.bank, NEW n \in Lens, NEW w \in Offsets, w = wrPtr[b],
         NEW f \in Offsets, f = freePtr[b], miiCommitBuffer(b, n)
  PROVE  /\ hdr' \in [Banks -> [Offsets -> Int]]
         /\ \A a \in Offsets : a < nextBuffer.at \/ nextBuffer.at + MAXPACKET <= a =>
              hdr'[nextBuffer.bank][a] = hdr[nextBuffer.bank][a]
         /\ hdr'[b][w - 1] = n
         /\ Wraps(b, w + n + 1) =>
              /\ hdr'[b][w + n] = 0 /\ hdr'[b][0] = 1
              /\ \A a \in Offsets : 0 < a /\ a # w - 1 /\ a # w + n => hdr'[b][a] = hdr[b][a]
         /\ ~Wraps(b, w + n + 1) =>
              /\ hdr'[b][w + n] = 1
              /\ \A a \in Offsets : a # w - 1 /\ a # w + n => hdr'[b][a] = hdr[b][a]
<1>1. PICK h \in [Banks -> [Offsets -> Int]] : h = Overwritten(hdr, nextBuffer)
  BY BuffersOutside, OverwrittenWords DEF LiteInv, TypeOK
<1>2. /\ h[b] = hdr[b] /\ nextBuffer.bank \in Banks /\ nextBuffer.bank # b
      /\ \A a \in Offsets : a < nextBuffer.at \/ nextBuffer.at + MAXPACKET <= a =>
           h[nextBuffer.bank][a] = hdr[nextBuffer.bank][a]
  <2>1. /\ nextBuffer \in Packets /\ nextBuffer.bank \in Banks /\ nextBuffer.bank # b
        /\ hdr \in [Banks -> [Offsets -> Int]]
    BY BuffersOutside DEF LiteInv, TypeOK
  <2>2. QED  BY <1>1, <2>1, OverwrittenWords
<1>3. /\ w - 1 \in Offsets /\ w + n \in Offsets /\ n \in Nat /\ w \in Nat /\ 0 \in Offsets
      /\ w - 1 # w + n /\ w + n # 0 /\ (w + n + 1) - 1 = w + n
      /\ Wraps(b, w + n + 1) => w - 1 # 0
  <2>1. /\ w - 1 \in Offsets /\ w + n \in Offsets /\ 1 <= w
        /\ Wraps(b, w + n + 1) => 1 < w
    BY CommitState
  <2>2. w \in Nat /\ n \in Nat /\ 0 \in Offsets
    BY Sizes DEF Offsets
  <2>3. QED  BY <2>1, <2>2
<1>4. CASE Wraps(b, w + n + 1)
  <2>1. hdr' = [h EXCEPT ![b][w - 1] = n, ![b][(w + n + 1) - 1] = 0, ![b][0] = 1]
    BY <1>1, <1>4 DEF miiCommitBuffer
  <2>2. PICK j \in Offsets : j = (w + n + 1) - 1 /\ j = w + n
    BY <1>3
  <2>3. /\ hdr' \in [Banks -> [Offsets -> Int]]
        /\ \A c \in Banks : c # b => hdr'[c] = h[c]
        /\ hdr'[b][w - 1] = n /\ hdr'[b][j] = 0 /\ hdr'[b][0] = 1
        /\ \A a \in Offsets : a # w - 1 /\ a # j /\ a # 0 => hdr'[b][a] = h[b][a]
    <3>1. /\ w - 1 # j /\ w - 1 # 0 /\ j # 0 /\ n \in Int /\ w - 1 \in Offsets
          /\ 0 \in Offsets
      BY <1>3, <1>4, <2>2
    <3>2. hdr' = [h EXCEPT ![b][w - 1] = n, ![b][j] = 0, ![b][0] = 1]
      BY <2>1, <2>2
    <3>3. PICK k : k = hdr'
      OBVIOUS
    <3>4. 0 \in Int /\ 1 \in Int
      OBVIOUS
    <3>5. /\ k \in [Banks -> [Offsets -> Int]]
          /\ \A c \in Banks : c # b => k[c] = h[c]
          /\ k[b][w - 1] = n /\ k[b][j] = 0 /\ k[b][0] = 1
          /\ \A a \in Offsets : a # w - 1 /\ a # j /\ a # 0 => k[b][a] = h[b][a]
      BY <3>1, <3>2, <3>3, <3>4, ThreeWords
    <3>6. QED  BY <3>3, <3>5
  <2>4. QED  BY <1>2, <1>3, <1>4, <2>2, <2>3
<1>5. CASE ~Wraps(b, w + n + 1)
  <2>1. hdr' = [h EXCEPT ![b][w - 1] = n, ![b][w + n] = 1]
    BY <1>1, <1>3, <1>5 DEF miiCommitBuffer
  <2>2. QED  BY <1>2, <1>3, <1>5, <2>1, TwoWords
<1>6. QED  BY <1>4, <1>5

\* The step of the bank b in which a frame of n words is kept.
Kept(b, n) ==
  \/ /\ wrPtr'[b] = 1
     /\ WrapStep(LiveAt(b), hdr[b], hdr'[b], freePtr[b], wrPtr[b], readPtr[b],
                 Freeing(b), Taken(b), HasBuffer(b)', Soon(b), n)
  \/ PlainStep(LiveAt(b), hdr[b], hdr'[b], freePtr[b], wrPtr[b], wrPtr'[b], readPtr[b],
               Freeing(b), Taken(b), HasBuffer(b)', Soon(b), Soon(b)', n)

\* The bank of the frame that is kept.
LEMMA CommitBank ==
  ASSUME LiteInv, MaxEnds <= 2, nextBuffer # None, Interrupt, NEW b \in Banks,
         b = packetInLLD.bank, NEW n \in Lens, miiCommitBuffer(b, n),
         packetInLLD' = nextBuffer, upc' = upc, ubank' = ubank, held' = held
  PROVE  /\ BankInv(b)' /\ wrPtr'[b] \in Offsets /\ wrPtr[b] - 1 \in Offsets
         /\ nextBuffer' # None => nextBuffer' = Buffer(b, wrPtr'[b])
         /\ nextBuffer' = None /\ wrPtr'[b] > LastSafe => freePtr[b] = 0
         /\ LiveAt(b)' = LiveAt(b) \cup {wrPtr[b] - 1} /\ Taken(b)' = Taken(b)
         /\ Kept(b, n)
<1>1. PICK w \in Offsets, f \in Offsets, r \in Offsets :
        w = wrPtr[b] /\ f = freePtr[b] /\ r = readPtr[b]
  BY DEF LiteInv, TypeOK
<1>2. PICK L \in SUBSET Offsets : L = LiveAt(b)
  BY DEF LiveAt
<1>3. /\ Bank(L, hdr[b], f, w, r, Freeing(b), Taken(b), TRUE, Soon(b))
      /\ Freeing(b) => Soon(b)
      /\ w <= LastSafe /\ 1 <= w /\ w - 1 \in Offsets /\ w + n \in Offsets
      /\ f < w \/ w + MAXPACKET <= f
      /\ Wraps(b, w + n + 1) => 1 < w /\ f # 0 /\ f < w
  BY <1>1, <1>2, CommitState
<1>4. /\ hdr' \in [Banks -> [Offsets -> Int]]
      /\ hdr'[b][w - 1] = n
      /\ Wraps(b, w + n + 1) =>
           /\ hdr'[b][w + n] = 0 /\ hdr'[b][0] = 1
           /\ \A a \in Offsets : 0 < a /\ a # w - 1 /\ a # w + n => hdr'[b][a] = hdr[b][a]
      /\ ~Wraps(b, w + n + 1) =>
           /\ hdr'[b][w + n] = 1
           /\ \A a \in Offsets : a # w - 1 /\ a # w + n => hdr'[b][a] = hdr[b][a]
  BY <1>1, CommitStores
<1>5. /\ n \in Nat /\ 1 < n /\ n + 3 <= MAXPACKET /\ MAXPACKET \in Nat
      /\ LastSafe \in Nat /\ 1 <= LastSafe /\ f \in Nat /\ w \in Nat
      /\ \A a \in Offsets : a \in Nat
  BY Sizes DEF Offsets
<1>6. PICK k \in [Offsets -> Int] : k = hdr'[b]
  BY <1>4
<1>7. /\ freePtr' = freePtr /\ readPtr' = readPtr
      /\ live' = live \cup {Buffer(b, w - 1)}
  BY <1>1 DEF miiCommitBuffer
<1>8. LiveAt(b)' = L \cup {w - 1}
  BY <1>2, <1>3, <1>7 DEF LiveAt, Buffer
<1>9. Freeing(b)' = Freeing(b)
  BY DEF Freeing
<1>10. Taken(b)' = Taken(b)
  <2>1. (k[f] < 0) = (hdr[b][f] < 0)
    <3>1. hdr[b][w - 1] = 1
      BY <1>3 DEF Bank, Headers
    <3>2. k[f] = hdr[b][f] \/ f = w - 1
      BY <1>3, <1>4, <1>5, <1>6
    <3>3. QED  BY <1>4, <1>5, <1>6, <3>1, <3>2
  <2>2. QED  BY <1>1, <1>6, <1>7, <2>1 DEF Taken
<1>11. HasBuffer(b)' = (nextBuffer' # None)
  <2>1. packetInLLD'.bank # b
    BY BuffersOutside
  <2>2. QED  BY <2>1 DEF HasBuffer
<1>12. Soon(b)' => ~Freeing(b)
  <2>1. ended \in Nat
    BY LiteAssumption DEF LiteInv, TypeOK
  <2>2. packetInLLD'.bank # b
    BY BuffersOutside
  <2>3. QED  BY <2>1, <2>2 DEF Soon, Freeing, Interrupt
<1>13. /\ Freeing(b) \in BOOLEAN /\ Taken(b) \in BOOLEAN /\ HasBuffer(b)' \in BOOLEAN
       /\ Soon(b) \in BOOLEAN /\ Soon(b)' \in BOOLEAN
  BY DEF Freeing, Taken, HasBuffer, Soon
<1>14. CASE Wraps(b, w + n + 1)
  <2>1. /\ wrPtr' = [wrPtr EXCEPT ![b] = 1]
        /\ nextBuffer' = IF FitsBefore(freePtr[b], 1) THEN Buffer(b, 1) ELSE None
    BY <1>1, <1>14 DEF miiCommitBuffer
  <2>2. w + n + 1 > LastSafe /\ f # 0 /\ wrPtr'[b] = 1 /\ 1 \in Offsets
    <3>1. w + n + 1 > LastSafe /\ f # 0
      BY <1>1, <1>14 DEF Wraps
    <3>2. wrPtr'[b] = 1
      BY <2>1 DEF LiteInv, TypeOK
    <3>3. 1 \in Offsets
      BY Sizes DEF Offsets
    <3>4. QED  BY <3>1, <3>2, <3>3
  <2>3. HasBuffer(b)' => f - 1 >= MAXPACKET
    BY <1>1, <1>11, <2>1 DEF FitsBefore
  <2>4. WrapStep(L, hdr[b], k, f, w, r, Freeing(b), Taken(b), HasBuffer(b)', Soon(b), n)
    <3>1. \A a \in Offsets : 0 < a /\ a < w - 1 => k[a] = hdr[b][a]
      BY <1>4, <1>5, <1>6, <1>14
    <3>2. k[w - 1] = n /\ k[w + n] = 0 /\ k[0] = 1
      BY <1>4, <1>6, <1>14
    <3>3. QED  BY <1>3, <2>2, <2>3, <3>1, <3>2 DEF WrapStep
  <2>5. Kept(b, n)
    BY ONLY <1>1, <1>2, <1>6, <2>2, <2>4 DEF Kept
  <2>6. Bank(L \cup {w - 1}, k, f, 1, r, Freeing(b), Taken(b), HasBuffer(b)', Soon(b)')
    <3>1. hdr[b] \in [Offsets -> Int]
      BY DEF LiteInv, TypeOK
    <3>2. QED  BY ONLY <1>13, <2>4, <3>1, CommitWrap
  <2>7. BankInv(b)'
    BY <1>1, <1>6, <1>7, <1>8, <1>9, <1>10, <2>2, <2>6 DEF BankInv
  <2>8. nextBuffer' # None => nextBuffer' = Buffer(b, wrPtr'[b])
    BY <2>1, <2>2
  <2>9. QED  BY <1>1, <1>2, <1>3, <1>5, <1>8, <1>10, <2>2, <2>5, <2>7, <2>8
<1>15. CASE ~Wraps(b, w + n + 1)
  <2>1. /\ wrPtr' = [wrPtr EXCEPT ![b] = w + n + 1]
        /\ nextBuffer' = IF w + n + 1 <= LastSafe /\ RoomInTail(b, w + n + 1)
                         THEN Buffer(b, w + n + 1) ELSE None
    BY <1>1, <1>15 DEF miiCommitBuffer
  <2>2. w + n + 1 <= LastSafe \/ f = 0
    BY <1>1, <1>5, <1>15 DEF Wraps
  <2>3. wrPtr'[b] = w + n + 1
    BY <2>1 DEF LiteInv, TypeOK
  <2>4. HasBuffer(b)' => w + n + 1 <= LastSafe /\ (w + n + 1 > f \/ f - (w + n + 1) >= MAXPACKET)
    BY <1>1, <1>11, <2>1 DEF FitsBefore, RoomInTail
  <2>5. PICK v \in Offsets : v = w + n + 1
    BY <1>3, <1>5, Sizes DEF Offsets
  <2>6. PlainStep(L, hdr[b], k, f, w, v, r, Freeing(b), Taken(b), HasBuffer(b)', Soon(b),
                  Soon(b)', n)
    <3>1. \A a \in Offsets : a < w - 1 \/ (w <= f /\ f <= a) => k[a] = hdr[b][a]
      BY <1>3, <1>4, <1>5, <1>6, <1>15
    <3>2. k[w - 1] = n /\ k[w + n] = 1
      BY <1>4, <1>6, <1>15
    <3>3. Bank(L, hdr[b], f, w, r, Freeing(b), Taken(b), TRUE, Soon(b))
      BY <1>3
    <3>4. Freeing(b) => Soon(b)
      BY <1>3
    <3>5. QED  BY ONLY <1>12, <2>2, <2>4, <2>5, <3>1, <3>2, <3>3, <3>4, Zenon DEF PlainStep
  <2>7. Kept(b, n)
    <3>1. wrPtr'[b] = v
      BY <2>3, <2>5
    <3>2. QED  BY ONLY <1>1, <1>2, <1>6, <2>6, <3>1 DEF Kept
  <2>8. Bank(L \cup {w - 1}, k, f, v, r, Freeing(b), Taken(b), HasBuffer(b)', Soon(b)')
    <3>1. hdr[b] \in [Offsets -> Int]
      BY DEF LiteInv, TypeOK
    <3>2. QED  BY ONLY <1>13, <2>6, <3>1, CommitPlain
  <2>9. BankInv(b)'
    BY <1>1, <1>6, <1>7, <1>8, <1>9, <1>10, <2>3, <2>5, <2>8 DEF BankInv
  <2>10. nextBuffer' # None => nextBuffer' = Buffer(b, wrPtr'[b])
    BY <2>1, <2>3
  <2>11. QED
    BY <1>1, <1>2, <1>3, <1>5, <1>8, <1>10, <2>2, <2>3, <2>5, <2>7, <2>9, <2>10
<1>16. QED  BY <1>14, <1>15

\* A frame that is kept.
LEMMA FrameGoodKeeps ==
  ASSUME LiteInv, FrameGood, MaxEnds <= 2
  PROVE  LiteInv'
<1>1. /\ nextBuffer # None /\ Interrupt /\ packetInLLD' = nextBuffer
      /\ notifySeen' = notifySeen /\ upc' = upc /\ ubank' = ubank /\ woken' = woken
      /\ held' = held
  BY DEF FrameGood, userVars
<1>2. PICK b \in Banks, o \in Banks : b = packetInLLD.bank /\ o = nextBuffer.bank
  BY <1>1, BuffersOutside
<1>3. PICK n \in Lens : miiCommitBuffer(b, n)
  BY <1>2 DEF FrameGood
<1>4. TypeOK /\ MaxEnds \in Nat /\ ended \in 0 .. MaxEnds
  BY LiteAssumption DEF LiteInv, TypeOK
<1>5. /\ o # b /\ o = 1 - b /\ b = 1 - o /\ nextBuffer \in Packets
      /\ nextBuffer = Buffer(o, wrPtr[o]) /\ Banks = {o, b}
  BY <1>1, <1>2, BuffersOutside DEF Banks
<1>6. /\ freePtr' = freePtr /\ readPtr' = readPtr /\ readBank' = readBank
      /\ live' = live \cup {Buffer(b, wrPtr[b] - 1)}
      /\ refillBankNumber' = IF nextBuffer' = None THEN b ELSE refillBankNumber
  BY <1>3 DEF miiCommitBuffer
<1>7. /\ BankInv(b)' /\ wrPtr'[b] \in Offsets /\ wrPtr[b] - 1 \in Offsets
      /\ nextBuffer' # None => nextBuffer' = Buffer(b, wrPtr'[b])
      /\ nextBuffer' = None /\ wrPtr'[b] > LastSafe => freePtr[b] = 0
  BY <1>1, <1>2, <1>3, CommitBank
<1>8. PICK w \in Offsets, f \in Offsets : w = wrPtr[b] /\ f = freePtr[b]
  BY <1>4 DEF TypeOK
<1>9. /\ hdr' \in [Banks -> [Offsets -> Int]]
      /\ \A a \in Offsets : a < nextBuffer.at \/ nextBuffer.at + MAXPACKET <= a =>
           hdr'[o][a] = hdr[o][a]
  BY <1>1, <1>2, <1>3, <1>8, CommitStores
<1>10. wrPtr'[o] = wrPtr[o] /\ wrPtr' \in [Banks -> Offsets]
  <2>1. wrPtr \in [Banks -> Offsets]
    BY <1>4 DEF TypeOK
  <2>2. wrPtr' = [wrPtr EXCEPT ![b] = wrPtr'[b]]
    BY <1>3, <2>1 DEF miiCommitBuffer
  <2>3. QED  BY <1>5, <1>7, <2>1, <2>2
<1>11. TypeOK'
  <2>1. ended' \in 0 .. MaxEnds
    BY <1>1, <1>4 DEF Interrupt
  <2>2. nextBuffer' \in Packets \cup {None}
    BY <1>7 DEF Buffer, Packets
  <2>3. live' \subseteq Packets
    <3>1. Buffer(b, wrPtr[b] - 1) \in Packets
      BY <1>7 DEF Buffer, Packets
    <3>2. live \subseteq Packets
      BY <1>4 DEF TypeOK
    <3>3. QED  BY <1>6, <3>1, <3>2
  <2>4. notifyLast' \in BOOLEAN /\ notification' \in Seq(BOOLEAN)
    <3>1. notifyLast \in BOOLEAN /\ notification \in Seq(BOOLEAN)
      BY <1>4 DEF TypeOK
    <3>2. miiNotify
      BY <1>3 DEF miiCommitBuffer
    <3>3. (~notifyLast) \in BOOLEAN
      OBVIOUS
    <3>4. \/ notifyLast' = ~notifyLast /\ notification' = Append(notification, ~notifyLast)
          \/ notifyLast' = notifyLast /\ notification' = notification
      BY <3>2 DEF miiNotify
    <3>5. Append(notification, ~notifyLast) \in Seq(BOOLEAN)
      BY <3>1, <3>3
    <3>6. QED  BY <3>1, <3>3, <3>4, <3>5
  <2>5. refillBankNumber' \in Banks
    BY <1>4, <1>6 DEF TypeOK
  <2>6. QED  BY <1>1, <1>4, <1>5, <1>6, <1>9, <1>10, <2>1, <2>2, <2>3, <2>4, <2>5 DEF TypeOK
<1>12. BankInv(o)'
  <2>1. LiveAt(o)' = LiveAt(o)
    BY <1>5, <1>6 DEF LiveAt, Buffer
  <2>2. Freeing(o)' = Freeing(o)
    BY <1>1 DEF Freeing
  <2>3. /\ nextBuffer.at = wrPtr[o] /\ wrPtr[o] \in Offsets /\ freePtr[o] \in Offsets
        /\ freePtr[o] < wrPtr[o] \/ wrPtr[o] + MAXPACKET <= freePtr[o]
        /\ HasBuffer(o)
    BY <1>1, <1>2, <1>4, <1>5, BuffersOutside DEF TypeOK, Buffer
  <2>4. \A a \in Offsets : a < wrPtr[o] \/ (wrPtr[o] <= freePtr[o] /\ freePtr[o] <= a)
          => hdr'[o][a] = hdr[o][a]
    BY <1>1, <1>2, <1>9, OutsideBuffer
  <2>5. Taken(o)' = Taken(o)
    <3>1. freePtr[o] < wrPtr[o] \/ (wrPtr[o] <= freePtr[o] /\ freePtr[o] <= freePtr[o])
      BY <2>3 DEF Offsets
    <3>2. hdr'[o][freePtr[o]] = hdr[o][freePtr[o]]
      BY <2>3, <2>4, <3>1
    <3>3. QED  BY <1>1, <1>6, <3>2 DEF Taken
  <2>6. Soon(o)' => Soon(o) \/ ~Freeing(o)'
    BY <1>1, <1>4 DEF Soon, Freeing, Interrupt
  <2>7. freePtr'[o] = freePtr[o] /\ wrPtr'[o] = wrPtr[o] /\ readPtr'[o] = readPtr[o]
    BY <1>6, <1>10
  <2>8. QED  BY <1>11, <2>1, <2>2, <2>3, <2>4, <2>5, <2>6, <2>7, BankStays
<1>13. HeldInv'
  BY <1>1, <1>6 DEF LiteInv, HeldInv
<1>14. BuffersInv'
  <2>1. packetInLLD'.bank = o /\ packetInLLD'.at = wrPtr'[o]
    BY <1>1, <1>2, <1>5, <1>10 DEF Buffer
  <2>2. nextBuffer' # None => nextBuffer'.bank = b /\ nextBuffer'.at = wrPtr'[b]
    BY <1>7 DEF Buffer
  <2>3. QED  BY <1>5, <1>6, <2>1, <2>2 DEF BuffersInv
<1>15. StopInv'
  <2>1. 2 <= MAXPACKET
    BY Sizes
  <2>2. SUFFICES ASSUME nextBuffer' = None, wrPtr'[refillBankNumber'] > LastSafe
                 PROVE  freePtr'[refillBankNumber'] = 0
    BY <2>1 DEF StopInv
  <2>3. QED  BY <1>6, <1>7, <2>2
<1>16. QED  BY <1>5, <1>7, <1>11, <1>12, <1>13, <1>14, <1>15 DEF LiteInv

\* The header at the free pointer is marked only while mii_free_in_buffer runs.
LEMMA NotMarked ==
  ASSUME LiteInv, NEW b \in Banks, ~Freeing(b)
  PROVE  ~(hdr[b][freePtr[b]] < 0)
<1>1. PICK L \in SUBSET Offsets, h \in [Offsets -> Int], f \in Offsets, w \in Offsets :
        L = LiveAt(b) /\ h = hdr[b] /\ f = freePtr[b] /\ w = wrPtr[b]
  BY DEF LiteInv, TypeOK, LiveAt
<1>2. Headers(L, h, f, w, Freeing(b)) /\ Room(L, h, f, w, HasBuffer(b))
  BY <1>1 DEF LiteInv, BankInv, Bank
<1>3. f \in L \/ h[f] = 0 \/ h[f] = 1
  BY <1>2 DEF Headers, Room, Linear, Wrapped
<1>4. f \in L => ~(h[f] < 0)
  BY <1>2 DEF Headers
<1>5. QED  BY <1>1, <1>3, <1>4

\* A bank that a step of the application leaves alone.
LEMMA BankAside ==
  ASSUME LiteInv, TypeOK', NEW b \in Banks, ~Freeing(b), ~Freeing(b)',
         LiveAt(b)' = LiveAt(b), hdr'[b] = hdr[b], freePtr'[b] = freePtr[b],
         wrPtr'[b] = wrPtr[b], readPtr'[b] = readPtr[b], HasBuffer(b)' => HasBuffer(b),
         Buffer(b, freePtr[b]) \notin held, Buffer(b, freePtr[b]) \notin held'
  PROVE  BankInv(b)'
<1>1. Taken(b)' = Taken(b)
  <2>1. ~(hdr[b][freePtr[b]] < 0) /\ ~(hdr'[b][freePtr'[b]] < 0)
    BY NotMarked
  <2>2. Buffer(b, freePtr'[b]) \notin held'
    OBVIOUS
  <2>3. QED  BY <2>1, <2>2 DEF Taken
<1>2. Freeing(b)' = Freeing(b)
  BY DEF Freeing
<1>3. QED  BY <1>1, <1>2, BankStays

\* A notification.
LEMMA NotifiedKeeps ==
  ASSUME LiteInv, mii_notified
  PROVE  LiteInv'
<1>1. /\ UNCHANGED <<pointerVars, packetInLLD, notifyLast, upc, ubank, held, ended, live>>
      /\ notification # <<>> /\ notifySeen' = Head(notification)
      /\ notification' = Tail(notification) /\ woken' = TRUE
  BY DEF mii_notified
<1>2. TypeOK'
  <2>1. TypeOK /\ notification \in Seq(BOOLEAN)
    BY DEF LiteInv, TypeOK
  <2>2. Head(notification) \in BOOLEAN /\ Tail(notification) \in Seq(BOOLEAN)
    BY <1>1, <2>1
  <2>3. QED  BY <1>1, <2>1, <2>2 DEF TypeOK, pointerVars
<1>3. ASSUME NEW b \in Banks  PROVE BankInv(b)'
  BY <1>1 DEF LiteInv, BankInv, LiveAt, Freeing, Taken, HasBuffer, Soon, pointerVars
<1>4. HeldInv' /\ BuffersInv' /\ StopInv'
  BY <1>1 DEF LiteInv, HeldInv, BuffersInv, StopInv, pointerVars
<1>5. QED  BY <1>2, <1>3, <1>4 DEF LiteInv

\* With one packet at a time, mii_get_in_buffer is called when there is none.
LEMMA HeldNone ==
  ASSUME LiteInv, upc # "idle" \/ Cardinality(held) < 1
  PROVE  held = {}
<1>1. SUFFICES ASSUME held # {}  PROVE FALSE
  OBVIOUS
<1>2. PICK b \in Banks : upc = "idle" /\ held = {Buffer(b, freePtr[b])}
  BY <1>1 DEF LiteInv, HeldInv
<1>3. Cardinality(held) = 1
  BY <1>2, FS_Singleton
<1>4. QED  BY <1>2, <1>3

\* mii_get_in_buffer gets the packet at the free pointer of the bank b, or
\* finds none there.
GotOne(b, L, h, f, w, r) ==
  /\ h[Look(h, r)] # 1
  /\ readPtr' = [readPtr EXCEPT ![b] = Follow(h, f)] /\ Follow(h, f) \in Offsets
  /\ f \in L /\ held' = {Buffer(b, f)} /\ upc' = "idle" /\ woken' = woken
  /\ OneFound(L, h, f, w, HasBuffer(b), Soon(b))
  /\ unread' = [unread EXCEPT ![b] = Tail(@)]
GotNone(b, L, h, f, w, r) ==
  /\ h[Look(h, r)] = 1
  /\ readPtr' = [readPtr EXCEPT ![b] = Look(h, r)] /\ Look(h, r) \in Offsets
  /\ held' = {} /\ upc' = (IF upc = "idle" THEN "get2" ELSE "idle")
  /\ woken' = (woken /\ upc = "idle")
  /\ NoneFound(L, h, f, w, r, HasBuffer(b), Soon(b))
  /\ unread' = unread

\* What mii_get_in_buffer does in the bank in which it looks.
LEMMA GetFinds ==
  ASSUME LiteInv, mii_get_in_buffer, MaxHeld = 1, NEW b \in Banks, b = 1 - readBank,
         NEW L \in SUBSET Offsets, NEW h \in [Offsets -> Int], NEW f \in Offsets,
         NEW w \in Offsets, NEW r \in Offsets,
         L = LiveAt(b), h = hdr[b], f = freePtr[b], w = wrPtr[b], r = readPtr[b]
  PROVE  /\ upc \in {"idle", "get2"} /\ held = {} /\ ~Taken(b)
         /\ Untaken(L, h, f, w, r, HasBuffer(b), Soon(b))
         /\ GotOne(b, L, h, f, w, r) \/ GotNone(b, L, h, f, w, r)
<1>1. upc \in {"idle", "get2"} /\ held = {}
  BY HeldNone DEF mii_get_in_buffer
<1>2. ~Freeing(b) /\ ~Taken(b)
  BY <1>1, NotMarked DEF Freeing, Taken
<1>3. Look(h, r) = ReadAt(b)
  BY DEF ReadAt, Look
<1>4. Untaken(L, h, f, w, r, HasBuffer(b), Soon(b))
  <2>1. Freeing(b) = FALSE /\ Taken(b) = FALSE
    BY <1>2
  <2>2. BankInv(b)
    BY DEF LiteInv
  <2>3. QED  BY <2>1, <2>2 DEF BankInv, Untaken
<1>5. HasBuffer(b) \in BOOLEAN /\ Soon(b) \in BOOLEAN
  BY DEF HasBuffer, Soon
<1>6. /\ Look(h, r) \in Offsets
      /\ h[Look(h, r)] = 1 => NoneFound(L, h, f, w, r, HasBuffer(b), Soon(b))
      /\ h[Look(h, r)] # 1 =>
           /\ Look(h, r) = f /\ f \in L /\ h[f] > 1 /\ NextAt(h, f) \in Offsets
           /\ f + h[f] + 1 = NextAt(h, f)
           /\ OneFound(L, h, f, w, HasBuffer(b), Soon(b))
  BY ONLY <1>4, <1>5, TakeFound
<1>7. CASE h[Look(h, r)] # 1
  <2>1. /\ Look(h, r) = f /\ f \in L /\ NextAt(h, f) \in Offsets
        /\ f + h[f] + 1 = NextAt(h, f)
        /\ OneFound(L, h, f, w, HasBuffer(b), Soon(b))
    BY <1>6, <1>7
  <2>2. /\ readPtr' = [readPtr EXCEPT ![b] = ReadNext(b, f)]
        /\ held' = held \cup {Buffer(b, f)} /\ upc' = "idle" /\ woken' = woken
        /\ unread' = [unread EXCEPT ![b] = Tail(@)]
    BY <1>3, <1>7, <2>1 DEF mii_get_in_buffer
  <2>3. ReadNext(b, f) = Follow(h, f)
    BY <2>1 DEF ReadNext, Follow
  <2>4. Follow(h, f) \in Offsets
    BY <2>1, Sizes DEF Follow, Offsets
  <2>5. GotOne(b, L, h, f, w, r)
    BY <1>1, <1>7, <2>1, <2>2, <2>3, <2>4 DEF GotOne
  <2>6. QED  BY <1>1, <1>2, <1>4, <2>5
<1>8. CASE h[Look(h, r)] = 1
  <2>1. /\ readPtr' = [readPtr EXCEPT ![b] = Look(h, r)] /\ held' = held
        /\ upc' = (IF upc = "idle" THEN "get2" ELSE "idle")
        /\ woken' = (woken /\ upc = "idle") /\ unread' = unread
    BY <1>3, <1>8 DEF mii_get_in_buffer
  <2>2. GotNone(b, L, h, f, w, r)
    BY <1>1, <1>6, <1>8, <2>1 DEF GotNone
  <2>3. QED  BY <1>1, <1>2, <1>4, <2>2
<1>9. QED  BY <1>7, <1>8

\* The application looks for a packet.
LEMMA GetKeeps ==
  ASSUME LiteInv, mii_get_in_buffer, MaxHeld = 1
  PROVE  LiteInv'
<1>1. PICK b \in Banks, c \in Banks : b = 1 - readBank /\ c # b /\ Banks = {b, c}
  BY DEF LiteInv, TypeOK, Banks
<1>2. PICK L \in SUBSET Offsets, h \in [Offsets -> Int], f \in Offsets, w \in Offsets,
           r \in Offsets :
        L = LiveAt(b) /\ h = hdr[b] /\ f = freePtr[b] /\ w = wrPtr[b] /\ r = readPtr[b]
  BY DEF LiteInv, TypeOK, LiveAt
<1>3. /\ upc \in {"idle", "get2"} /\ held = {} /\ ~Taken(b)
      /\ GotOne(b, L, h, f, w, r) \/ GotNone(b, L, h, f, w, r)
  BY <1>1, <1>2, GetFinds
<1>4. ~Freeing(b) /\ ~Freeing(c)
  BY <1>3 DEF Freeing
<1>5. /\ nextBuffer' = nextBuffer /\ freePtr' = freePtr /\ wrPtr' = wrPtr /\ hdr' = hdr
       /\ refillBankNumber' = refillBankNumber /\ packetInLLD' = packetInLLD
       /\ notifyLast' = notifyLast /\ notifySeen' = notifySeen /\ notification' = notification
       /\ ubank' = ubank /\ ended' = ended /\ live' = live /\ readBank' = b
  BY <1>1 DEF mii_get_in_buffer, notifyVars
<1>6. readPtr' \in [Banks -> Offsets] /\ readPtr'[c] = readPtr[c]
  <2>1. readPtr \in [Banks -> Offsets]
    BY DEF LiteInv, TypeOK
  <2>2. QED  BY <1>1, <1>3, <2>1 DEF GotOne, GotNone
<1>7. TypeOK'
  <2>1. TypeOK
    BY DEF LiteInv
  <2>2. held' \subseteq Packets
    BY <1>3 DEF Buffer, Packets, GotOne, GotNone
  <2>3. upc' \in {"idle", "get2", "free", "restart"} /\ woken' \in BOOLEAN
    BY <1>3, <2>1 DEF TypeOK, GotOne, GotNone
  <2>4. QED  BY <1>5, <1>6, <2>1, <2>2, <2>3 DEF TypeOK
<1>8. ~Freeing(b)' /\ ~Freeing(c)'
  BY <1>3 DEF Freeing, GotOne, GotNone
<1>9. BankInv(b)'
  <2>1. /\ LiveAt(b)' = L /\ hdr'[b] = h /\ freePtr'[b] = f /\ wrPtr'[b] = w
        /\ HasBuffer(b)' = HasBuffer(b) /\ Soon(b)' = Soon(b) /\ Freeing(b)' = FALSE
    BY <1>2, <1>5, <1>8 DEF LiveAt, HasBuffer, Soon
  <2>2. readPtr \in [Banks -> Offsets]
    BY DEF LiteInv, TypeOK
  <2>3. CASE GotOne(b, L, h, f, w, r)
    <3>1. Taken(b)' = TRUE
      BY <2>1, <2>3 DEF Taken, GotOne
    <3>2. readPtr'[b] = Follow(h, f)
      BY <2>2, <2>3 DEF GotOne
    <3>3. QED  BY <2>1, <2>3, <3>1, <3>2 DEF BankInv, OneFound, GotOne
  <2>4. CASE GotNone(b, L, h, f, w, r)
    <3>1. Taken(b)' = FALSE
      BY <1>2, <1>3, <1>5, <2>4 DEF Taken, GotNone
    <3>2. readPtr'[b] = Look(h, r)
      BY <2>2, <2>4 DEF GotNone
    <3>3. QED  BY <2>1, <2>4, <3>1, <3>2 DEF BankInv, NoneFound, GotNone
  <2>5. QED  BY <1>3, <2>3, <2>4
<1>10. BankInv(c)'
  <2>1. LiveAt(c)' = LiveAt(c) /\ HasBuffer(c)' = HasBuffer(c)
    BY <1>5 DEF LiveAt, HasBuffer
  <2>2. Buffer(c, freePtr[c]) \notin held /\ Buffer(c, freePtr[c]) \notin held'
    BY <1>1, <1>3 DEF Buffer, GotOne, GotNone
  <2>3. QED  BY <1>4, <1>5, <1>6, <1>7, <1>8, <2>1, <2>2, BankAside
<1>11. HeldInv'
  BY <1>2, <1>3, <1>5 DEF HeldInv, GotOne, GotNone
<1>12. BuffersInv' /\ StopInv'
  BY <1>3, <1>5 DEF LiteInv, BuffersInv, StopInv
<1>13. QED  BY <1>1, <1>7, <1>9, <1>10, <1>11, <1>12 DEF LiteInv

\* The application frees its packet.
LEMMA FreeInKeeps ==
  ASSUME LiteInv, mii_free_in_buffer
  PROVE  LiteInv'
<1>1. PICK b \in Banks, c \in Banks :
        upc = "idle" /\ held = {Buffer(b, freePtr[b])} /\ c # b /\ Banks = {b, c}
  BY DEF LiteInv, HeldInv, mii_free_in_buffer, Banks
<1>2. PICK L \in SUBSET Offsets, h \in [Offsets -> Int], f \in Offsets, w \in Offsets,
           r \in Offsets :
        L = LiveAt(b) /\ h = hdr[b] /\ f = freePtr[b] /\ w = wrPtr[b] /\ r = readPtr[b]
  BY DEF LiteInv, TypeOK, LiveAt
<1>3. /\ hdr' = [hdr EXCEPT ![b][f] = -h[f]] /\ held' = {} /\ ubank' = b
      /\ upc' = "free" /\ ended' = 0
      /\ nextBuffer' = nextBuffer /\ freePtr' = freePtr /\ wrPtr' = wrPtr
      /\ readPtr' = readPtr /\ refillBankNumber' = refillBankNumber /\ readBank' = readBank
      /\ packetInLLD' = packetInLLD
      /\ notifyLast' = notifyLast /\ notifySeen' = notifySeen /\ notification' = notification
      /\ woken' = woken /\ live' = live
  <2>1. PICK x \in held : /\ hdr' = [hdr EXCEPT ![x.bank][x.at] = -@]
                          /\ held' = held \ {x} /\ ubank' = x.bank
    BY DEF mii_free_in_buffer
  <2>2. x = Buffer(b, f) /\ x.bank = b /\ x.at = f
    BY <1>1, <1>2 DEF Buffer
  <2>3. hdr' = [hdr EXCEPT ![b][f] = -h[f]]
    BY <1>2, <2>1, <2>2
  <2>4. held' = {} /\ ubank' = b
    BY <1>1, <1>2, <2>1, <2>2
  <2>5. QED  BY <2>3, <2>4 DEF mii_free_in_buffer, notifyVars
<1>4. /\ hdr' \in [Banks -> [Offsets -> Int]] /\ hdr'[c] = hdr[c]
      /\ hdr'[b] \in [Offsets -> Int] /\ hdr'[b][f] = -h[f]
      /\ \A a \in Offsets : a # f => hdr'[b][a] = h[a]
  <2>1. hdr \in [Banks -> [Offsets -> Int]]
    BY DEF LiteInv, TypeOK
  <2>2. -h[f] \in Int
    BY <1>2
  <2>3. QED  BY <1>1, <1>2, <1>3, <2>1, <2>2
<1>5. TypeOK'
  <2>1. TypeOK
    BY DEF LiteInv
  <2>2. ended' \in 0 .. MaxEnds
    BY <1>3, LiteAssumption
  <2>3. held' \subseteq Packets /\ ubank' \in Banks /\ upc' \in {"idle", "get2", "free", "restart"}
    BY <1>3
  <2>4. QED  BY <1>3, <1>4, <2>1, <2>2, <2>3 DEF TypeOK
<1>6. Bank(L, h, f, w, r, FALSE, TRUE, HasBuffer(b), Soon(b))
  <2>1. Freeing(b) = FALSE /\ Taken(b) = TRUE
    BY <1>1 DEF Freeing, Taken
  <2>2. BankInv(b)
    BY DEF LiteInv
  <2>3. QED  BY <1>2, <2>1, <2>2 DEF BankInv
<1>7. HasBuffer(b) \in BOOLEAN /\ Soon(b) \in BOOLEAN /\ Soon(b)' \in BOOLEAN
  BY DEF HasBuffer, Soon
<1>8. PICK k \in [Offsets -> Int] : k = hdr'[b]
  BY <1>4
<1>9. Marked(L, k, f, w, r, HasBuffer(b), Soon(b)')
  <2>1. MarkStep(L, h, k, f, w, r, HasBuffer(b), Soon(b))
    BY <1>4, <1>6, <1>8 DEF MarkStep
  <2>2. QED  BY ONLY <1>7, <2>1, MarkKept
<1>10. BankInv(b)'
  <2>1. /\ LiveAt(b)' = L /\ hdr'[b] = k /\ freePtr'[b] = f /\ wrPtr'[b] = w
        /\ readPtr'[b] = r
        /\ HasBuffer(b)' = HasBuffer(b) /\ Freeing(b)' = TRUE /\ Taken(b)' = TRUE
    BY <1>2, <1>3, <1>8, <1>9 DEF LiveAt, HasBuffer, Freeing, Taken, Marked
  <2>2. QED  BY <1>9, <2>1 DEF BankInv, Marked
<1>11. BankInv(c)'
  <2>1. /\ LiveAt(c)' = LiveAt(c) /\ HasBuffer(c)' = HasBuffer(c)
        /\ ~Freeing(c) /\ ~Freeing(c)'
    BY <1>1, <1>3 DEF LiveAt, HasBuffer, Freeing
  <2>2. Buffer(c, freePtr[c]) \notin held /\ Buffer(c, freePtr[c]) \notin held'
    BY <1>1, <1>3 DEF Buffer
  <2>3. QED  BY <1>3, <1>4, <1>5, <2>1, <2>2, BankAside
<1>12. HeldInv'
  BY <1>3 DEF HeldInv
<1>13. BuffersInv' /\ StopInv'
  BY <1>1, <1>3 DEF LiteInv, BuffersInv, StopInv
<1>14. QED  BY <1>1, <1>5, <1>10, <1>11, <1>12, <1>13 DEF LiteInv

\* mii_free_in_buffer finds a packet that is not freed.
LEMMA LoopEndKeeps ==
  ASSUME LiteInv, FreeLoop, hdr[ubank][freePtr[ubank]] > 0
  PROVE  LiteInv'
<1>1. /\ upc = "free" /\ upc' = "restart"
      /\ UNCHANGED <<freePtr, live, nextBuffer, wrPtr, readPtr, refillBankNumber, readBank,
                     hdr, packetInLLD, notifyLast, notifySeen, notification, ubank, woken,
                     held, ended>>
  BY DEF FreeLoop, notifyVars
<1>2. TypeOK'
  BY <1>1 DEF LiteInv, TypeOK
<1>3. ASSUME NEW b \in Banks  PROVE BankInv(b)'
  <2>1. /\ LiveAt(b)' = LiveAt(b) /\ Taken(b)' = Taken(b) /\ HasBuffer(b)' = HasBuffer(b)
        /\ Soon(b)' = Soon(b) /\ ~Freeing(b)'
    BY <1>1 DEF LiveAt, Taken, HasBuffer, Soon, Freeing
  <2>2. Freeing(b)' = Freeing(b) \/ hdr[b][freePtr[b]] > 0
    BY <1>1, <2>1 DEF Freeing
  <2>3. QED  BY <1>1, <1>2, <2>1, <2>2, BankStays
<1>4. held = {}
  BY <1>1, HeldNone
<1>5. HeldInv' /\ BuffersInv'
  BY <1>1, <1>4 DEF LiteInv, HeldInv, BuffersInv
<1>6. StopInv'
  BY <1>1 DEF LiteInv, StopInv
<1>7. QED  BY <1>2, <1>3, <1>5, <1>6 DEF LiteInv

\* mii_free_in_buffer moves the free pointer on: every bank but the one that
\* it works in, and the rest of the invariant.
LEMMA LoopRest ==
  ASSUME LiteInv, FreeLoop, NEW b \in Banks, b = ubank, ~(hdr[b][freePtr[b]] > 0),
         FreeNext(b) \in Offsets, BankInv(b)',
         wrPtr[b] > LastSafe /\ freePtr[b] = 0 /\ 2 <= MAXPACKET =>
           /\ FreeNext(b) + 2 <= MAXPACKET
           /\ FreeNext(b) = 0 \/ hdr[b][FreeNext(b)] > 0
  PROVE  LiteInv'
<1>1. PICK c \in Banks : c # b /\ Banks = {b, c}
  BY DEF Banks
<1>2. PICK e \in Offsets : e = FreeNext(b)
  BY <1>1
<1>3. /\ upc = "free" /\ upc' = "free"
      /\ freePtr' = [freePtr EXCEPT ![b] = e] /\ live' = live \ {Buffer(b, freePtr[b])}
      /\ UNCHANGED <<nextBuffer, wrPtr, readPtr, refillBankNumber, readBank,
                     hdr, packetInLLD, notifyLast, notifySeen, notification, ubank, woken,
                     held, ended>>
  BY <1>2 DEF FreeLoop, notifyVars
<1>4. freePtr' \in [Banks -> Offsets] /\ freePtr'[b] = e /\ freePtr'[c] = freePtr[c]
  <2>1. freePtr \in [Banks -> Offsets]
    BY DEF LiteInv, TypeOK
  <2>2. QED  BY <1>1, <1>3, <2>1
<1>5. TypeOK'
  BY <1>3, <1>4 DEF LiteInv, TypeOK
<1>6. held = {}
  BY <1>3, HeldNone
<1>7. BankInv(c)'
  <2>1. /\ LiveAt(c)' = LiveAt(c) /\ HasBuffer(c)' = HasBuffer(c)
        /\ ~Freeing(c) /\ ~Freeing(c)'
    BY <1>1, <1>3 DEF LiveAt, HasBuffer, Freeing, Buffer
  <2>2. QED  BY <1>3, <1>4, <1>5, <1>6, <2>1, BankAside
<1>8. HeldInv' /\ BuffersInv'
  BY <1>3, <1>6 DEF LiteInv, HeldInv, BuffersInv
<1>9. StopInv'
  <2>1. SUFFICES ASSUME nextBuffer = None, wrPtr[refillBankNumber] > LastSafe
                 PROVE  /\ freePtr'[refillBankNumber] + 2 <= MAXPACKET
                        /\ \/ freePtr'[refillBankNumber] = 0
                           \/ /\ ubank = refillBankNumber
                              /\ hdr[refillBankNumber][freePtr'[refillBankNumber]] > 0
    BY <1>3 DEF StopInv
  <2>2. /\ freePtr[refillBankNumber] + 2 <= MAXPACKET
        /\ \/ freePtr[refillBankNumber] = 0
           \/ ubank = refillBankNumber /\ hdr[refillBankNumber][freePtr[refillBankNumber]] > 0
    BY <2>1 DEF LiteInv, StopInv
  <2>3. refillBankNumber = b => freePtr[b] = 0 /\ 2 <= MAXPACKET
    BY <2>2
  <2>4. CASE refillBankNumber = b
    BY <1>1, <1>2, <1>4, <2>1, <2>2, <2>3, <2>4
  <2>5. CASE refillBankNumber = c
    BY <1>1, <1>4, <2>2, <2>5
  <2>6. refillBankNumber \in Banks
    BY DEF LiteInv, TypeOK
  <2>7. QED  BY <1>1, <2>4, <2>5, <2>6
<1>10. QED  BY <1>1, <1>5, <1>7, <1>8, <1>9 DEF LiteInv

\* mii_free_in_buffer passes a packet that is freed, or goes to the head.
LEMMA LoopStepKeeps ==
  ASSUME LiteInv, FreeLoop, NEW b \in Banks, b = ubank, ~(hdr[b][freePtr[b]] > 0)
  PROVE  /\ LiteInv' /\ ~Taken(b)' /\ LiveAt(b)' = LiveAt(b) \ {freePtr[b]}
         /\ hdr[b][freePtr[b]] < 0 \/ freePtr[b] \notin LiveAt(b)
<1>2. PICK L \in SUBSET Offsets, h \in [Offsets -> Int], f \in Offsets, w \in Offsets,
           r \in Offsets :
        L = LiveAt(b) /\ h = hdr[b] /\ f = freePtr[b] /\ w = wrPtr[b] /\ r = readPtr[b]
  BY DEF LiteInv, TypeOK, LiveAt
<1>3. ~(h[f] > 0) /\ h[f] \in Int
  BY <1>2
<1>4. /\ upc = "free" /\ upc' = "free"
      /\ freePtr' = [freePtr EXCEPT ![b] = FreeNext(b)] /\ live' = live \ {Buffer(b, f)}
      /\ UNCHANGED <<nextBuffer, wrPtr, readPtr, hdr, packetInLLD, ubank, held, ended>>
  BY <1>2 DEF FreeLoop, notifyVars
<1>5. held = {}
  BY <1>4, HeldNone
<1>6. /\ LiveAt(b)' = L \ {f} /\ hdr'[b] = h /\ freePtr'[b] = FreeNext(b) /\ wrPtr'[b] = w
      /\ readPtr'[b] = r /\ HasBuffer(b)' = HasBuffer(b) /\ Soon(b)' = Soon(b)
      /\ Freeing(b) /\ Freeing(b)'
  <2>1. freePtr \in [Banks -> Offsets]
    BY DEF LiteInv, TypeOK
  <2>2. LiveAt(b)' = L \ {f}
    BY <1>2, <1>4 DEF LiveAt, Buffer
  <2>3. QED  BY <1>2, <1>4, <2>1, <2>2 DEF HasBuffer, Soon, Freeing
<1>7. PICK taken \in BOOLEAN : taken <=> h[f] < 0
  OBVIOUS
<1>8. Taken(b) = taken
  BY <1>2, <1>5, <1>7 DEF Taken
<1>9. Bank(L, h, f, w, r, TRUE, taken, HasBuffer(b), Soon(b))
  <2>1. Freeing(b) = TRUE
    BY <1>6
  <2>2. BankInv(b)
    BY DEF LiteInv
  <2>3. QED  BY <1>2, <1>8, <2>1, <2>2 DEF BankInv
<1>10. HasBuffer(b) \in BOOLEAN /\ Soon(b) \in BOOLEAN
  BY DEF HasBuffer, Soon
<1>11. CASE h[f] < 0
  <2>1. PacketFreed(L, h, f, w, r, taken, HasBuffer(b), Soon(b))
    BY <1>7, <1>9, <1>11 DEF PacketFreed
  <2>2. /\ f \in L /\ NextAt(h, f) \in Offsets /\ NextAt(h, f) = f + 1 - h[f]
        /\ ~(h[NextAt(h, f)] < 0)
        /\ Passed(L, h, f, w, r, HasBuffer(b), Soon(b))
    BY ONLY <1>7, <1>10, <2>1, FreePacket
  <2>3. FreeNext(b) = NextAt(h, f)
    BY <1>2, <1>3, <1>11, <2>2 DEF FreeNext
  <2>4. Bank(L \ {f}, h, NextAt(h, f), w, r, TRUE, FALSE, HasBuffer(b), Soon(b))
    BY <2>2 DEF Passed
  <2>5. Taken(b)' = FALSE
    BY <1>4, <1>5, <1>6, <2>2, <2>3 DEF Taken
  <2>6. Freeing(b)' = TRUE
    BY <1>6
  <2>7. BankInv(b)'
    BY <1>6, <2>3, <2>4, <2>5, <2>6 DEF BankInv
  <2>8. ASSUME w > LastSafe, f = 0
        PROVE  NextAt(h, f) + 2 <= MAXPACKET /\ h[NextAt(h, f)] > 0
    <3>1. PICK e \in Offsets : e = NextAt(h, f)
      BY <2>2
    <3>2. Headers(L, h, f, w, TRUE) /\ Headers(L \ {f}, h, e, w, TRUE)
          /\ Room(L \ {f}, h, e, w, HasBuffer(b))
      BY <1>9, <2>4, <3>1 DEF Bank
    <3>3. Words(h[f]) + 3 <= MAXPACKET
      BY <2>2, <3>2 DEF Headers
    <3>4. e + 2 <= MAXPACKET
      BY <1>3, <1>11, <2>2, <2>8, <3>1, <3>3, Sizes DEF Words
    <3>5. Linear(L \ {f}, h, e, w)
      BY <2>8, <3>2, Sizes DEF Room, Offsets
    <3>6. e \in (L \ {f}) \cup {w - 1}
      BY <3>5 DEF Linear
    <3>7. h[e] # 0 /\ h[e] \in Int
      BY <3>2, <3>6 DEF Headers, Words
    <3>8. QED  BY <2>2, <3>1, <3>4, <3>7
  <2>9. LiteInv'
    BY <1>2, <1>3, <2>2, <2>3, <2>7, <2>8, LoopRest
  <2>10. QED  BY <1>2, <1>6, <1>11, <2>5, <2>9
<1>12. CASE h[f] = 0
  <2>1. TailFreed(L, h, f, w, r, taken, HasBuffer(b), Soon(b))
    BY <1>9, <1>12 DEF TailFreed
  <2>2. f \notin L /\ 0 \in Offsets /\ h[0] > 0 /\ AtHead(L, h, w, r, HasBuffer(b), Soon(b))
    BY ONLY <1>7, <1>10, <2>1, FreeTail
  <2>3. FreeNext(b) = 0
    BY <1>2, <1>12 DEF FreeNext
  <2>4. Bank(L, h, 0, w, r, TRUE, FALSE, HasBuffer(b), Soon(b)) /\ L \ {f} = L
    BY <2>2 DEF AtHead
  <2>5. Taken(b)' = FALSE
    BY <1>4, <1>5, <1>6, <2>2, <2>3 DEF Taken
  <2>6. Freeing(b)' = TRUE
    BY <1>6
  <2>7. BankInv(b)'
    BY <1>6, <2>3, <2>4, <2>5, <2>6 DEF BankInv
  <2>8. 0 + 2 = 2
    OBVIOUS
  <2>9. LiteInv'
    BY <1>2, <1>3, <2>2, <2>3, <2>7, <2>8, LoopRest
  <2>10. QED  BY <1>2, <1>6, <2>2, <2>5, <2>9
<1>13. QED  BY <1>3, <1>11, <1>12

\* The bank in which reception has stopped, when mii_restart_buffer runs.
LEMMA RestartState ==
  ASSUME LiteInv, mii_restart_buffer, nextBuffer = None,
         NEW b \in Banks, NEW c \in Banks, b = refillBankNumber, c # b
  PROVE  /\ packetInLLD.bank = c /\ ~HasBuffer(b) /\ HasBuffer(c)
         /\ HasBuffer(b)' = (nextBuffer' # None) /\ HasBuffer(c)'
         /\ Bank(LiveAt(b), hdr[b], freePtr[b], wrPtr[b], readPtr[b],
                 FALSE, FALSE, FALSE, Soon(b))
<1>1. upc = "restart" /\ packetInLLD' = packetInLLD
  BY DEF mii_restart_buffer
<1>2. b = 1 - packetInLLD.bank /\ packetInLLD.bank = c
  <2>1. packetInLLD.bank \in Banks
    BY DEF LiteInv, TypeOK, Packets
  <2>2. b = 1 - packetInLLD.bank
    BY DEF LiteInv, BuffersInv
  <2>3. QED  BY <2>1, <2>2 DEF Banks
<1>3. ~HasBuffer(b) /\ HasBuffer(c) /\ HasBuffer(c)' /\ HasBuffer(b)' = (nextBuffer' # None)
  BY <1>1, <1>2 DEF HasBuffer
<1>4. ~Freeing(b) /\ ~Taken(b)
  BY <1>1, HeldNone, NotMarked DEF Freeing, Taken
<1>5. Freeing(b) = FALSE /\ Taken(b) = FALSE /\ HasBuffer(b) = FALSE
  BY <1>3, <1>4
<1>6. BankInv(b)
  BY DEF LiteInv
<1>7. QED  BY <1>2, <1>3, <1>5, <1>6 DEF BankInv

\* What mii_restart_buffer stores, if it goes to the head of the bank.
LEMMA RestartStores ==
  ASSUME LiteInv, mii_restart_buffer, nextBuffer = None,
         NEW b \in Banks, NEW c \in Banks, b = refillBankNumber, c # b,
         Wraps(b, wrPtr[b])
  PROVE  /\ wrPtr' = [wrPtr EXCEPT ![b] = 1]
         /\ nextBuffer' = None \/ nextBuffer' = Buffer(b, 1)
         /\ hdr' \in [Banks -> [Offsets -> Int]] /\ hdr'[c] = hdr[c]
         /\ RestartWrapStep(LiveAt(b), hdr[b], hdr'[b], freePtr[b], wrPtr[b], readPtr[b],
                            HasBuffer(b)', Soon(b))
<1>1. PICK L \in SUBSET Offsets, h \in [Offsets -> Int], f \in Offsets, w \in Offsets,
           r \in Offsets :
        L = LiveAt(b) /\ h = hdr[b] /\ f = freePtr[b] /\ w = wrPtr[b] /\ r = readPtr[b]
  BY DEF LiteInv, TypeOK, LiveAt
<1>2. Bank(L, h, f, w, r, FALSE, FALSE, FALSE, Soon(b))
      /\ HasBuffer(b)' = (nextBuffer' # None)
  BY <1>1, RestartState
<1>3. /\ MAXPACKET \in Nat /\ LastSafe \in Nat /\ 1 <= LastSafe /\ f \in Nat /\ w \in Nat
      /\ 0 \in Offsets
  BY Sizes DEF Offsets
<1>4. w > LastSafe /\ f # 0 /\ f + 2 <= MAXPACKET
  BY <1>1 DEF Wraps, LiteInv, StopInv
<1>5. /\ wrPtr' = [wrPtr EXCEPT ![b] = 1]
      /\ hdr' = [hdr EXCEPT ![b][w - 1] = 0, ![b][0] = 1]
      /\ nextBuffer' = IF FitsBefore(f, 1) THEN Buffer(b, 1) ELSE None
  BY <1>1 DEF mii_restart_buffer
<1>6. w - 1 \in Offsets /\ w - 1 # 0
  <2>1. Linear(L, h, f, w)
    BY <1>2, <1>3, <1>4 DEF Bank, Room
  <2>2. QED  BY <1>3, <1>4, <2>1, Sizes DEF Linear, Offsets
<1>7. /\ hdr' \in [Banks -> [Offsets -> Int]] /\ hdr'[c] = hdr[c]
      /\ hdr'[b][w - 1] = 0 /\ hdr'[b][0] = 1
      /\ \A a \in Offsets : a # w - 1 /\ a # 0 => hdr'[b][a] = h[a]
  <2>1. hdr \in [Banks -> [Offsets -> Int]]
    BY DEF LiteInv, TypeOK
  <2>2. QED  BY <1>1, <1>3, <1>5, <1>6, <2>1
<1>8. \A a \in Offsets : 0 < a /\ a # w - 1 => hdr'[b][a] = h[a]
  BY <1>7 DEF Offsets
<1>9. HasBuffer(b)' => f - 1 >= MAXPACKET
  BY <1>2, <1>5 DEF FitsBefore
<1>10. RestartWrapStep(L, h, hdr'[b], f, w, r, HasBuffer(b)', Soon(b))
  BY <1>2, <1>4, <1>7, <1>8, <1>9 DEF RestartWrapStep
<1>11. QED  BY <1>1, <1>5, <1>7, <1>10

\* Reception goes on, or starts again.
LEMMA RestartKeeps ==
  ASSUME LiteInv, mii_restart_buffer
  PROVE  LiteInv'
<1>1. PICK b \in Banks, c \in Banks : b = refillBankNumber /\ c # b /\ Banks = {b, c}
  BY DEF LiteInv, TypeOK, Banks
<1>2. PICK L \in SUBSET Offsets, h \in [Offsets -> Int], f \in Offsets, w \in Offsets,
           r \in Offsets :
        L = LiveAt(b) /\ h = hdr[b] /\ f = freePtr[b] /\ w = wrPtr[b] /\ r = readPtr[b]
  BY DEF LiteInv, TypeOK, LiveAt
<1>3. /\ upc = "restart" /\ upc' = "idle"
      /\ UNCHANGED <<freePtr, readPtr, refillBankNumber, readBank, packetInLLD, notifyLast,
                     notifySeen, notification, ubank, woken, held, ended, live>>
  BY DEF mii_restart_buffer, notifyVars
<1>4. held = {} /\ held' = {}
  BY <1>3, HeldNone
<1>5. \A d \in Banks : ~Freeing(d) /\ ~Freeing(d)' /\ ~Taken(d) /\ LiveAt(d)' = LiveAt(d)
                       /\ Soon(d)' = Soon(d)
  BY <1>3, <1>4, NotMarked DEF Freeing, Taken, LiveAt, Soon
<1>6. HeldInv'
  BY <1>4 DEF HeldInv
<1>7. CASE nextBuffer # None
  <2>1. hdr' = hdr /\ wrPtr' = wrPtr /\ nextBuffer' = nextBuffer
    BY <1>7 DEF mii_restart_buffer
  <2>2. TypeOK'
    BY <1>3, <2>1 DEF LiteInv, TypeOK
  <2>3. ASSUME NEW d \in Banks  PROVE BankInv(d)'
    <3>1. HasBuffer(d)' = HasBuffer(d)
      BY <1>3, <2>1 DEF HasBuffer
    <3>2. Buffer(d, freePtr[d]) \notin held /\ Buffer(d, freePtr[d]) \notin held'
      BY <1>4
    <3>3. QED  BY <1>3, <1>5, <2>1, <2>2, <3>1, <3>2, BankAside
  <2>4. BuffersInv' /\ StopInv'
    BY <1>3, <1>7, <2>1 DEF LiteInv, BuffersInv, StopInv
  <2>5. QED  BY <1>6, <2>2, <2>3, <2>4 DEF LiteInv
<1>8. CASE nextBuffer = None
  <2>1. packetInLLD.bank = c
    BY <1>1, <1>8, RestartState
  <2>2. HasBuffer(c) /\ HasBuffer(c)'
    BY <1>1, <1>8, RestartState
  <2>3. HasBuffer(b)' = (nextBuffer' # None)
    BY <1>1, <1>8, RestartState
  <2>4. Bank(L, h, f, w, r, FALSE, FALSE, FALSE, Soon(b))
    BY <1>1, <1>2, <1>8, RestartState
  <2>5. HasBuffer(b)' \in BOOLEAN /\ Soon(b) \in BOOLEAN
    BY DEF HasBuffer, Soon
  <2>6. /\ MAXPACKET \in Nat /\ LastSafe \in Nat /\ 1 <= LastSafe /\ f \in Nat /\ w \in Nat
        /\ 0 \in Offsets /\ 1 \in Offsets
    BY Sizes DEF Offsets
  <2>7. wrPtr \in [Banks -> Offsets] /\ hdr \in [Banks -> [Offsets -> Int]]
    BY DEF LiteInv, TypeOK
  <2>8. PICK v \in Offsets, k \in [Offsets -> Int] :
          /\ wrPtr' = [wrPtr EXCEPT ![b] = v]
          /\ hdr' \in [Banks -> [Offsets -> Int]] /\ hdr'[c] = hdr[c] /\ hdr'[b] = k
          /\ nextBuffer' = None \/ nextBuffer' = Buffer(b, v)
          /\ v > LastSafe => v = w /\ f = 0
          /\ Started(L, k, f, v, r, HasBuffer(b)', Soon(b))
    <3>1. CASE Wraps(b, w)
      <4>1. /\ wrPtr' = [wrPtr EXCEPT ![b] = 1]
            /\ nextBuffer' = None \/ nextBuffer' = Buffer(b, 1)
            /\ hdr' \in [Banks -> [Offsets -> Int]] /\ hdr'[c] = hdr[c]
            /\ RestartWrapStep(L, h, hdr'[b], f, w, r, HasBuffer(b)', Soon(b))
        BY <1>1, <1>2, <1>8, <3>1, RestartStores
      <4>2. PICK k \in [Offsets -> Int] : k = hdr'[b]
        BY <4>1
      <4>3. Started(L, k, f, 1, r, HasBuffer(b)', Soon(b))
        BY ONLY <2>5, <4>1, <4>2, RestartWrap
      <4>4. 1 \in Offsets /\ ~(1 > LastSafe)
        BY <2>6
      <4>5. QED  BY <4>1, <4>2, <4>3, <4>4
    <3>2. CASE ~Wraps(b, w)
      <4>1. wrPtr' = [wrPtr EXCEPT ![b] = w] /\ hdr' = hdr
        BY <1>1, <1>2, <1>8, <3>2 DEF mii_restart_buffer
      <4>2. nextBuffer' = IF w <= LastSafe /\ RoomInTail(b, w) THEN Buffer(b, w) ELSE None
        BY <1>1, <1>2, <1>8, <3>2 DEF mii_restart_buffer
      <4>3. HasBuffer(b)' => w <= LastSafe /\ (w > f \/ f - w >= MAXPACKET)
        BY <1>2, <2>3, <4>2 DEF RoomInTail, FitsBefore
      <4>4. RestartStep(L, h, f, w, r, HasBuffer(b)', Soon(b))
        BY <2>4, <4>3 DEF RestartStep
      <4>5. Started(L, h, f, w, r, HasBuffer(b)', Soon(b))
        BY ONLY <2>5, <4>4, RestartPlain
      <4>6. w > LastSafe => f = 0
        BY <1>2, <3>2 DEF Wraps
      <4>7. QED  BY <1>2, <2>7, <4>1, <4>2, <4>5, <4>6
    <3>3. QED  BY <3>1, <3>2
  <2>9. wrPtr' \in [Banks -> Offsets] /\ wrPtr'[b] = v /\ wrPtr'[c] = wrPtr[c]
    BY <1>1, <2>7, <2>8
  <2>10. TypeOK'
    <3>1. TypeOK
      BY DEF LiteInv
    <3>2. nextBuffer' \in Packets \cup {None}
      BY <2>8 DEF Buffer, Packets
    <3>3. QED  BY <1>3, <2>8, <2>9, <3>1, <3>2 DEF TypeOK
  <2>11. BankInv(b)'
    <3>1. /\ LiveAt(b)' = L /\ hdr'[b] = k /\ freePtr'[b] = f /\ wrPtr'[b] = v
          /\ readPtr'[b] = r /\ Freeing(b)' = FALSE /\ Soon(b)' = Soon(b)
      BY <1>2, <1>3, <1>5, <2>8, <2>9
    <3>2. ~(k[f] < 0)
      BY <2>8 DEF Started, Bank, Headers, Room, Linear, Wrapped
    <3>3. Taken(b)' = FALSE
      BY <1>4, <3>1, <3>2 DEF Taken
    <3>4. QED  BY <2>8, <3>1, <3>3 DEF BankInv, Started
  <2>12. BankInv(c)'
    <3>1. Buffer(c, freePtr[c]) \notin held /\ Buffer(c, freePtr[c]) \notin held'
      BY <1>4
    <3>2. QED  BY <1>3, <1>5, <2>2, <2>8, <2>9, <2>10, <3>1, BankAside
  <2>13. BuffersInv'
    <3>1. packetInLLD.at = wrPtr[packetInLLD.bank]
      BY DEF LiteInv, BuffersInv
    <3>2. b = 1 - packetInLLD.bank
      BY <1>1, <1>8 DEF LiteInv, BuffersInv
    <3>3. QED  BY <1>1, <1>3, <2>1, <2>8, <2>9, <3>1, <3>2 DEF BuffersInv, Buffer
  <2>14. StopInv'
    <3>1. wrPtr[b] > LastSafe => freePtr[b] + 2 <= MAXPACKET
      BY <1>1, <1>8 DEF LiteInv, StopInv
    <3>2. v > LastSafe => freePtr[b] = 0 /\ freePtr[b] + 2 <= MAXPACKET
      BY <1>2, <2>8, <3>1
    <3>3. QED  BY <1>1, <1>3, <2>9, <3>2 DEF StopInv
  <2>15. QED  BY <1>1, <1>6, <2>10, <2>11, <2>12, <2>13, <2>14 DEF LiteInv
<1>9. QED  BY <1>7, <1>8

-----------------------------------------------------------------------------
(* The theorems *)

\* The banks are empty at first.
LEMMA InvInit ==
  ASSUME Init
  PROVE  LiteInv
<1>1. /\ BankWords \in Nat /\ MAXPACKET \in Nat /\ 1 <= LastSafe /\ LastSafe \in Nat
      /\ 0 \in Offsets /\ 1 \in Offsets /\ LastSafe + MAXPACKET = BankWords
  BY Sizes DEF Offsets
<1>2. PICK h \in [Offsets -> Int] :
        h = [a \in 0 .. BankWords |-> IF a = 0 THEN 1 ELSE Data]
  <2>1. 0 .. BankWords = Offsets /\ Data \in Int
    BY DEF Offsets, Data
  <2>2. [a \in Offsets |-> IF a = 0 THEN 1 ELSE Data] \in [Offsets -> Int]
    BY <2>1
  <2>3. QED  BY <2>1, <2>2
<1>3. /\ hdr = [b \in Banks |-> h] /\ h[0] = 1
      /\ freePtr = [b \in Banks |-> 0] /\ wrPtr = [b \in Banks |-> 1]
      /\ readPtr = [b \in Banks |-> 0] /\ live = {} /\ held = {} /\ ended = 0 /\ upc = "idle"
      /\ packetInLLD = Buffer(0, 1) /\ nextBuffer = Buffer(1, 1) /\ refillBankNumber = 0
  BY <1>1, <1>2 DEF Init
<1>4. 0 \in Banks /\ 1 \in Banks /\ nextBuffer # None
  BY <1>3 DEF Banks, Buffer, None
<1>5. TypeOK
  <2>1. packetInLLD \in Packets /\ nextBuffer \in Packets
    BY <1>1, <1>3, <1>4 DEF Buffer, Packets
  <2>2. /\ freePtr \in [Banks -> Offsets] /\ readPtr \in [Banks -> Offsets]
        /\ wrPtr \in [Banks -> Offsets] /\ hdr \in [Banks -> [Offsets -> Int]]
    BY <1>1, <1>2, <1>3
  <2>3. ended \in 0 .. MaxEnds
    BY <1>3, LiteAssumption
  <2>4. notification \in Seq(BOOLEAN)
    BY DEF Init
  <2>5. QED  BY <1>3, <1>4, <2>1, <2>2, <2>3, <2>4 DEF Init, TypeOK
<1>6. ASSUME NEW b \in Banks  PROVE BankInv(b)
  <2>1. /\ LiveAt(b) = {} /\ hdr[b] = h /\ freePtr[b] = 0 /\ wrPtr[b] = 1 /\ readPtr[b] = 0
        /\ Freeing(b) = FALSE /\ Taken(b) = FALSE
    BY <1>3 DEF LiveAt, Freeing, Taken
  <2>2. Headers({}, h, 0, 1, FALSE)
    BY <1>3 DEF Headers
  <2>3. Room({}, h, 0, 1, HasBuffer(b))
    BY <1>1 DEF Room, Linear, Apart
  <2>4. /\ Park({}, h, 0, 1, 0, FALSE, HasBuffer(b), Soon(b))
        /\ Read({}, h, 0, 0, FALSE)
    BY <1>3 DEF Park, Read
  <2>5. QED  BY <2>1, <2>2, <2>3, <2>4 DEF BankInv, Bank
<1>7. HeldInv /\ BuffersInv /\ StopInv
  BY <1>3, <1>4 DEF HeldInv, BuffersInv, StopInv, Buffer
<1>8. QED  BY <1>5, <1>6, <1>7 DEF LiteInv

\* Every step keeps the invariant.
LEMMA InvNext ==
  ASSUME OnePacket, LiteInv, [Next]_vars
  PROVE  LiteInv'
<1>1. MaxHeld = 1 /\ MaxEnds <= 2
  BY DEF OnePacket
<1>2. CASE FrameGood
  BY <1>1, <1>2, FrameGoodKeeps
<1>3. CASE FrameBad
  BY <1>1, <1>3, FrameBadKeeps
<1>4. CASE mii_notified
  BY <1>4, NotifiedKeeps
<1>5. CASE mii_get_in_buffer
  BY <1>1, <1>5, GetKeeps
<1>6. CASE mii_free_in_buffer
  BY <1>6, FreeInKeeps
<1>7. CASE FreeLoop
  <2>1. PICK b \in Banks : b = ubank
    BY DEF LiteInv, TypeOK
  <2>2. QED  BY <1>7, <2>1, LoopEndKeeps, LoopStepKeeps
<1>8. CASE mii_restart_buffer
  BY <1>8, RestartKeeps
<1>9. CASE UNCHANGED vars
  <2>1. UNCHANGED <<nextBuffer, freePtr, wrPtr, readPtr, refillBankNumber, readBank, hdr,
                    packetInLLD, notifyLast, notifySeen, notification, upc, ubank, woken,
                    held, ended, live>>
    BY <1>9 DEF vars, pointerVars, notifyVars, userVars
  <2>2. TypeOK'
    BY <2>1 DEF LiteInv, TypeOK
  <2>3. ASSUME NEW b \in Banks  PROVE BankInv(b)'
    BY <2>1 DEF LiteInv, BankInv, LiveAt, Freeing, Taken, HasBuffer, Soon
  <2>4. HeldInv' /\ BuffersInv' /\ StopInv'
    BY <2>1 DEF LiteInv, HeldInv, BuffersInv, StopInv
  <2>5. QED  BY <2>2, <2>3, <2>4 DEF LiteInv
<1>10. QED
  BY <1>2, <1>3, <1>4, <1>5, <1>6, <1>7, <1>8, <1>9 DEF Next, User

\* The invariant of the receive buffers.
LEMMA InvAlways ==
  OnePacket => (Spec => []LiteInv)
<1>1. SUFFICES ASSUME OnePacket  PROVE Spec => []LiteInv
  OBVIOUS
<1>2. Init => LiteInv
  BY InvInit
<1>3. LiteInv /\ [Next]_vars => LiteInv'
  BY <1>1, InvNext
<1>4. QED  BY <1>2, <1>3, PTL DEF Spec

\* The driver's words are above the write pointer of its bank.
LEMMA FillsAbove ==
  ASSUME LiteInv, NEW y \in Filled
  PROVE  /\ y.bank \in Banks /\ y.at = wrPtr[y.bank] /\ y.at \in Offsets
         /\ y.at + MAXPACKET <= BankWords
         /\ Room(LiveAt(y.bank), hdr[y.bank], freePtr[y.bank], wrPtr[y.bank], TRUE)
         /\ freePtr[y.bank] < y.at \/ y.at + MAXPACKET <= freePtr[y.bank]
<1>1. y \in Packets /\ HasBuffer(y.bank) /\ y.at = wrPtr[y.bank]
  BY DEF Filled, LiteInv, TypeOK, BuffersInv, HasBuffer, None
<1>2. y.bank \in Banks /\ y.at \in Offsets
  BY <1>1 DEF Packets
<1>3. PICK b \in Banks : b = y.bank
  BY <1>2
<1>4. /\ LiveAt(b) \in SUBSET Offsets /\ hdr[b] \in [Offsets -> Int]
      /\ freePtr[b] \in Offsets /\ wrPtr[b] \in Offsets
  BY DEF LiteInv, TypeOK, LiveAt
<1>5. Room(LiveAt(b), hdr[b], freePtr[b], wrPtr[b], TRUE)
  BY <1>1, <1>3 DEF LiteInv, BankInv, Bank, Room
<1>6. wrPtr[b] <= LastSafe /\ (freePtr[b] < wrPtr[b] \/ wrPtr[b] + MAXPACKET <= freePtr[b])
  BY <1>4, <1>5, RoomAbove
<1>7. y.at + MAXPACKET <= BankWords
  BY <1>1, <1>2, <1>3, <1>6, Sizes DEF Offsets
<1>8. QED  BY <1>1, <1>2, <1>3, <1>5, <1>6, <1>7

\* Below the write pointer or from the free pointer on, the words of packets
\* and the headers behind them are outside the driver's buffer.
LEMMA WordsOutside ==
  ASSUME NEW L \in SUBSET Offsets, NEW h \in [Offsets -> Int],
         NEW f \in Offsets, NEW w \in Offsets, Room(L, h, f, w, TRUE), 1 <= w, NEW a \in L
  PROVE  /\ NextAt(h, a) <= w - 1 \/ w + MAXPACKET <= a
         /\ NextAt(h, a) < w \/ w + MAXPACKET <= NextAt(h, a)
<1>1. /\ a \in Nat /\ NextAt(h, a) \in Int /\ a < NextAt(h, a) /\ MAXPACKET \in Nat
      /\ f \in Nat /\ w \in Nat
  BY Sizes, NextType DEF Offsets
<1>2. CASE Linear(L, h, f, w)
  <2>1. NextAt(h, a) \in L \cup {w - 1} /\ \A g \in L : g < w - 1
    BY <1>2 DEF Linear
  <2>2. QED  BY <1>1, <2>1
<1>3. CASE ~Linear(L, h, f, w)
  <2>1. PICK t \in Offsets : Wrapped(L, h, f, w, t)
    BY <1>3 DEF Room
  <2>2. w + MAXPACKET <= f
    BY <1>3 DEF Room
  <2>3. IF f <= a THEN TRUE ELSE NextAt(h, a) < w
    BY <2>1 DEF Wrapped
  <2>4. QED  BY <1>1, <2>2, <2>3
<1>4. QED  BY <1>2, <1>3

\* Type correctness: the state of mii_client_user.xc, for banks and frames of
\* every size.
THEOREM MiiLiteTypes ==
  OnePacket => (Spec => []TypeOK)
<1>1. SUFFICES ASSUME OnePacket  PROVE Spec => []TypeOK
  OBVIOUS
<1>2. Spec => []LiteInv
  BY <1>1, InvAlways
<1>3. LiteInv => TypeOK
  BY DEF LiteInv
<1>4. QED  BY <1>2, <1>3, PTL

\* Whatever frames the handler keeps or rejects while mii_free_in_buffer and
\* mii_restart_buffer run, the low-level driver never stores into a packet
\* that is not reclaimed, into the header at the free pointer, or beyond its
\* bank; and the packets that the application has are not reclaimed.
THEOREM MiiLiteNoOverlap ==
  OnePacket => (Spec => []NoOverlap)
<1>1. SUFFICES ASSUME OnePacket  PROVE Spec => []NoOverlap
  OBVIOUS
<1>2. Spec => []LiteInv
  BY <1>1, InvAlways
<1>3. ASSUME LiteInv  PROVE NoOverlap
  <2>1. ASSUME NEW y \in Filled
        PROVE  /\ \A x \in live : x.bank = y.bank => WordsOf(x) \cap Fills(y) = {}
               /\ freePtr[y.bank] \notin Fills(y)
               /\ y.at + MAXPACKET <= BankWords
    <3>1. PICK b \in Banks, L \in SUBSET Offsets, h \in [Offsets -> Int], f \in Offsets,
               w \in Offsets :
            /\ b = y.bank /\ L = LiveAt(b) /\ h = hdr[b] /\ f = freePtr[b] /\ w = wrPtr[b]
            /\ w = y.at /\ Room(L, h, f, w, TRUE) /\ w + MAXPACKET <= BankWords
            /\ f < w \/ w + MAXPACKET <= f
      <4>1. /\ y.bank \in Banks /\ y.at = wrPtr[y.bank] /\ y.at \in Offsets
            /\ y.at + MAXPACKET <= BankWords
            /\ Room(LiveAt(y.bank), hdr[y.bank], freePtr[y.bank], wrPtr[y.bank], TRUE)
            /\ freePtr[y.bank] < y.at \/ y.at + MAXPACKET <= freePtr[y.bank]
        BY <1>3, <2>1, FillsAbove
      <4>2. /\ LiveAt(y.bank) \in SUBSET Offsets /\ hdr[y.bank] \in [Offsets -> Int]
            /\ freePtr[y.bank] \in Offsets
        BY <1>3, <4>1 DEF LiteInv, TypeOK, LiveAt
      <4>3. QED  BY <4>1, <4>2
    <3>2. Headers(L, h, f, w, Freeing(b))
      BY <1>3, <3>1 DEF LiteInv, BankInv, Bank
    <3>3. /\ MAXPACKET \in Nat /\ w \in Nat /\ f \in Nat /\ 1 <= w
          /\ Fills(y) = w .. w + MAXPACKET - 1
      BY <3>1, <3>2, Sizes DEF Fills, Offsets, Headers
    <3>4. ASSUME NEW x \in live, x.bank = y.bank  PROVE WordsOf(x) \cap Fills(y) = {}
      <4>1. PICK a \in Offsets : a = x.at /\ a \in L /\ x.bank = b
        <5>1. x \in Packets
          BY <1>3, <3>4 DEF LiteInv, TypeOK
        <5>2. x = Buffer(b, x.at) /\ x.at \in Offsets
          BY <3>1, <3>4, <5>1 DEF Packets, Buffer
        <5>3. QED  BY <3>1, <3>4, <5>2 DEF LiveAt
      <4>2. NextAt(h, a) <= w - 1 \/ w + MAXPACKET <= a
        BY <3>1, <3>3, <4>1, WordsOutside
      <4>3. WordsOf(x) = a .. NextAt(h, a) - 1
        <5>1. h \in [Offsets -> Int] /\ a \in Offsets
          OBVIOUS
        <5>2. NextAt(h, a) = a + Words(h[a]) + 1 /\ Words(h[a]) \in Nat
          BY <5>1, NextType
        <5>3. a \in Nat
          BY Sizes DEF Offsets
        <5>4. NextAt(h, a) - 1 = a + Words(h[a])
          BY <5>2, <5>3
        <5>5. WordsOf(x) = a .. a + Words(h[a])
          BY <3>1, <4>1 DEF WordsOf, Words
        <5>6. QED  BY <5>4, <5>5
      <4>4. NextAt(h, a) \in Int /\ a \in Nat
        BY NextType DEF Offsets
      <4>5. QED  BY <3>3, <4>2, <4>3, <4>4
    <3>5. f \notin Fills(y)
      BY <3>1, <3>3
    <3>6. QED  BY <3>1, <3>4, <3>5
  <2>2. ASSUME NEW x \in held  PROVE x \in live /\ hdr[x.bank][x.at] > 1
    <3>1. PICK b \in Banks : upc = "idle" /\ x = Buffer(b, freePtr[b])
      BY <1>3, <2>2 DEF LiteInv, HeldInv
    <3>2. Taken(b) /\ ~Freeing(b)
      BY <2>2, <3>1 DEF Taken, Freeing
    <3>3. freePtr[b] \in LiveAt(b) /\ Headers(LiveAt(b), hdr[b], freePtr[b], wrPtr[b], Freeing(b))
      BY <1>3, <3>2 DEF LiteInv, BankInv, Bank, Read
    <3>4. hdr[b][freePtr[b]] > 1
      <4>1. hdr[b][freePtr[b]] \in Int
        BY <1>3 DEF LiteInv, TypeOK
      <4>2. ~(hdr[b][freePtr[b]] < 0) /\ 1 < Words(hdr[b][freePtr[b]])
        BY <3>2, <3>3 DEF Headers
      <4>3. QED  BY <4>1, <4>2 DEF Words
    <3>5. x \in live /\ x.bank = b /\ x.at = freePtr[b]
      BY <3>1, <3>3 DEF LiveAt, Buffer
    <3>6. QED  BY <3>4, <3>5
  <2>3. QED  BY <2>1, <2>2 DEF NoOverlap
<1>4. QED  BY <1>2, <1>3, PTL

\* The low-level driver never stores into the header that mii_get_in_buffer
\* reads next, wherever the read pointer is: at the free pointer, behind the
\* packet there, or at the head of the bank.
THEOREM MiiLiteReadHeaderKept ==
  OnePacket => (Spec => []ReadHeaderKept)
<1>1. SUFFICES ASSUME OnePacket  PROVE Spec => []ReadHeaderKept
  OBVIOUS
<1>2. Spec => []LiteInv
  BY <1>1, InvAlways
<1>3. ASSUME LiteInv  PROVE ReadHeaderKept
  <2>1. SUFFICES ASSUME NEW y \in Filled  PROVE readPtr[y.bank] \notin Fills(y)
    BY DEF ReadHeaderKept
  <2>2. /\ y.bank \in Banks /\ y.at = wrPtr[y.bank] /\ y.at \in Offsets
        /\ Room(LiveAt(y.bank), hdr[y.bank], freePtr[y.bank], wrPtr[y.bank], TRUE)
        /\ freePtr[y.bank] < y.at \/ y.at + MAXPACKET <= freePtr[y.bank]
    BY <1>3, FillsAbove
  <2>3. PICK b \in Banks, L \in SUBSET Offsets, h \in [Offsets -> Int], f \in Offsets,
             w \in Offsets, r \in Offsets :
          /\ b = y.bank /\ L = LiveAt(b) /\ h = hdr[b] /\ f = freePtr[b] /\ w = wrPtr[b]
          /\ r = readPtr[b]
    <3>1. /\ LiveAt(y.bank) \in SUBSET Offsets /\ hdr[y.bank] \in [Offsets -> Int]
          /\ freePtr[y.bank] \in Offsets /\ readPtr[y.bank] \in Offsets
      BY <1>3, <2>2 DEF LiteInv, TypeOK, LiveAt
    <3>2. QED  BY <2>2, <3>1
  <2>4. /\ Headers(L, h, f, w, Freeing(b)) /\ Park(L, h, f, w, r, Freeing(b), HasBuffer(b), Soon(b))
        /\ Read(L, h, f, r, Taken(b))
    BY <1>3, <2>3 DEF LiteInv, BankInv, Bank
  <2>5. /\ MAXPACKET \in Nat /\ w \in Nat /\ f \in Nat /\ r \in Nat /\ 1 <= w
        /\ Fills(y) = w .. w + MAXPACKET - 1
    BY <2>2, <2>3, <2>4, Sizes DEF Fills, Offsets, Headers
  <2>6. r = 0 \/ r = f \/ (f \in L /\ r = NextAt(h, f))
    BY <2>4 DEF Park, Read
  <2>7. r < w \/ w + MAXPACKET <= r
    <3>1. CASE r = 0 \/ r = f
      BY <2>2, <2>3, <2>5, <3>1
    <3>2. CASE f \in L /\ r = NextAt(h, f)
      BY <2>2, <2>3, <2>5, <3>2, WordsOutside
    <3>3. QED  BY <2>6, <3>1, <3>2
  <2>8. r \notin Fills(y)
    BY <2>5, <2>7
  <2>9. QED  BY <2>3, <2>8
<1>4. QED  BY <1>2, <1>3, PTL

-----------------------------------------------------------------------------
(* What mii_client.h promises: the headers, from the read pointer on *)

\* They lead to the packets of q, in order, and then to the header e.
Chain(b, q, L, h, e, r) ==
  /\ q \in Seq(Packets)
  /\ \A i \in 1 .. Len(q) : q[i].bank = b /\ q[i].at \in L
  /\ \A i, j \in 1 .. Len(q) : q[i].at = q[j].at => i = j
  /\ Look(h, r) = IF q = <<>> THEN e ELSE q[1].at
  /\ \A i \in 1 .. Len(q) :
       Follow(h, q[i].at) = IF i = Len(q) THEN e ELSE q[i + 1].at

\* Outside the driver's buffer the words of h and k are the same, except
\* perhaps the write header.
Agree(h, k, f, w) ==
  \A a \in Offsets : a < w \/ (w <= f /\ f <= a) =>
    k[a] = h[a] \/ (a = w - 1 /\ k[a] # 0)

\* The way through a bank is the same with k as with h.
SameWay(L, h, k, r) ==
  /\ \A a \in L : Follow(k, a) = Follow(h, a)
  /\ Look(k, r) = Look(h, r)

\* Where the headers of packets lead.
LEMMA NextInside ==
  ASSUME NEW L \in SUBSET Offsets, NEW h \in [Offsets -> Int],
         NEW f \in Offsets, NEW w \in Offsets, NEW freeing, NEW has,
         Headers(L, h, f, w, freeing), Room(L, h, f, w, has)
  PROVE  /\ w \in Nat /\ f \in Nat /\ 1 <= w /\ w - 1 \in Offsets /\ h[w - 1] = 1
         /\ w - 1 \notin L
         /\ \A a \in L : h[a] # 0 /\ (a < w \/ (w <= f /\ f <= a))
         /\ \A a \in L : \E e \in Offsets :
              /\ e = NextAt(h, a)
              /\ e \in L \cup {w - 1} \/ (w <= f /\ f <= e /\ h[e] = 0)
<1>1. w \in Nat /\ f \in Nat /\ 1 <= w /\ w - 1 \in Offsets /\ h[w - 1] = 1
  BY Sizes DEF Headers, Offsets
<1>2. w - 1 \notin L /\ \A a \in L : h[a] # 0
  BY <1>1 DEF Headers, Words
<1>3. \A a \in L : NextAt(h, a) \in Int /\ a < NextAt(h, a) /\ a \in Nat
  BY NextType, Sizes DEF Offsets
<1>4. CASE Linear(L, h, f, w)
  BY <1>1, <1>2, <1>3, <1>4 DEF Linear
<1>5. CASE \E t \in Offsets : Wrapped(L, h, f, w, t)
  <2>1. PICK t \in Offsets : Wrapped(L, h, f, w, t)
    BY <1>5
  <2>2. w <= f /\ f <= t /\ h[t] = 0
    BY <2>1 DEF Wrapped
  <2>3. ASSUME NEW a \in L
        PROVE  /\ a < w \/ (w <= f /\ f <= a)
               /\ NextAt(h, a) \in L \cup {w - 1} \cup {t}
    BY <1>1, <1>3, <2>1, <2>2 DEF Wrapped
  <2>4. QED  BY <1>1, <1>2, <2>2, <2>3
<1>6. QED  BY <1>4, <1>5 DEF Room

\* Stores in the driver's buffer do not change the way.
LEMMA AgreeSame ==
  ASSUME NEW L \in SUBSET Offsets, NEW h \in [Offsets -> Int],
         NEW k \in [Offsets -> Int], NEW f \in Offsets, NEW w \in Offsets,
         NEW r \in Offsets, NEW freeing, NEW taken \in BOOLEAN, NEW has, NEW soon,
         Bank(L, h, f, w, r, freeing, taken, has, soon), Agree(h, k, f, w)
  PROVE  SameWay(L, h, k, r)
<1>1. /\ Headers(L, h, f, w, freeing) /\ Room(L, h, f, w, has)
      /\ Park(L, h, f, w, r, freeing, has, soon) /\ Read(L, h, f, r, taken)
  BY DEF Bank
<1>2. /\ w \in Nat /\ f \in Nat /\ 1 <= w /\ w - 1 \in Offsets /\ h[w - 1] = 1
      /\ w - 1 \notin L
      /\ \A a \in L : h[a] # 0 /\ (a < w \/ (w <= f /\ f <= a))
      /\ \A a \in L : \E e \in Offsets :
           /\ e = NextAt(h, a)
           /\ e \in L \cup {w - 1} \/ (w <= f /\ f <= e /\ h[e] = 0)
  BY <1>1, NextInside
<1>3. ASSUME NEW a \in Offsets, a < w \/ (w <= f /\ f <= a)
      PROVE  /\ a # w - 1 => k[a] = h[a]
             /\ k[a] = 0 <=> h[a] = 0
  BY <1>2, <1>3 DEF Agree
<1>4. \A a \in L : k[a] = h[a] /\ NextAt(k, a) = NextAt(h, a)
  BY <1>2, <1>3 DEF NextAt
<1>5. ASSUME NEW a \in L
      PROVE  /\ NextAt(h, a) \in Offsets
             /\ k[NextAt(h, a)] = 0 <=> h[NextAt(h, a)] = 0
  <2>1. PICK e \in Offsets : /\ e = NextAt(h, a)
                             /\ e \in L \cup {w - 1} \/ (w <= f /\ f <= e /\ h[e] = 0)
    BY <1>2
  <2>2. e < w \/ (w <= f /\ f <= e)
    BY <1>2, <2>1
  <2>3. QED  BY <1>3, <2>1, <2>2
<1>6. \A a \in L : Follow(k, a) = Follow(h, a)
  BY <1>4, <1>5 DEF Follow
<1>7. 0 \in Offsets /\ 0 < w
  BY <1>2, Sizes DEF Offsets
<1>8. k[r] = 0 <=> h[r] = 0
  <2>1. CASE taken
    <3>1. f \in L /\ r = IF h[NextAt(h, f)] = 0 THEN 0 ELSE NextAt(h, f)
      BY <1>1, <2>1 DEF Read
    <3>2. QED  BY <1>3, <1>5, <1>7, <3>1
  <2>2. CASE r = f
    <3>1. f < w \/ (w <= f /\ f <= f)
      BY <1>2
    <3>2. QED  BY <1>3, <2>2, <3>1
  <2>3. CASE r = 0
    BY <1>3, <1>7, <2>3
  <2>4. QED  BY <1>1, <2>1, <2>2, <2>3 DEF Park, Read
<1>9. QED  BY <1>6, <1>8 DEF SameWay, Look

\* Nor do they change what the way leads to.
LEMMA ChainSame ==
  ASSUME NEW b, NEW q, NEW L, NEW h, NEW k, NEW e, NEW r,
         Chain(b, q, L, h, e, r), SameWay(L, h, k, r)
  PROVE  Chain(b, q, L, k, e, r)
BY DEF Chain, SameWay

\* A packet comes to the end of it, at e.
LEMMA ChainGrows ==
  ASSUME NEW b \in Banks, NEW q, NEW L \in SUBSET Offsets, NEW h, NEW k,
         NEW e \in Offsets, NEW d \in Offsets, NEW r,
         Chain(b, q, L, h, e, r), SameWay(L, h, k, r),
         e \notin L, Follow(k, e) = d
  PROVE  Chain(b, Append(q, Buffer(b, e)), L \cup {e}, k, d, r)
<1>1. PICK x \in Packets : x = Buffer(b, e) /\ x.bank = b /\ x.at = e
  <2>1. [bank |-> b, at |-> e] \in Packets
    BY DEF Packets
  <2>2. QED  BY <2>1 DEF Buffer
<1>2. /\ q \in Seq(Packets)
      /\ \A i \in 1 .. Len(q) : q[i].bank = b /\ q[i].at \in L
      /\ \A i, j \in 1 .. Len(q) : q[i].at = q[j].at => i = j
      /\ Look(k, r) = IF q = <<>> THEN e ELSE q[1].at
      /\ \A i \in 1 .. Len(q) :
           Follow(k, q[i].at) = IF i = Len(q) THEN e ELSE q[i + 1].at
  <2>1. Chain(b, q, L, k, e, r)
    BY ChainSame
  <2>2. QED  BY ONLY <2>1, Zenon DEF Chain
<1>3. PICK s \in Seq(Packets) : s = Append(q, x)
  <2>1. q \in Seq(Packets) /\ x \in Packets
    BY <1>2
  <2>2. Append(q, x) \in Seq(Packets)
    BY ONLY <2>1
  <2>3. QED  BY ONLY <2>2, Zenon
<1>4. /\ Len(q) \in Nat /\ Len(s) = Len(q) + 1 /\ s[Len(q) + 1] = x /\ s # <<>>
      /\ \A i \in 1 .. Len(q) : s[i] = q[i]
  BY ONLY <1>2, <1>3
<1>5. \A i \in 1 .. Len(s) : i \in 1 .. Len(q) \/ i = Len(q) + 1
  BY ONLY <1>4
<1>6. \A i \in 1 .. Len(s) : s[i].bank = b /\ s[i].at \in L \cup {e}
  BY ONLY <1>1, <1>2, <1>4, <1>5
<1>7. \A i, j \in 1 .. Len(s) : s[i].at = s[j].at => i = j
  BY ONLY <1>1, <1>2, <1>4, <1>5, e \notin L
<1>8. Look(k, r) = s[1].at
  <2>1. q = <<>> => Len(q) = 0
    OBVIOUS
  <2>2. q # <<>> => 1 \in 1 .. Len(q)
    BY ONLY <1>2
  <2>3. QED  BY ONLY <1>1, <1>2, <1>4, <2>1, <2>2
<1>9. ASSUME NEW i \in 1 .. Len(s)
      PROVE  Follow(k, s[i].at) = IF i = Len(s) THEN d ELSE s[i + 1].at
  <2>1. CASE i = Len(q) + 1
    BY ONLY Follow(k, e) = d, <1>1, <1>4, <2>1
  <2>2. CASE i \in 1 .. Len(q)
    <3>1. i # Len(s) /\ s[i] = q[i]
      BY ONLY <1>4, <2>2
    <3>2. CASE i = Len(q)
      BY ONLY <1>1, <1>2, <1>4, <2>2, <3>1, <3>2
    <3>3. CASE i # Len(q)
      <4>1. i + 1 \in 1 .. Len(q)
        BY ONLY <1>4, <2>2, <3>3
      <4>2. QED  BY ONLY <1>2, <1>4, <2>2, <3>1, <3>3, <4>1
    <3>4. QED  BY <3>2, <3>3
  <2>3. QED  BY <1>5, <2>1, <2>2
<1>10. Chain(b, s, L \cup {e}, k, d, r)
  BY ONLY <1>3, <1>4, <1>6, <1>7, <1>8, <1>9 DEF Chain
<1>11. QED  BY ONLY <1>1, <1>3, <1>10

\* The first packet leaves it.
LEMMA ChainGot ==
  ASSUME NEW b, NEW q, q # <<>>, NEW L, NEW h, NEW e, NEW r,
         Chain(b, q, L, h, e, r), h[e] # 0, \A a \in L : h[a] # 0
  PROVE  /\ Chain(b, Tail(q), L, h, e, Follow(h, q[1].at))
         /\ \A i \in 1 .. Len(Tail(q)) : Tail(q)[i].at # q[1].at
<1>1. /\ q \in Seq(Packets)
      /\ \A i \in 1 .. Len(q) : q[i].bank = b /\ q[i].at \in L
      /\ \A i, j \in 1 .. Len(q) : q[i].at = q[j].at => i = j
      /\ \A i \in 1 .. Len(q) :
           Follow(h, q[i].at) = IF i = Len(q) THEN e ELSE q[i + 1].at
  BY DEF Chain
<1>2. PICK s : s = Tail(q)
  OBVIOUS
<1>3. /\ s \in Seq(Packets) /\ Len(q) \in Nat /\ Len(s) = Len(q) - 1 /\ 1 \in 1 .. Len(q)
      /\ \A i \in 1 .. Len(s) : i + 1 \in 1 .. Len(q) /\ s[i] = q[i + 1] /\ i + 1 # 1
  BY ONLY <1>1, <1>2, q # <<>>
<1>4. /\ \A i \in 1 .. Len(s) : s[i].bank = b /\ s[i].at \in L /\ s[i].at # q[1].at
      /\ \A i, j \in 1 .. Len(s) : s[i].at = s[j].at => i = j
  <2>1. ASSUME NEW i \in 1 .. Len(s)
        PROVE  s[i].bank = b /\ s[i].at \in L /\ s[i].at # q[1].at
    <3>1. i + 1 \in 1 .. Len(q) /\ s[i] = q[i + 1] /\ i + 1 # 1
      BY ONLY <1>3
    <3>2. q[i + 1].bank = b /\ q[i + 1].at \in L
      BY ONLY <1>1, <3>1
    <3>3. q[i + 1].at # q[1].at
      BY ONLY <1>1, <1>3, <3>1
    <3>4. QED  BY ONLY <3>1, <3>2, <3>3
  <2>2. ASSUME NEW i \in 1 .. Len(s), NEW j \in 1 .. Len(s), s[i].at = s[j].at
        PROVE  i = j
    <3>1. /\ i + 1 \in 1 .. Len(q) /\ s[i] = q[i + 1]
          /\ j + 1 \in 1 .. Len(q) /\ s[j] = q[j + 1]
      BY ONLY <1>3
    <3>2. q[i + 1].at = q[j + 1].at
      BY ONLY <2>2, <3>1
    <3>3. i + 1 = j + 1
      BY ONLY <1>1, <3>1, <3>2
    <3>4. QED  BY ONLY <3>3
  <2>3. QED  BY <2>1, <2>2
<1>5. PICK g : g = Follow(h, q[1].at) /\ g = IF s = <<>> THEN e ELSE s[1].at
  <2>1. s = <<>> <=> Len(q) = 1
    BY ONLY <1>3
  <2>2. s # <<>> => 1 \in 1 .. Len(s) /\ s[1] = q[2]
    BY ONLY <1>3
  <2>3. Follow(h, q[1].at) = IF 1 = Len(q) THEN e ELSE q[2].at
    BY ONLY <1>1, <1>3
  <2>4. QED  BY ONLY <2>1, <2>2, <2>3
<1>6. Look(h, g) = g
  <2>1. s # <<>> => s[1].at \in L
    BY ONLY <1>3, <1>4
  <2>2. QED  BY <1>5, <2>1 DEF Look
<1>7. ASSUME NEW i \in 1 .. Len(s)
      PROVE  Follow(h, s[i].at) = IF i = Len(s) THEN e ELSE s[i + 1].at
  <2>1. /\ i + 1 \in 1 .. Len(q) /\ s[i] = q[i + 1] /\ (i = Len(s) <=> i + 1 = Len(q))
        /\ i # Len(s) => s[i + 1] = q[(i + 1) + 1]
    BY ONLY <1>3
  <2>2. Follow(h, q[i + 1].at) = IF i + 1 = Len(q) THEN e ELSE q[(i + 1) + 1].at
    BY ONLY <1>1, <2>1
  <2>3. QED  BY ONLY <2>1, <2>2
<1>8. Chain(b, s, L, h, e, g)
  BY ONLY <1>3, <1>4, <1>5, <1>6, <1>7 DEF Chain
<1>9. QED  BY ONLY <1>2, <1>4, <1>5, <1>8

\* A packet that the application has got is reclaimed.
LEMMA ChainFreed ==
  ASSUME NEW b, NEW q, NEW L, NEW h, NEW e, NEW r, NEW f,
         Chain(b, q, L, h, e, r), \A i \in 1 .. Len(q) : q[i].at # f
  PROVE  Chain(b, q, L \ {f}, h, e, r)
BY DEF Chain

\* In a bank that is one run of packets, and does not start at the head, the
\* way leads from the read pointer to the write header.
LEMMA LinearWay ==
  ASSUME NEW L \in SUBSET Offsets, NEW h \in [Offsets -> Int],
         NEW k \in [Offsets -> Int], NEW f \in Offsets, NEW w \in Offsets,
         NEW r, NEW freeing, NEW taken \in BOOLEAN,
         Headers(L, h, f, w, freeing), Linear(L, h, f, w), Read(L, h, f, r, taken), f # 0,
         \A a \in Offsets : 0 < a /\ a < w - 1 => k[a] = h[a]
  PROVE  /\ w - 1 \in Offsets /\ w - 1 \notin L /\ 0 \notin L \cup {w - 1}
         /\ r \in L \cup {w - 1} /\ Look(h, r) = r
         /\ \A a \in L : /\ h[a] # 0 /\ k[a] = h[a] /\ NextAt(k, a) = NextAt(h, a)
                         /\ Follow(h, a) = NextAt(h, a) /\ NextAt(h, a) \in L \cup {w - 1}
<1>1. w \in Nat /\ f \in Nat /\ 1 <= w /\ w - 1 \in Offsets /\ h[w - 1] = 1 /\ 0 < f
  BY Sizes DEF Headers, Offsets
<1>2. w - 1 \notin L /\ \A a \in L : h[a] # 0
  BY <1>1 DEF Headers, Words
<1>3. \A a \in L : a \in Nat /\ f <= a /\ a < w - 1 /\ NextAt(h, a) \in L \cup {w - 1}
  BY Sizes DEF Linear, Offsets
<1>4. 0 \notin L \cup {w - 1} /\ f \in L \cup {w - 1}
  BY <1>1, <1>3 DEF Linear
<1>5. \A a \in L \cup {w - 1} : h[a] # 0
  BY <1>1, <1>2
<1>6. \A a \in L : k[a] = h[a] /\ NextAt(k, a) = NextAt(h, a)
  BY <1>1, <1>3 DEF NextAt
<1>7. \A a \in L : Follow(h, a) = NextAt(h, a)
  BY <1>3, <1>5 DEF Follow
<1>8. r \in L \cup {w - 1}
  <2>1. CASE taken
    <3>1. f \in L /\ r = Follow(h, f)
      BY <2>1 DEF Read, Follow
    <3>2. QED  BY <1>3, <1>7, <3>1
  <2>2. CASE ~taken
    BY <1>4, <1>5, <2>2 DEF Read
  <2>3. QED  BY <2>1, <2>2
<1>9. Look(h, r) = r
  BY <1>5, <1>8 DEF Look
<1>10. QED  BY <1>1, <1>2, <1>3, <1>4, <1>6, <1>7, <1>8, <1>9

\* The reader's way through a bank: it leads to the packets of q, and not to
\* the one at the free pointer if the application has got that (taken).
Way(b, q, L, h, e, r, f, taken) ==
  /\ Chain(b, q, L, h, e, r)
  /\ taken => \A i \in 1 .. Len(q) : q[i].at # f

\* A packet comes to the end of the way, at e.
LEMMA WayGrows ==
  ASSUME NEW b \in Banks, NEW q, NEW L \in SUBSET Offsets, NEW h, NEW k,
         NEW e \in Offsets, NEW d \in Offsets, NEW r, NEW f, NEW taken,
         Way(b, q, L, h, e, r, f, taken), SameWay(L, h, k, r),
         e \notin L, Follow(k, e) = d, taken => f \in L
  PROVE  Way(b, Append(q, Buffer(b, e)), L \cup {e}, k, d, r, f, taken)
<1>1. Chain(b, q, L, h, e, r) /\ (taken => \A i \in 1 .. Len(q) : q[i].at # f)
  BY DEF Way
<1>2. Chain(b, Append(q, Buffer(b, e)), L \cup {e}, k, d, r)
  BY <1>1, ChainGrows
<1>3. ASSUME taken, NEW i \in 1 .. Len(Append(q, Buffer(b, e)))
      PROVE  Append(q, Buffer(b, e))[i].at # f
  <2>1. q \in Seq(Packets) /\ f # e /\ Buffer(b, e).at = e
    BY <1>1, <1>3 DEF Chain, Buffer
  <2>2. PICK x : x = Buffer(b, e) /\ x.at = e
    BY <2>1
  <2>3. (i \in 1 .. Len(q) /\ Append(q, x)[i] = q[i]) \/ Append(q, x)[i] = x
    <3>1. i \in 1 .. Len(Append(q, x))
      BY <1>3, <2>2
    <3>2. Len(q) \in Nat /\ Len(Append(q, x)) = Len(q) + 1
      BY ONLY <2>1
    <3>3. i \in 1 .. Len(q) \/ i = Len(q) + 1
      BY ONLY <3>1, <3>2
    <3>4. QED  BY ONLY <2>1, <3>3
  <2>4. QED  BY <1>1, <1>3, <2>1, <2>2, <2>3
<1>4. QED  BY <1>2, <1>3 DEF Way

\* The way with the packet at e behind those of q.
Longer(b, q, L, k, d, r, f, taken, e) ==
  Way(b, Append(q, Buffer(b, e)), L \cup {e}, k, d, r, f, taken)

\* A frame is kept in a bank with such a way: the way ends at d, or at the head.
PlainWay(b, q, L, h, k, f, w, v, r, freeing, taken, has, soon, soon2, n, e, d) ==
  /\ e = w - 1 /\ d = v - 1
  /\ PlainStep(L, h, k, f, w, v, r, freeing, taken, has, soon, soon2, n)
  /\ Way(b, q, L, h, e, r, f, taken)
WrapWay(b, q, L, h, k, f, w, r, freeing, taken, has, soon, n, e, d) ==
  /\ e = w - 1 /\ d = 0 /\ freeing \in BOOLEAN /\ soon \in BOOLEAN
  /\ WrapStep(L, h, k, f, w, r, freeing, taken, has, soon, n)
  /\ Way(b, q, L, h, e, r, f, taken)

\* A frame is kept, and the write pointer runs on: the way ends at d.
LEMMA WayPlain ==
  ASSUME NEW b \in Banks, NEW q, NEW L \in SUBSET Offsets, NEW h \in [Offsets -> Int],
         NEW k \in [Offsets -> Int], NEW f \in Offsets, NEW w \in Offsets,
         NEW v \in Offsets, NEW r \in Offsets, NEW taken \in BOOLEAN, NEW freeing,
         NEW has, NEW soon, NEW soon2, NEW n \in Lens, NEW e, NEW d,
         PlainWay(b, q, L, h, k, f, w, v, r, freeing, taken, has, soon, soon2, n, e, d)
  PROVE  Longer(b, q, L, k, d, r, f, taken, e)
<1> SUFFICES ASSUME e = w - 1, d = v - 1,
                    PlainStep(L, h, k, f, w, v, r, freeing, taken, has, soon, soon2, n),
                    Way(b, q, L, h, e, r, f, taken)
             PROVE  Way(b, Append(q, Buffer(b, e)), L \cup {e}, k, d, r, f, taken)
  BY DEF PlainWay, Longer
<1>1. /\ v = w + n + 1 /\ Bank(L, h, f, w, r, freeing, taken, TRUE, soon)
      /\ k[w - 1] = n /\ k[w + n] = 1
      /\ \A a \in Offsets : a < w - 1 \/ (w <= f /\ f <= a) => k[a] = h[a]
  BY DEF PlainStep
<1>2. /\ Headers(L, h, f, w, freeing) /\ Room(L, h, f, w, TRUE) /\ Read(L, h, f, r, taken)
  BY <1>1 DEF Bank
<1>3. w \in Nat /\ f \in Nat /\ 1 <= w /\ w - 1 \in Offsets /\ w - 1 \notin L
  BY <1>2, NextInside
<1>4. n \in Nat /\ 1 < n /\ BankWords \in Nat
  BY Sizes
<1>5. e \in Offsets /\ d \in Offsets /\ d = w + n /\ e + n + 1 = d /\ e \notin L
  BY <1>1, <1>3, <1>4 DEF Offsets
<1>6. Agree(h, k, f, w)
  <2>1. ASSUME NEW a \in Offsets, a < w \/ (w <= f /\ f <= a)
        PROVE  k[a] = h[a] \/ (a = w - 1 /\ k[a] # 0)
    <3>1. a \in Int
      BY DEF Offsets
    <3>2. a < w - 1 \/ (w <= f /\ f <= a) \/ a = w - 1
      BY <1>3, <2>1, <3>1
    <3>3. QED  BY <1>1, <1>4, <3>2
  <2>2. QED  BY <2>1 DEF Agree
<1>7. SameWay(L, h, k, r)
  BY <1>1, <1>6, AgreeSame
<1>8. Follow(k, e) = d
  <2>1. k[e] = n /\ k[d] = 1
    BY <1>1, <1>5
  <2>2. NextAt(k, e) = d
    BY <1>4, <1>5, <2>1 DEF NextAt, Words
  <2>3. QED  BY <2>1, <2>2 DEF Follow
<1>9. taken => f \in L
  BY <1>2 DEF Read
<1>10. QED  BY ONLY b \in Banks, L \in SUBSET Offsets, Way(b, q, L, h, e, r, f, taken),
                    <1>5, <1>7, <1>8, <1>9, WayGrows

\* A frame is kept, and the write pointer goes to the head: so does the way.
LEMMA WayWrap ==
  ASSUME NEW b \in Banks, NEW q, NEW L \in SUBSET Offsets, NEW h \in [Offsets -> Int],
         NEW k \in [Offsets -> Int], NEW f \in Offsets, NEW w \in Offsets,
         NEW r \in Offsets, NEW taken \in BOOLEAN, NEW freeing, NEW has,
         NEW soon, NEW n \in Lens, NEW e, NEW d,
         WrapWay(b, q, L, h, k, f, w, r, freeing, taken, has, soon, n, e, d)
  PROVE  Longer(b, q, L, k, d, r, f, taken, e)
<1> SUFFICES ASSUME e = w - 1, d = 0, freeing \in BOOLEAN, soon \in BOOLEAN,
                    WrapStep(L, h, k, f, w, r, freeing, taken, has, soon, n),
                    Way(b, q, L, h, e, r, f, taken)
             PROVE  Way(b, Append(q, Buffer(b, e)), L \cup {e}, k, d, r, f, taken)
  BY DEF WrapWay, Longer
<1>1. /\ Bank(L, h, f, w, r, freeing, taken, TRUE, soon) /\ (freeing => soon)
      /\ w + n + 1 > LastSafe /\ f # 0 /\ k[w - 1] = n /\ k[w + n] = 0
      /\ \A a \in Offsets : 0 < a /\ a < w - 1 => k[a] = h[a]
  BY DEF WrapStep
<1>2. /\ Headers(L, h, f, w, freeing) /\ Room(L, h, f, w, TRUE)
      /\ Park(L, h, f, w, r, freeing, TRUE, soon) /\ Read(L, h, f, r, taken)
  BY <1>1 DEF Bank
<1>3. /\ n \in Nat /\ 1 < n /\ n + 3 <= MAXPACKET /\ MAXPACKET \in Nat /\ LastSafe \in Nat
      /\ w \in Nat /\ 0 \in Offsets
  BY Sizes DEF Offsets
<1>4. Linear(L, h, f, w)
  <2>1. Linear(L, h, f, w) \/ w + MAXPACKET - 2 <= LastSafe
    BY <1>1, <1>2, WrapsLinear
  <2>2. QED  BY <1>1, <1>3, <2>1
<1>5. /\ e \in Offsets /\ e \notin L /\ r \in L \cup {e} /\ Look(h, r) = r
      /\ \A a \in L : /\ h[a] # 0 /\ k[a] = h[a] /\ NextAt(k, a) = NextAt(h, a)
                      /\ Follow(h, a) = NextAt(h, a) /\ NextAt(h, a) \in L \cup {e}
  <2>1. PICK z : z = freeing /\ Headers(L, h, f, w, z)
    BY <1>2
  <2>2. f # 0 /\ Read(L, h, f, r, taken)
        /\ \A a \in Offsets : 0 < a /\ a < w - 1 => k[a] = h[a]
    BY <1>1, <1>2
  <2>3. /\ w - 1 \in Offsets /\ w - 1 \notin L /\ 0 \notin L \cup {w - 1}
        /\ r \in L \cup {w - 1} /\ Look(h, r) = r
        /\ \A a \in L : /\ h[a] # 0 /\ k[a] = h[a] /\ NextAt(k, a) = NextAt(h, a)
                        /\ Follow(h, a) = NextAt(h, a) /\ NextAt(h, a) \in L \cup {w - 1}
    BY ONLY <1>4, <2>1, <2>2, taken \in BOOLEAN, L \in SUBSET Offsets, LinearWay
  <2>4. QED  BY <2>3
<1>6. \A a \in L \cup {e} : k[a] # 0
  BY <1>1, <1>3, <1>5
<1>7. SameWay(L, h, k, r)
  BY <1>5, <1>6 DEF SameWay, Follow, Look
<1>8. Follow(k, e) = d
  <2>1. NextAt(k, e) = w + n
    BY <1>1, <1>3 DEF NextAt, Words
  <2>2. QED  BY <1>1, <2>1 DEF Follow
<1>9. e \in Offsets /\ d \in Offsets /\ (taken => f \in L)
  BY <1>2, <1>3, <1>5 DEF Read
<1>10. QED  BY ONLY b \in Banks, L \in SUBSET Offsets, Way(b, q, L, h, e, r, f, taken),
                    <1>5, <1>7, <1>8, <1>9, WayGrows

\* The tail of the bank is given up: the way ends at the head.
LEMMA WayRestart ==
  ASSUME NEW b \in Banks, NEW q, NEW L \in SUBSET Offsets, NEW h \in [Offsets -> Int],
         NEW k \in [Offsets -> Int], NEW f \in Offsets, NEW w \in Offsets,
         NEW r \in Offsets, NEW has, NEW soon, NEW e, e = w - 1,
         RestartWrapStep(L, h, k, f, w, r, has, soon), Chain(b, q, L, h, e, r)
  PROVE  Chain(b, q, L, k, 0, r)
<1>1. /\ Bank(L, h, f, w, r, FALSE, FALSE, FALSE, soon)
      /\ w > LastSafe /\ f # 0 /\ k[w - 1] = 0
      /\ \A a \in Offsets : 0 < a /\ a # w - 1 => k[a] = h[a]
  BY DEF RestartWrapStep
<1>2. Headers(L, h, f, w, FALSE) /\ Room(L, h, f, w, FALSE) /\ Read(L, h, f, r, FALSE)
  BY <1>1 DEF Bank
<1>3. w \in Nat /\ LastSafe \in Nat
  BY Sizes DEF Offsets
<1>4. Linear(L, h, f, w)
  BY <1>1, <1>2, <1>3 DEF Room
<1>5. \A a \in Offsets : 0 < a /\ a < w - 1 => k[a] = h[a]
  BY <1>1, <1>3 DEF Offsets
<1>6. /\ e \notin L /\ r \in L \cup {e} /\ Look(h, r) = r
      /\ \A a \in L : /\ h[a] # 0 /\ k[a] = h[a] /\ NextAt(k, a) = NextAt(h, a)
                      /\ Follow(h, a) = NextAt(h, a) /\ NextAt(h, a) \in L \cup {e}
  <2>1. PICK freeing \in BOOLEAN, taken \in BOOLEAN :
          Headers(L, h, f, w, freeing) /\ Read(L, h, f, r, taken)
    BY <1>2
  <2>2. f # 0
    BY <1>1
  <2>3. /\ w - 1 \in Offsets /\ w - 1 \notin L /\ 0 \notin L \cup {w - 1}
        /\ r \in L \cup {w - 1} /\ Look(h, r) = r
        /\ \A a \in L : /\ h[a] # 0 /\ k[a] = h[a] /\ NextAt(k, a) = NextAt(h, a)
                        /\ Follow(h, a) = NextAt(h, a) /\ NextAt(h, a) \in L \cup {w - 1}
    BY <1>4, <1>5, <2>1, <2>2, LinearWay
  <2>4. QED  BY <2>3
<1>7. \A a \in L : Follow(k, a) = IF Follow(h, a) = e THEN 0 ELSE Follow(h, a)
  BY <1>1, <1>6 DEF Follow
<1>8. Look(k, r) = IF Look(h, r) = e THEN 0 ELSE Look(h, r)
  BY <1>1, <1>6 DEF Look
<1>9. /\ q \in Seq(Packets)
      /\ \A i \in 1 .. Len(q) : q[i].bank = b /\ q[i].at \in L
      /\ \A i, j \in 1 .. Len(q) : q[i].at = q[j].at => i = j
      /\ Look(h, r) = IF q = <<>> THEN e ELSE q[1].at
      /\ \A i \in 1 .. Len(q) :
           Follow(h, q[i].at) = IF i = Len(q) THEN e ELSE q[i + 1].at
  BY DEF Chain
<1>10. Look(k, r) = IF q = <<>> THEN 0 ELSE q[1].at
  <2>1. q # <<>> => 1 \in 1 .. Len(q)
    BY ONLY <1>9
  <2>2. QED  BY <1>6, <1>8, <1>9, <2>1
<1>11. ASSUME NEW i \in 1 .. Len(q)
       PROVE  Follow(k, q[i].at) = IF i = Len(q) THEN 0 ELSE q[i + 1].at
  <2>1. i # Len(q) => i + 1 \in 1 .. Len(q)
    BY ONLY <1>9
  <2>2. q[i].at \in L /\ (i # Len(q) => q[i + 1].at \in L)
    BY ONLY <1>9, <2>1
  <2>3. QED  BY ONLY <1>6, <1>7, <1>9, <2>2, i \in 1 .. Len(q)
<1>12. QED  BY ONLY <1>9, <1>10, <1>11 DEF Chain

\* Marking the application's packet does not change the way.
LEMMA MarkSame ==
  ASSUME NEW L \in SUBSET Offsets, NEW h \in [Offsets -> Int],
         NEW k \in [Offsets -> Int], NEW f \in Offsets, NEW w \in Offsets,
         NEW r \in Offsets, NEW has, NEW soon,
         MarkStep(L, h, k, f, w, r, has, soon)
  PROVE  SameWay(L, h, k, r)
<1>1. /\ Headers(L, h, f, w, FALSE) /\ Room(L, h, f, w, has)
      /\ k[f] = -h[f] /\ \A a \in Offsets : a # f => k[a] = h[a]
  BY DEF MarkStep, Bank
<1>2. \A a \in Offsets : (k[a] = 0 <=> h[a] = 0) /\ Words(k[a]) = Words(h[a])
  BY <1>1 DEF Words
<1>3. \A a \in L : NextAt(h, a) \in Offsets
  <2>1. \A a \in L : \E e \in Offsets :
          /\ e = NextAt(h, a)
          /\ e \in L \cup {w - 1} \/ (w <= f /\ f <= e /\ h[e] = 0)
    <3>1. PICK freeing : Headers(L, h, f, w, freeing)
      BY <1>1
    <3>2. Room(L, h, f, w, has)
      BY <1>1
    <3>3. QED  BY ONLY L \in SUBSET Offsets, <3>1, <3>2, NextInside
  <2>2. QED  BY <2>1
<1>4. \A a \in Offsets : NextAt(k, a) = NextAt(h, a)
  BY <1>2 DEF NextAt
<1>5. QED  BY <1>2, <1>3, <1>4 DEF SameWay, Follow, Look

\* The thread, which has no packet of the bank, looks there for q.
Looking(b, q, L, h, f, w, r, has, soon, e) ==
  e = w - 1 /\ Untaken(L, h, f, w, r, has, soon) /\ Chain(b, q, L, h, e, r)

\* It finds none, and there is none; or it finds the first one.
Found(b, q, L, h, f, r, e) ==
  /\ h[Look(h, r)] = 1 => q = <<>> /\ Chain(b, q, L, h, e, Look(h, r))
  /\ h[Look(h, r)] # 1 => /\ q # <<>> /\ Head(q) = Buffer(b, f)
                          /\ Way(b, Tail(q), L, h, e, Follow(h, f), f, TRUE)

\* What mii_get_in_buffer finds is the first packet of the way, or the way has
\* none.
LEMMA WayFound ==
  ASSUME NEW b, NEW q, NEW L \in SUBSET Offsets, NEW h \in [Offsets -> Int],
         NEW f \in Offsets, NEW w \in Offsets, NEW r \in Offsets,
         NEW has \in BOOLEAN, NEW soon \in BOOLEAN, NEW e,
         Looking(b, q, L, h, f, w, r, has, soon, e)
  PROVE  Found(b, q, L, h, f, r, e)
<1> SUFFICES ASSUME e = w - 1, Untaken(L, h, f, w, r, has, soon), Chain(b, q, L, h, e, r)
             PROVE  Found(b, q, L, h, f, r, e)
  BY DEF Looking
<1>1. Headers(L, h, f, w, FALSE) /\ Room(L, h, f, w, has)
  BY DEF Untaken, Bank
<1>2. h[e] = 1 /\ \A a \in L : h[a] # 0 /\ h[a] # 1
  BY <1>1 DEF Headers, Words
<1>3. /\ q \in Seq(Packets)
      /\ \A i \in 1 .. Len(q) : q[i].bank = b /\ q[i].at \in L
      /\ Look(h, r) = IF q = <<>> THEN e ELSE q[1].at
  BY DEF Chain
<1>4. q # <<>> => 1 \in 1 .. Len(q) /\ Head(q) = q[1]
  BY ONLY <1>3
<1>5. h[Look(h, r)] = 1 <=> q = <<>>
  BY <1>2, <1>3, <1>4
<1>6. ASSUME q = <<>>  PROVE Chain(b, q, L, h, e, Look(h, r))
  <2>1. Look(h, Look(h, r)) = Look(h, r)
    BY <1>2, <1>3, <1>6 DEF Look
  <2>2. QED  BY <2>1 DEF Chain
<1>7. ASSUME q # <<>>
      PROVE  Head(q) = Buffer(b, f) /\ Way(b, Tail(q), L, h, e, Follow(h, f), f, TRUE)
  <2>1. Look(h, r) = f
    BY <1>5, <1>7, TakeFound
  <2>2. q[1].at = f /\ q[1].bank = b /\ q[1] \in Packets /\ Head(q) = q[1]
    BY <1>3, <1>4, <1>7, <2>1
  <2>3. Head(q) = Buffer(b, f)
    BY <2>2 DEF Packets, Buffer
  <2>4. /\ Chain(b, Tail(q), L, h, e, Follow(h, q[1].at))
        /\ \A i \in 1 .. Len(Tail(q)) : Tail(q)[i].at # q[1].at
    <3>1. h[e] # 0 /\ \A a \in L : h[a] # 0
      BY <1>2
    <3>2. QED  BY ONLY <1>7, <3>1, Chain(b, q, L, h, e, r), ChainGot
  <2>5. QED  BY <2>2, <2>3, <2>4 DEF Way
<1>8. QED  BY <1>5, <1>6, <1>7 DEF Found

-----------------------------------------------------------------------------
(* The buffers do what mii_client.h promises *)

\* The reader's way through the bank b leads to the packets that it has not
\* got.
ReadInv(b) ==
  Way(b, unread[b], LiveAt(b), hdr[b], wrPtr[b] - 1, readPtr[b], freePtr[b], Taken(b))

\* The notification that the thread has not taken is the last one sent.
NotifyInv ==
  notification = IF notifyLast = notifySeen THEN <<>> ELSE <<notifyLast>>

\* Having found nothing in one bank, the thread has not missed a packet there:
\* it will be notified.
LookInv == upc = "get2" => notification # <<>> \/ unread[readBank] = <<>>

PacketsInv ==
  /\ unread \in [Banks -> Seq(Packets)]
  /\ \A b \in Banks : ReadInv(b)
  /\ NotifyInv /\ LookInv

\* The state, of a bank.
LEMMA BankState ==
  ASSUME LiteInv, NEW b \in Banks
  PROVE  /\ LiveAt(b) \in SUBSET Offsets /\ hdr[b] \in [Offsets -> Int]
         /\ freePtr[b] \in Offsets /\ wrPtr[b] \in Offsets /\ readPtr[b] \in Offsets
         /\ Bank(LiveAt(b), hdr[b], freePtr[b], wrPtr[b], readPtr[b],
                 Freeing(b), Taken(b), HasBuffer(b), Soon(b))
         /\ Freeing(b) \in BOOLEAN /\ Taken(b) \in BOOLEAN
         /\ HasBuffer(b) \in BOOLEAN /\ Soon(b) \in BOOLEAN
BY DEF LiteInv, TypeOK, LiveAt, BankInv, Freeing, Taken, HasBuffer, Soon

\* A place in a bank.
LEMMA BufferType ==
  ASSUME NEW b \in Banks, NEW a \in Offsets
  PROVE  Buffer(b, a) \in Packets /\ Buffer(b, a).bank = b /\ Buffer(b, a).at = a
BY DEF Buffer, Packets

\* The free pointer is outside the driver's buffer.
LEMMA FreeOutside ==
  ASSUME LiteInv, NEW b \in Banks
  PROVE  freePtr[b] < wrPtr[b] \/ (wrPtr[b] <= freePtr[b] /\ freePtr[b] <= freePtr[b])
<1>1. freePtr[b] \in Offsets /\ wrPtr[b] \in Offsets
  BY BankState
<1>2. QED  BY <1>1 DEF Offsets

\* A step that leaves a bank's packets and pointers alone, and stores outside
\* its packets, does not change the way.
LEMMA ReadAside ==
  ASSUME LiteInv, LiteInv', NEW b \in Banks, ReadInv(b),
         LiveAt(b)' = LiveAt(b), unread'[b] = unread[b], freePtr'[b] = freePtr[b],
         wrPtr'[b] = wrPtr[b], readPtr'[b] = readPtr[b],
         \A a \in Offsets : \/ a < wrPtr[b]
                            \/ wrPtr[b] <= freePtr[b] /\ freePtr[b] <= a
                            => hdr'[b][a] = hdr[b][a],
         Buffer(b, freePtr[b]) \in held' => Buffer(b, freePtr[b]) \in held
  PROVE  ReadInv(b)'
<1>0. PICK L \in SUBSET Offsets, h \in [Offsets -> Int], f \in Offsets, w \in Offsets,
           r \in Offsets :
        L = LiveAt(b) /\ h = hdr[b] /\ f = freePtr[b] /\ w = wrPtr[b] /\ r = readPtr[b]
  BY BankState
<1>1. PICK q, e, k : q = unread[b] /\ e = w - 1 /\ k = hdr'[b] /\ k \in [Offsets -> Int]
  <2>1. hdr'[b] \in [Offsets -> Int]
    BY DEF LiteInv, TypeOK
  <2>2. QED  BY <2>1
<1>2. Way(b, q, L, h, e, r, f, Taken(b))
  BY <1>0, <1>1 DEF ReadInv
<1>3. Bank(L, h, f, w, r, Freeing(b), Taken(b), HasBuffer(b), Soon(b)) /\ Taken(b) \in BOOLEAN
  BY <1>0, BankState
<1>4. Agree(h, k, f, w)
  BY <1>0, <1>1 DEF Agree
<1>5. SameWay(L, h, k, r)
  BY <1>1, <1>3, <1>4, AgreeSame
<1>6. Chain(b, q, L, k, e, r)
  BY <1>2, <1>5, ChainSame DEF Way
<1>7. Taken(b)' => Taken(b)
  <2>1. hdr'[b][f] = hdr[b][f]
    BY <1>0, FreeOutside
  <2>2. QED  BY <1>0, <2>1 DEF Taken
<1>8. Way(b, q, L, k, e, r, f, Taken(b)')
  BY <1>2, <1>6, <1>7 DEF Way
<1>9. QED  BY <1>0, <1>1, <1>8 DEF ReadInv

\* A rejected frame changes nothing for the thread.
LEMMA FrameBadPromise ==
  ASSUME LiteInv, LiteInv', PacketsInv, FrameBad
  PROVE  PacketsInv' /\ UNCHANGED Packet!packetVars
<1>1. /\ freePtr' = freePtr /\ wrPtr' = wrPtr /\ readPtr' = readPtr /\ readBank' = readBank
      /\ notifyLast' = notifyLast /\ notifySeen' = notifySeen /\ notification' = notification
      /\ upc' = upc /\ woken' = woken /\ held' = held /\ live' = live /\ unread' = unread
  BY DEF FrameBad, notifyVars, userVars
<1>2. ASSUME NEW b \in Banks  PROVE ReadInv(b)'
  <2>1. LiveAt(b)' = LiveAt(b)
    BY <1>1 DEF LiveAt
  <2>2. ReadInv(b)
    BY DEF PacketsInv
  <2>3. QED  BY <1>1, <2>1, <2>2, FrameBadStores, ReadAside
<1>3. NotifyInv' /\ LookInv'
  BY <1>1 DEF PacketsInv, NotifyInv, LookInv
<1>4. UNCHANGED Packet!packetVars
  BY <1>1 DEF Packet!packetVars
<1>5. QED  BY <1>1, <1>2, <1>3, <1>4 DEF PacketsInv

\* A notification is taken.
LEMMA NotifiedPromise ==
  ASSUME LiteInv, LiteInv', PacketsInv, mii_notified
  PROVE  PacketsInv' /\ Packet!mii_notified
<1>1. /\ freePtr' = freePtr /\ wrPtr' = wrPtr /\ readPtr' = readPtr /\ hdr' = hdr
      /\ notifyLast' = notifyLast /\ upc = "idle" /\ upc' = upc /\ held' = held
      /\ live' = live /\ unread' = unread /\ woken' = TRUE
      /\ notification # <<>> /\ notifySeen' = Head(notification)
      /\ notification' = Tail(notification)
  BY DEF mii_notified, pointerVars
<1>2. ASSUME NEW b \in Banks  PROVE ReadInv(b)'
  <2>1. LiveAt(b)' = LiveAt(b)
    BY <1>1 DEF LiveAt
  <2>2. ReadInv(b)
    BY DEF PacketsInv
  <2>3. QED  BY <1>1, <2>1, <2>2, ReadAside
<1>3. notification = <<notifyLast>>
  BY <1>1 DEF PacketsInv, NotifyInv
<1>4. notification' = <<>> /\ notifySeen' = notifyLast
  BY <1>1, <1>3
<1>5. NotifyInv' /\ LookInv'
  BY <1>1, <1>4 DEF NotifyInv, LookInv
<1>6. Packet!mii_notified
  BY <1>1, <1>4 DEF Packet!mii_notified
<1>7. QED  BY <1>1, <1>2, <1>5, <1>6 DEF PacketsInv

\* mii_free_in_buffer gives back the packet that the thread has.
LEMMA FreeInPromise ==
  ASSUME LiteInv, LiteInv', PacketsInv, mii_free_in_buffer
  PROVE  PacketsInv' /\ \E x \in Packet!Places : Packet!mii_free_in_buffer(x)
<1>1. PICK b \in Banks, c \in Banks :
        upc = "idle" /\ held = {Buffer(b, freePtr[b])} /\ c # b /\ Banks = {b, c}
  BY DEF LiteInv, HeldInv, mii_free_in_buffer, Banks
<1>2. PICK L \in SUBSET Offsets, h \in [Offsets -> Int], f \in Offsets, w \in Offsets,
           r \in Offsets :
        L = LiveAt(b) /\ h = hdr[b] /\ f = freePtr[b] /\ w = wrPtr[b] /\ r = readPtr[b]
  BY BankState
<1>3. PICK x \in Packets : x = Buffer(b, f) /\ x.bank = b /\ x.at = f
  BY BufferType
<1>4. /\ hdr' = [hdr EXCEPT ![b][f] = -h[f]] /\ held' = held \ {x}
      /\ upc' = "free" /\ freePtr' = freePtr /\ wrPtr' = wrPtr
      /\ readPtr' = readPtr /\ readBank' = readBank
      /\ notifyLast' = notifyLast /\ notifySeen' = notifySeen /\ notification' = notification
      /\ woken' = woken /\ live' = live /\ unread' = unread
  <2>1. PICK y \in held : /\ hdr' = [hdr EXCEPT ![y.bank][y.at] = -@]
                          /\ held' = held \ {y}
    BY DEF mii_free_in_buffer
  <2>2. y = x
    BY <1>1, <1>2, <1>3
  <2>3. hdr' = [hdr EXCEPT ![b][f] = -h[f]]
    BY <1>2, <1>3, <2>1, <2>2
  <2>4. QED  BY <2>1, <2>2, <2>3 DEF mii_free_in_buffer, notifyVars
<1>5. /\ hdr'[c] = hdr[c] /\ hdr'[b] \in [Offsets -> Int] /\ hdr'[b][f] = -h[f]
      /\ \A a \in Offsets : a # f => hdr'[b][a] = h[a]
  <2>1. hdr \in [Banks -> [Offsets -> Int]]
    BY DEF LiteInv, TypeOK
  <2>2. -h[f] \in Int
    BY <1>2
  <2>3. QED  BY <1>1, <1>2, <1>4, <2>1, <2>2
<1>6. Taken(b) = TRUE /\ Freeing(b) = FALSE
  BY <1>1 DEF Taken, Freeing
<1>7. ReadInv(b)'
  <2>1. PICK k \in [Offsets -> Int] : k = hdr'[b]
    BY <1>5
  <2>2. PICK q, e : q = unread[b] /\ e = w - 1
    OBVIOUS
  <2>3. Bank(L, h, f, w, r, FALSE, TRUE, HasBuffer(b), Soon(b))
    BY <1>2, <1>6, BankState
  <2>4. MarkStep(L, h, k, f, w, r, HasBuffer(b), Soon(b))
    BY <1>5, <2>1, <2>3 DEF MarkStep
  <2>5. SameWay(L, h, k, r)
    BY <2>4, MarkSame
  <2>6. Chain(b, q, L, h, e, r) /\ \A i \in 1 .. Len(q) : q[i].at # f
    BY <1>2, <1>6, <2>2 DEF PacketsInv, ReadInv, Way
  <2>7. Chain(b, q, L, k, e, r)
    BY <2>5, <2>6, ChainSame
  <2>8. Way(b, q, L, k, e, r, f, Taken(b)')
    BY <2>6, <2>7 DEF Way
  <2>9. /\ LiveAt(b)' = L /\ hdr'[b] = k /\ freePtr'[b] = f /\ wrPtr'[b] = w
        /\ readPtr'[b] = r /\ unread'[b] = q
    BY <1>2, <1>4, <2>1, <2>2 DEF LiveAt
  <2>10. QED  BY <2>2, <2>8, <2>9 DEF ReadInv
<1>8. ReadInv(c)'
  <2>1. LiveAt(c)' = LiveAt(c) /\ ReadInv(c)
    BY <1>4 DEF LiveAt, PacketsInv
  <2>2. QED  BY <1>4, <1>5, <2>1, ReadAside
<1>9. NotifyInv' /\ LookInv'
  BY <1>4 DEF PacketsInv, NotifyInv, LookInv
<1>10. PacketsInv'
  BY <1>1, <1>4, <1>7, <1>8, <1>9 DEF PacketsInv
<1>11. x \in held
  BY <1>1, <1>2, <1>3
<1>12. Packet!mii_free_in_buffer(x) /\ x \in Packet!Places
  BY <1>4, <1>11 DEF Packet!mii_free_in_buffer, Packet!Places, Packets
<1>13. QED  BY <1>10, <1>12

\* mii_get_in_buffer returns the first packet of a bank, or finds none.
LEMMA GetPromise ==
  ASSUME LiteInv, LiteInv', PacketsInv, mii_get_in_buffer, MaxHeld = 1
  PROVE  /\ PacketsInv'
         /\ \/ \E x \in Packet!Places : Packet!Get(x)
            \/ Packet!GetNone \/ UNCHANGED Packet!packetVars
<1>1. PICK b \in Banks, c \in Banks :
        b = 1 - readBank /\ c = readBank /\ c # b /\ Banks = {b, c}
  BY DEF LiteInv, TypeOK, Banks
<1>2. PICK L \in SUBSET Offsets, h \in [Offsets -> Int], f \in Offsets, w \in Offsets,
           r \in Offsets :
        L = LiveAt(b) /\ h = hdr[b] /\ f = freePtr[b] /\ w = wrPtr[b] /\ r = readPtr[b]
  BY BankState
<1>3. /\ upc \in {"idle", "get2"} /\ held = {} /\ ~Taken(b)
      /\ Untaken(L, h, f, w, r, HasBuffer(b), Soon(b))
      /\ GotOne(b, L, h, f, w, r) \/ GotNone(b, L, h, f, w, r)
  BY <1>1, <1>2, GetFinds
<1>4. /\ freePtr' = freePtr /\ wrPtr' = wrPtr /\ hdr' = hdr /\ live' = live /\ readBank' = b
      /\ notifyLast' = notifyLast /\ notifySeen' = notifySeen /\ notification' = notification
  BY <1>1 DEF mii_get_in_buffer, notifyVars
<1>5. PICK q, e : q = unread[b] /\ e = w - 1
  OBVIOUS
<1>6. /\ unread \in [Banks -> Seq(Packets)] /\ readPtr \in [Banks -> Offsets]
      /\ woken \in BOOLEAN /\ Chain(b, q, L, h, e, r) /\ q \in Seq(Packets)
  BY <1>2, <1>5 DEF PacketsInv, LiteInv, TypeOK, ReadInv, Way
<1>7. /\ h[Look(h, r)] = 1 => q = <<>> /\ Chain(b, q, L, h, e, Look(h, r))
      /\ h[Look(h, r)] # 1 => /\ q # <<>> /\ Head(q) = Buffer(b, f)
                              /\ Way(b, Tail(q), L, h, e, Follow(h, f), f, TRUE)
  <2>1. HasBuffer(b) \in BOOLEAN /\ Soon(b) \in BOOLEAN
    BY BankState
  <2>2. Looking(b, q, L, h, f, w, r, HasBuffer(b), Soon(b), e)
    BY <1>3, <1>5, <1>6 DEF Looking
  <2>3. Found(b, q, L, h, f, r, e)
    BY ONLY L \in SUBSET Offsets, <2>1, <2>2, WayFound
  <2>4. QED  BY ONLY <2>3 DEF Found
<1>8. /\ LiveAt(b)' = L /\ hdr'[b] = h /\ freePtr'[b] = f /\ wrPtr'[b] = w
  BY <1>2, <1>4 DEF LiveAt
<1>9. ReadInv(c)'
  <2>1. LiveAt(c)' = LiveAt(c) /\ ReadInv(c)
    BY <1>4 DEF LiveAt, PacketsInv
  <2>2. readPtr'[c] = readPtr[c] /\ unread'[c] = unread[c]
    BY <1>1, <1>3, <1>6 DEF GotOne, GotNone
  <2>3. Buffer(c, freePtr[c]) \notin held'
    BY <1>1, <1>3 DEF GotOne, GotNone, Buffer
  <2>4. QED  BY <1>4, <2>1, <2>2, <2>3, ReadAside
<1>10. NotifyInv'
  BY <1>4 DEF PacketsInv, NotifyInv
<1>11. CASE GotOne(b, L, h, f, w, r)
  <2>1. /\ h[Look(h, r)] # 1 /\ readPtr' = [readPtr EXCEPT ![b] = Follow(h, f)]
        /\ held' = {Buffer(b, f)} /\ upc' = "idle" /\ woken' = woken
        /\ unread' = [unread EXCEPT ![b] = Tail(@)]
    BY <1>11 DEF GotOne
  <2>2. /\ q # <<>> /\ Head(q) = Buffer(b, f)
        /\ Way(b, Tail(q), L, h, e, Follow(h, f), f, TRUE)
    BY <1>7, <2>1
  <2>3. readPtr'[b] = Follow(h, f) /\ unread'[b] = Tail(q)
    BY <1>5, <1>6, <2>1
  <2>4. ReadInv(b)'
    <3>1. Taken(b)' = TRUE
      BY <1>8, <2>1 DEF Taken
    <3>2. QED  BY <1>5, <1>8, <2>2, <2>3, <3>1 DEF ReadInv
  <2>5. unread' \in [Banks -> Seq(Packets)]
    <3>1. Tail(q) \in Seq(Packets)
      BY ONLY <1>6, <2>2
    <3>2. QED  BY <1>5, <1>6, <2>1, <3>1
  <2>6. LookInv'
    BY <2>1 DEF LookInv
  <2>7. PICK x \in Packets : x = Buffer(b, f) /\ x.bank = b
    BY BufferType
  <2>8. Packet!Get(x) /\ x \in Packet!Places
    BY <1>3, <1>4, <1>5, <2>1, <2>2, <2>7 DEF Packet!Get, Packet!Places, Packets
  <2>9. QED  BY <1>1, <1>9, <1>10, <2>4, <2>5, <2>6, <2>8 DEF PacketsInv
<1>12. CASE GotNone(b, L, h, f, w, r)
  <2>1. /\ h[Look(h, r)] = 1 /\ readPtr' = [readPtr EXCEPT ![b] = Look(h, r)]
        /\ held' = {} /\ upc' = (IF upc = "idle" THEN "get2" ELSE "idle")
        /\ woken' = (woken /\ upc = "idle") /\ unread' = unread
    BY <1>12 DEF GotNone
  <2>2. q = <<>> /\ Chain(b, q, L, h, e, Look(h, r))
    BY <1>7, <2>1
  <2>3. readPtr'[b] = Look(h, r) /\ unread'[b] = q
    BY <1>5, <1>6, <2>1
  <2>4. ReadInv(b)'
    <3>1. \A i \in 1 .. Len(q) : q[i].at # f
      BY <2>2
    <3>2. Way(b, q, L, h, e, Look(h, r), f, Taken(b)')
      BY <2>2, <3>1 DEF Way
    <3>3. QED  BY <1>5, <1>8, <2>3, <3>2 DEF ReadInv
  <2>5. LookInv'
    BY <1>4, <1>5, <2>1, <2>2 DEF LookInv
  <2>6. PacketsInv'
    BY <1>1, <1>6, <1>9, <1>10, <2>1, <2>4, <2>5 DEF PacketsInv
  <2>7. CASE upc = "idle"
    <3>1. UNCHANGED Packet!packetVars
      BY <1>3, <1>4, <1>6, <2>1, <2>7 DEF Packet!packetVars
    <3>2. QED  BY <2>6, <3>1
  <2>8. CASE upc = "get2"
    <3>1. notification # <<>> \/ unread[c] = <<>>
      BY <1>1, <2>8 DEF PacketsInv, LookInv
    <3>2. Packet!GetNone
      BY <1>1, <1>3, <1>4, <1>5, <2>1, <2>2, <2>8, <3>1 DEF Packet!GetNone
    <3>3. QED  BY <2>6, <3>2
  <2>9. QED  BY <1>3, <2>7, <2>8
<1>13. QED  BY <1>3, <1>11, <1>12

\* The free pointer moves: the thread sees nothing of that.
LEMMA LoopPromise ==
  ASSUME LiteInv, LiteInv', PacketsInv, FreeLoop
  PROVE  PacketsInv' /\ UNCHANGED Packet!packetVars
<1>1. PICK b \in Banks, c \in Banks : b = ubank /\ c # b /\ Banks = {b, c}
  BY DEF LiteInv, TypeOK, Banks
<1>2. /\ wrPtr' = wrPtr /\ readPtr' = readPtr /\ hdr' = hdr /\ readBank' = readBank
      /\ notifyLast' = notifyLast /\ notifySeen' = notifySeen /\ notification' = notification
      /\ upc = "free" /\ upc' # "get2" /\ woken' = woken /\ held' = held /\ unread' = unread
  BY DEF FreeLoop, notifyVars
<1>3. \A d \in Banks : ReadInv(d)
  BY DEF PacketsInv
<1>4. \A d \in Banks : ReadInv(d)'
  <2>1. CASE hdr[b][freePtr[b]] > 0
    <3>1. freePtr' = freePtr /\ live' = live
      BY <1>1, <2>1 DEF FreeLoop
    <3>2. ASSUME NEW d \in Banks  PROVE ReadInv(d)'
      <4>1. LiveAt(d)' = LiveAt(d)
        BY <3>1 DEF LiveAt
      <4>2. QED  BY <1>2, <1>3, <3>1, <4>1, ReadAside
    <3>3. QED  BY <3>2
  <2>2. CASE ~(hdr[b][freePtr[b]] > 0)
    <3>1. /\ freePtr' = [freePtr EXCEPT ![b] = FreeNext(b)]
          /\ live' = live \ {Buffer(b, freePtr[b])}
      BY <1>1, <2>2 DEF FreeLoop
    <3>2. ReadInv(b)'
      <4>1. PICK q, e : q = unread[b] /\ e = wrPtr[b] - 1
        OBVIOUS
      <4>2. Way(b, q, LiveAt(b), hdr[b], e, readPtr[b], freePtr[b], Taken(b))
        BY <1>3, <4>1 DEF ReadInv
      <4>3. /\ ~Taken(b)' /\ LiveAt(b)' = LiveAt(b) \ {freePtr[b]}
            /\ hdr[b][freePtr[b]] < 0 \/ freePtr[b] \notin LiveAt(b)
        BY <1>1, <2>2, LoopStepKeeps
      <4>4. Chain(b, q, LiveAt(b) \ {freePtr[b]}, hdr[b], e, readPtr[b])
        <5>1. CASE hdr[b][freePtr[b]] < 0
          <6>1. \A i \in 1 .. Len(q) : q[i].at # freePtr[b]
            BY <4>2, <5>1 DEF Way, Taken
          <6>2. QED  BY <4>2, <6>1, ChainFreed DEF Way
        <5>2. CASE freePtr[b] \notin LiveAt(b)
          <6>1. LiveAt(b) \ {freePtr[b]} = LiveAt(b)
            BY <5>2
          <6>2. QED  BY <4>2, <6>1 DEF Way
        <5>3. QED  BY <4>3, <5>1, <5>2
      <4>5. Way(b, q, LiveAt(b) \ {freePtr[b]}, hdr[b], e, readPtr[b], freePtr'[b], Taken(b)')
        BY <4>3, <4>4 DEF Way
      <4>6. QED  BY <1>2, <4>1, <4>3, <4>5 DEF ReadInv
    <3>3. ReadInv(c)'
      <4>1. LiveAt(c)' = LiveAt(c)
        BY <1>1, <3>1 DEF LiveAt, Buffer
      <4>2. freePtr'[c] = freePtr[c]
        BY <1>1, <3>1 DEF LiteInv, TypeOK
      <4>3. QED  BY <1>2, <1>3, <4>1, <4>2, ReadAside
    <3>4. QED  BY <1>1, <3>2, <3>3
  <2>3. QED  BY <2>1, <2>2
<1>5. NotifyInv' /\ LookInv'
  BY <1>2 DEF PacketsInv, NotifyInv, LookInv
<1>6. UNCHANGED Packet!packetVars
  BY <1>2 DEF Packet!packetVars
<1>7. QED  BY <1>2, <1>4, <1>5, <1>6 DEF PacketsInv

\* Reception starts again, perhaps at the head of the bank: the thread sees
\* nothing of that.
LEMMA RestartPromise ==
  ASSUME LiteInv, LiteInv', PacketsInv, mii_restart_buffer
  PROVE  PacketsInv' /\ UNCHANGED Packet!packetVars
<1>1. PICK b \in Banks, c \in Banks : b = refillBankNumber /\ c # b /\ Banks = {b, c}
  BY DEF LiteInv, TypeOK, Banks
<1>2. /\ freePtr' = freePtr /\ readPtr' = readPtr /\ readBank' = readBank
      /\ notifyLast' = notifyLast /\ notifySeen' = notifySeen /\ notification' = notification
      /\ upc = "restart" /\ upc' = "idle" /\ woken' = woken /\ held' = held /\ live' = live
      /\ unread' = unread
  BY DEF mii_restart_buffer, notifyVars
<1>3. \A d \in Banks : ReadInv(d) /\ LiveAt(d)' = LiveAt(d)
  BY <1>2 DEF PacketsInv, LiveAt
<1>4. \A d \in Banks : ReadInv(d)'
  <2>1. CASE nextBuffer = None /\ Wraps(b, wrPtr[b])
    <3>1. /\ wrPtr' = [wrPtr EXCEPT ![b] = 1] /\ hdr'[c] = hdr[c]
          /\ hdr' \in [Banks -> [Offsets -> Int]]
          /\ RestartWrapStep(LiveAt(b), hdr[b], hdr'[b], freePtr[b], wrPtr[b], readPtr[b],
                             HasBuffer(b)', Soon(b))
      BY <1>1, <2>1, RestartStores
    <3>2. wrPtr'[b] = 1 /\ wrPtr'[c] = wrPtr[c]
      BY <1>1, <3>1 DEF LiteInv, TypeOK
    <3>3. ReadInv(b)'
      <4>1. PICK L \in SUBSET Offsets, h \in [Offsets -> Int], f \in Offsets,
                 w \in Offsets, r \in Offsets :
              /\ L = LiveAt(b) /\ h = hdr[b] /\ f = freePtr[b] /\ w = wrPtr[b]
              /\ r = readPtr[b]
        BY BankState
      <4>2. PICK q, e, k : q = unread[b] /\ e = w - 1 /\ k = hdr'[b] /\ k \in [Offsets -> Int]
        BY <3>1
      <4>3. Way(b, q, L, h, e, r, f, Taken(b))
        BY <1>3, <4>1, <4>2 DEF ReadInv
      <4>4. RestartWrapStep(L, h, k, f, w, r, HasBuffer(b)', Soon(b))
        BY <3>1, <4>1, <4>2
      <4>5. Chain(b, q, L, k, 0, r)
        BY <4>2, <4>3, <4>4, WayRestart DEF Way
      <4>6. Taken(b)' = FALSE
        <5>1. held = {}
          BY <1>2, HeldNone
        <5>2. Started(L, k, f, 1, r, HasBuffer(b)', Soon(b))
          <6>1. HasBuffer(b)' \in BOOLEAN /\ Soon(b) \in BOOLEAN
            BY DEF HasBuffer, Soon
          <6>2. QED  BY ONLY <4>2, <4>4, <6>1, RestartWrap
        <5>3. ~(k[f] < 0)
          BY <5>2 DEF Started, Bank, Headers, Room, Linear, Wrapped
        <5>4. QED  BY <1>2, <4>1, <4>2, <5>1, <5>3 DEF Taken
      <4>7. Way(b, q, L, k, 0, r, f, Taken(b)')
        BY <4>5, <4>6 DEF Way
      <4>8. wrPtr'[b] - 1 = 0
        BY <3>2
      <4>9. QED  BY <1>2, <1>3, <4>1, <4>2, <4>7, <4>8 DEF ReadInv
    <3>4. ReadInv(c)'
      BY <1>2, <1>3, <3>1, <3>2, ReadAside
    <3>5. QED  BY <1>1, <3>3, <3>4
  <2>2. CASE ~(nextBuffer = None /\ Wraps(b, wrPtr[b]))
    <3>1. hdr' = hdr /\ wrPtr' = wrPtr
      <4>1. wrPtr \in [Banks -> Offsets]
        BY DEF LiteInv, TypeOK
      <4>2. QED  BY <1>1, <2>2, <4>1 DEF mii_restart_buffer
    <3>2. QED  BY <1>2, <1>3, <3>1, ReadAside
  <2>3. QED  BY <2>1, <2>2
<1>5. NotifyInv' /\ LookInv'
  BY <1>2 DEF PacketsInv, NotifyInv, LookInv
<1>6. UNCHANGED Packet!packetVars
  BY <1>2 DEF Packet!packetVars
<1>7. QED  BY <1>2, <1>4, <1>5, <1>6 DEF PacketsInv

\* What the thread is told of a kept frame.
LEMMA NotifyKept ==
  ASSUME NotifyInv, miiNotify, notifySeen' = notifySeen, notifyLast \in BOOLEAN,
         notifySeen \in BOOLEAN
  PROVE  NotifyInv' /\ notification' # <<>>
<1>1. CASE notifyLast = notifySeen
  <2>1. notification = <<>> /\ notifyLast' = ~notifyLast
        /\ notification' = Append(notification, ~notifyLast)
    BY <1>1 DEF NotifyInv, miiNotify
  <2>2. notification' = <<notifyLast'>>
    BY <2>1
  <2>3. notifyLast' # notifySeen
    BY <1>1, <2>1
  <2>4. QED  BY <2>2, <2>3 DEF NotifyInv
<1>2. CASE notifyLast # notifySeen
  <2>1. notification = <<notifyLast>> /\ notifyLast' = notifyLast
        /\ notification' = notification
    BY <1>2 DEF NotifyInv, miiNotify
  <2>2. QED  BY <1>2, <2>1 DEF NotifyInv
<1>3. QED  BY <1>1, <1>2

\* A kept frame is one more packet, behind those of its bank, and the thread
\* is told.
LEMMA FrameGoodPromise ==
  ASSUME LiteInv, LiteInv', PacketsInv, FrameGood, MaxEnds <= 2
  PROVE  PacketsInv' /\ Packet!Arrive
<1>1. /\ nextBuffer # None /\ Interrupt /\ packetInLLD' = nextBuffer
      /\ notifySeen' = notifySeen /\ upc' = upc /\ ubank' = ubank /\ woken' = woken
      /\ held' = held
  BY DEF FrameGood, userVars
<1>2. PICK b \in Banks, o \in Banks : b = packetInLLD.bank /\ o = nextBuffer.bank
  BY <1>1, BuffersOutside
<1>3. PICK n \in Lens : miiCommitBuffer(b, n)
  BY <1>2 DEF FrameGood
<1>4. o # b /\ Banks = {o, b}
  BY <1>1, <1>2, BuffersOutside DEF Banks
<1>5. PICK L \in SUBSET Offsets, h \in [Offsets -> Int], f \in Offsets, w \in Offsets,
           r \in Offsets :
        L = LiveAt(b) /\ h = hdr[b] /\ f = freePtr[b] /\ w = wrPtr[b] /\ r = readPtr[b]
  BY BankState
<1>6. PICK q, e, k, d : q = unread[b] /\ e = w - 1 /\ k = hdr'[b] /\ d = wrPtr'[b] - 1
  OBVIOUS
<1>7. /\ freePtr' = freePtr /\ readPtr' = readPtr /\ readBank' = readBank
      /\ live' = live \cup {Buffer(b, e)} /\ miiNotify
      /\ unread' = [unread EXCEPT ![b] = Append(@, Buffer(b, e))]
  BY <1>3, <1>5, <1>6 DEF miiCommitBuffer
<1>8. /\ e \in Offsets /\ wrPtr'[b] \in Offsets
      /\ LiveAt(b)' = L \cup {e} /\ Taken(b)' = Taken(b) /\ Kept(b, n)
  BY <1>1, <1>2, <1>3, <1>5, <1>6, CommitBank
<1>9. /\ unread \in [Banks -> Seq(Packets)] /\ Way(b, q, L, h, e, r, f, Taken(b))
      /\ k \in [Offsets -> Int] /\ q \in Seq(Packets)
  BY <1>5, <1>6 DEF PacketsInv, ReadInv, LiteInv, TypeOK
<1>10. /\ Taken(b) \in BOOLEAN /\ Freeing(b) \in BOOLEAN /\ Soon(b) \in BOOLEAN
       /\ Bank(L, h, f, w, r, Freeing(b), Taken(b), HasBuffer(b), Soon(b))
  BY <1>5, BankState
<1>11. e \notin L /\ (Taken(b) => f \in L)
  <2>1. Headers(L, h, f, w, Freeing(b)) /\ Room(L, h, f, w, HasBuffer(b))
    BY <1>10 DEF Bank
  <2>2. w - 1 \notin L
    BY <2>1, NextInside
  <2>3. QED  BY <1>6, <1>10, <2>2 DEF Bank, Read
<1>12. PICK x \in Packets : x = Buffer(b, e) /\ x.bank = b /\ x.at = e
  BY <1>8, BufferType
<1>13. Way(b, Append(q, x), L \cup {e}, k, d, r, f, Taken(b))
  <2>1. CASE /\ wrPtr'[b] = 1
             /\ WrapStep(L, h, k, f, w, r, Freeing(b), Taken(b), HasBuffer(b)', Soon(b), n)
    <3>1. d = 0
      BY <1>6, <2>1
    <3>2. WrapWay(b, q, L, h, k, f, w, r, Freeing(b), Taken(b), HasBuffer(b)', Soon(b),
                  n, e, d)
      BY <1>6, <1>9, <1>10, <2>1, <3>1 DEF WrapWay
    <3>3. Longer(b, q, L, k, d, r, f, Taken(b), e)
      BY ONLY L \in SUBSET Offsets, <1>9, <1>10, <3>2, WayWrap
    <3>4. QED  BY <1>12, <3>3 DEF Longer
  <2>2. CASE PlainStep(L, h, k, f, w, wrPtr'[b], r, Freeing(b), Taken(b), HasBuffer(b)',
                       Soon(b), Soon(b)', n)
    <3>1. PICK v \in Offsets : v = wrPtr'[b]
      BY <1>8
    <3>2. PlainWay(b, q, L, h, k, f, w, v, r, Freeing(b), Taken(b), HasBuffer(b)',
                   Soon(b), Soon(b)', n, e, d)
      BY <1>6, <1>9, <2>2, <3>1 DEF PlainWay
    <3>3. Longer(b, q, L, k, d, r, f, Taken(b), e)
      BY ONLY L \in SUBSET Offsets, <1>9, <1>10, <3>2, WayPlain
    <3>4. QED  BY <1>12, <3>3 DEF Longer
  <2>3. QED  BY <1>5, <1>6, <1>8, <2>1, <2>2 DEF Kept
<1>14. ReadInv(b)'
  <2>1. unread'[b] = Append(q, x)
    BY <1>6, <1>7, <1>9, <1>12
  <2>2. QED  BY <1>5, <1>6, <1>7, <1>8, <1>13, <2>1 DEF ReadInv
<1>15. ReadInv(o)'
  <2>1. LiveAt(o)' = LiveAt(o) /\ ReadInv(o)
    BY <1>4, <1>7 DEF LiveAt, Buffer, PacketsInv
  <2>2. unread'[o] = unread[o] /\ wrPtr'[o] = wrPtr[o]
    <3>1. wrPtr \in [Banks -> Offsets] /\ wrPtr' = [wrPtr EXCEPT ![b] = wrPtr'[b]]
      BY <1>3 DEF miiCommitBuffer, LiteInv, TypeOK
    <3>2. QED  BY <1>4, <1>7, <1>9, <3>1
  <2>3. \A a \in Offsets : a < nextBuffer.at \/ nextBuffer.at + MAXPACKET <= a =>
          hdr'[o][a] = hdr[o][a]
    BY <1>1, <1>2, <1>3, <1>5, CommitStores
  <2>4. \A a \in Offsets : a < wrPtr[o] \/ (wrPtr[o] <= freePtr[o] /\ freePtr[o] <= a)
          => hdr'[o][a] = hdr[o][a]
    BY <1>1, <1>2, <2>3, OutsideBuffer
  <2>5. QED  BY <1>1, <1>7, <2>1, <2>2, <2>4, ReadAside
<1>16. NotifyInv' /\ notification' # <<>>
  <2>1. NotifyInv /\ notifyLast \in BOOLEAN /\ notifySeen \in BOOLEAN
    BY DEF PacketsInv, LiteInv, TypeOK
  <2>2. QED  BY <1>1, <1>7, <2>1, NotifyKept
<1>17. unread' \in [Banks -> Seq(Packets)]
  <2>1. Append(q, x) \in Seq(Packets)
    BY <1>9, <1>12
  <2>2. QED  BY <1>6, <1>7, <1>9, <1>12, <2>1
<1>18. PacketsInv'
  BY <1>4, <1>14, <1>15, <1>16, <1>17 DEF PacketsInv, LookInv
<1>19. x \notin held
  <2>1. SUFFICES ASSUME x \in held  PROVE FALSE
    OBVIOUS
  <2>2. PICK c \in Banks : held = {Buffer(c, freePtr[c])}
    BY <2>1 DEF LiteInv, HeldInv
  <2>3. c = b /\ f = e
    BY <1>5, <1>12, <2>1, <2>2 DEF Buffer
  <2>4. Taken(b)
    BY <2>2, <2>3 DEF Taken
  <2>5. QED  BY <1>11, <2>3, <2>4
<1>20. x \notin Packet!Queued(b)
  <2>1. \A i \in 1 .. Len(q) : q[i].at \in L
    BY <1>9 DEF Way, Chain
  <2>2. QED  BY <1>6, <1>11, <1>12, <2>1 DEF Packet!Queued
<1>21. Packet!Arrive
  <2>1. unread' = [unread EXCEPT ![x.bank] = Append(@, x)]
    BY <1>7, <1>12
  <2>2. x \in Packet!Places
    BY DEF Packet!Places, Packets
  <2>3. QED  BY <1>1, <1>12, <1>16, <1>19, <1>20, <2>1, <2>2 DEF Packet!Arrive
<1>22. QED  BY <1>18, <1>21

\* At first there are no packets.
LEMMA PromiseInit ==
  ASSUME Init, LiteInv
  PROVE  PacketsInv /\ Packet!mii_buffer_init
<1>1. /\ unread = [b \in Banks |-> <<>>] /\ held = {} /\ woken = FALSE /\ live = {}
      /\ notification = <<>> /\ notifyLast = notifySeen /\ upc = "idle"
      /\ readPtr = [b \in Banks |-> 0] /\ wrPtr = [b \in Banks |-> 1]
  BY DEF Init
<1>2. ASSUME NEW b \in Banks  PROVE ReadInv(b)
  <2>1. PICK q : q = unread[b]
    OBVIOUS
  <2>2. q = <<>> /\ q \in Seq(Packets) /\ Len(q) = 0 /\ 1 .. Len(q) = {}
    BY <1>1, <2>1
  <2>3. PICK h : h = hdr[b]
    OBVIOUS
  <2>4. h[0] = 1
    <3>1. wrPtr[b] = 1 /\ 1 - 1 = 0
      BY <1>1
    <3>2. h[wrPtr[b] - 1] = 1
      BY <2>3, BankState DEF Bank, Headers
    <3>3. QED  BY <3>1, <3>2
  <2>5. Look(h, 0) = 0
    BY DEF Look
  <2>6. Chain(b, q, LiveAt(b), h, 0, 0)
    BY <2>2, <2>5 DEF Chain
  <2>7. Way(b, q, LiveAt(b), h, 0, 0, freePtr[b], Taken(b))
    BY <2>2, <2>6 DEF Way
  <2>8. wrPtr[b] - 1 = 0 /\ readPtr[b] = 0
    BY <1>1
  <2>9. QED  BY <2>1, <2>3, <2>7, <2>8 DEF ReadInv
<1>3. unread \in [Banks -> Seq(Packets)]
  <2>1. <<>> \in Seq(Packets)
    OBVIOUS
  <2>2. QED  BY <1>1, <2>1
<1>4. PacketsInv
  BY <1>1, <1>2, <1>3 DEF PacketsInv, NotifyInv, LookInv
<1>5. Packet!mii_buffer_init
  BY <1>1 DEF Packet!mii_buffer_init
<1>6. QED  BY <1>4, <1>5

\* Every step is a step of LitePackets, or changes nothing there.
LEMMA PromiseNext ==
  ASSUME OnePacket, LiteInv, LiteInv', PacketsInv, [Next]_vars
  PROVE  PacketsInv' /\ [Packet!PacketNext]_(Packet!packetVars)
<1>1. MaxHeld = 1 /\ MaxEnds <= 2
  BY DEF OnePacket
<1>2. CASE FrameGood
  BY <1>1, <1>2, FrameGoodPromise DEF Packet!PacketNext
<1>3. CASE FrameBad
  BY <1>3, FrameBadPromise
<1>4. CASE mii_notified
  BY <1>4, NotifiedPromise DEF Packet!PacketNext
<1>5. CASE mii_get_in_buffer
  BY <1>1, <1>5, GetPromise DEF Packet!PacketNext
<1>6. CASE mii_free_in_buffer
  BY <1>6, FreeInPromise DEF Packet!PacketNext
<1>7. CASE FreeLoop
  BY <1>7, LoopPromise
<1>8. CASE mii_restart_buffer
  BY <1>8, RestartPromise
<1>9. CASE UNCHANGED vars
  <2>1. UNCHANGED <<freePtr, wrPtr, readPtr, readBank, hdr, notifyLast, notifySeen,
                    notification, upc, woken, held, live, unread>>
    BY <1>9 DEF vars, pointerVars, notifyVars, userVars
  <2>2. ASSUME NEW b \in Banks  PROVE ReadInv(b)'
    BY <2>1 DEF PacketsInv, ReadInv, LiveAt, Taken
  <2>3. NotifyInv' /\ LookInv'
    BY <2>1 DEF PacketsInv, NotifyInv, LookInv
  <2>4. UNCHANGED Packet!packetVars
    BY <2>1 DEF Packet!packetVars
  <2>5. QED  BY <2>1, <2>2, <2>3, <2>4 DEF PacketsInv
<1>10. QED
  BY <1>2, <1>3, <1>4, <1>5, <1>6, <1>7, <1>8, <1>9 DEF Next, User

\* The banks implement what mii_client.h promises: whatever the interrupt
\* handler, mii_free_in_buffer and mii_restart_buffer store in the headers
\* meanwhile, mii_get_in_buffer returns the packets of a bank in the order in
\* which they arrived, each of them once, and it finds none only if there is
\* none or a notification is there.
THEOREM MiiLiteImplementsPackets ==
  OnePacket => (Spec => Packet!SafeSpec)
<1>1. SUFFICES ASSUME OnePacket  PROVE Spec => Packet!SafeSpec
  OBVIOUS
<1>2. Spec => []LiteInv
  BY <1>1, InvAlways
<1>3. Init => LiteInv
  BY InvInit
<1>4. Init /\ LiteInv => PacketsInv /\ Packet!mii_buffer_init
  BY PromiseInit
<1>5. LiteInv /\ LiteInv' /\ PacketsInv /\ [Next]_vars =>
        PacketsInv' /\ [Packet!PacketNext]_(Packet!packetVars)
  BY <1>1, PromiseNext
<1>6. QED  BY <1>2, <1>3, <1>4, <1>5, PTL DEF Spec, Packet!SafeSpec

=============================================================================
