--------------------------- MODULE MiiMallocProofs ---------------------------
(***************************************************************************)
(* The steps that both kinds of pool share preserve PoolInv: mii_free and  *)
(* each of its steps, and the store of wrptr that publishes a packet.      *)
(***************************************************************************)
EXTENDS MiiMalloc, TLAPS

USE DEF Start, End, Words, RingWords, HeaderPlaces

-----------------------------------------------------------------------------
(* Distances around the ring *)

\* A distance is less than the ring's size and zero for one place only.
LEMMA DistRange ==
  ASSUME NEW a \in RingWords, NEW b \in RingWords
  PROVE  /\ Dist(a, b) \in 0 .. Size - 1
         /\ Dist(a, b) = 0 <=> a = b
BY PoolAssumption DEF Dist

\* The distance from a place n that lies between r and h.
LEMMA DistSplit ==
  ASSUME NEW r \in RingWords, NEW n \in RingWords, NEW h \in RingWords,
         Dist(r, n) <= Dist(r, h)
  PROVE  Dist(n, h) = Dist(r, h) - Dist(r, n)
BY PoolAssumption DEF Dist

\* Going on from n to r, when n lies between w and r.
LEMMA DistJoin ==
  ASSUME NEW w \in RingWords, NEW r \in RingWords, NEW n \in RingWords,
         Dist(r, n) <= Dist(r, w), n # w, r # w
  PROVE  Dist(w, n) = Dist(w, r) + Dist(r, n)
BY PoolAssumption DEF Dist

\* Around the whole ring and back.
LEMMA DistBack ==
  ASSUME NEW a \in RingWords, NEW b \in RingWords, a # b
  PROVE  Dist(a, b) + Dist(b, a) = Size
BY PoolAssumption DEF Dist

-----------------------------------------------------------------------------
(* mii_free *)

\* The chain of headers is as it was: what a step that moves neither rdptr nor
\* wrptr leaves alone.
ChainKept ==
  /\ UNCHANGED <<rdptr, wrptr, live, order>>
  /\ \A h \in live : Next_(h)' = Next_(h)

\* A reader hands one of its packets to mii_free.
LEMMA FreeBeginInv ==
  ASSUME PoolInv, NEW h \in held, mii_free(h)
  PROVE  PoolInv' /\ ChainKept
<1> USE DEF PoolInv, PoolTypeOK, mii_free, poolVars, writerVars
<1>1. PoolTypeOK'
  BY DEF FreeStates
<1>2. WrapInv' /\ HeadInv'
  BY DEF WrapInv, HeadInv
<1>3. ChainInv'
  BY DEF ChainInv, Extent, Next_, Dist, Gap
<1>4. SignInv'
  BY DEF SignInv
<1>5. FreeInv'
  <2>1. h \in live /\ h \notin freed /\ h \in Words /\ mem[h] \in Int
    BY PoolAssumption
  <2>2. mem[h] >= 0
    BY <2>1 DEF SignInv
  <2>3. QED  BY <2>2 DEF FreeInv
<1>6. FlagInv' /\ WriterInv'
  BY DEF FlagInv, WriterInv, NearEnd, Gap, Dist
<1>7. ChainKept
  BY DEF ChainKept, Next_
<1>8. QED  BY <1>1, <1>2, <1>3, <1>4, <1>5, <1>6, <1>7

\* rdptr moves from the oldest packet to the next one: the space of the
\* writer grows by the packet, and nothing else is in that space.
LEMMA FreeOldestInv ==
  ASSUME PoolInv, FreeOldest
  PROVE  PoolInv'
<1> DEFINE n == Next_(rdptr)
<1>0. /\ PoolTypeOK /\ WrapInv /\ HeadInv /\ ChainInv /\ SignInv /\ FreeInv
      /\ FlagInv /\ WriterInv
  BY DEF PoolInv
<1>1. /\ hdr = rdptr /\ rdptr \in live /\ rdptr # wrptr /\ rdptr \in freed
      /\ rdptr' = n /\ wrptr' = wrptr /\ mem' = mem /\ live' = live \ {rdptr}
      /\ freed' = freed \ {rdptr} /\ held' = held /\ hdr' = n /\ old' = rdptr
      /\ rdptr_at_start' = rdptr_at_start /\ fpc' = "mark" /\ raced' = FALSE
      /\ wpc' = wpc /\ dptr' = dptr /\ ii' = ii
  BY <1>0 DEF FreeOldest, PoolTypeOK, FreeInv, HeadInv, writerVars
<1>2. /\ n \in live \cup {wrptr} /\ n # rdptr
      /\ n \in HeaderPlaces
      /\ \A h \in live : Dist(wrptr, h) >= Dist(wrptr, rdptr)
      /\ \A h \in live \ {rdptr} : Dist(rdptr, h) >= Dist(rdptr, n)
      /\ Dist(rdptr, wrptr) >= Dist(rdptr, n)
  BY <1>0, <1>1 DEF ChainInv, PoolTypeOK, Gap, Extent
<1> HIDE DEF n
<1>3. live' = {} <=> n = wrptr
  <2>1. ASSUME n = wrptr, NEW h \in live \ {rdptr}  PROVE FALSE
    BY <1>0, <1>1, <1>2, <2>1, PoolAssumption DEF Dist, PoolTypeOK
  <2>2. QED  BY <1>1, <1>2, <2>1
<1>4. /\ Gap = Dist(wrptr, rdptr) /\ Gap' = Dist(wrptr, rdptr) + Dist(rdptr, n)
      /\ Gap \in Int /\ Gap' \in Int /\ Gap' >= Gap
  BY <1>0, <1>1, <1>2, PoolAssumption DEF Gap, Dist, PoolTypeOK
<1>5. \A h \in live : Next_(h) # rdptr
  <2>1. ASSUME NEW h \in live, Next_(h) = rdptr  PROVE FALSE
    <3>1. /\ h # rdptr /\ Dist(h, wrptr) >= Dist(h, rdptr)
          /\ Dist(wrptr, h) >= Dist(wrptr, rdptr)
      BY <1>0, <1>1, <1>2, <2>1 DEF ChainInv, Extent, Gap
    <3>2. QED
      BY <1>0, <1>1, <3>1, PoolAssumption DEF Dist, PoolTypeOK
  <2>2. QED  BY <2>1
<1>6. PoolTypeOK'
  BY <1>0, <1>1, <1>2 DEF PoolTypeOK, FreeStates
<1>7. WrapInv' /\ HeadInv'
  BY <1>0, <1>1, <1>2, <1>3 DEF WrapInv, HeadInv
<1>8. ChainInv'
  <2>1. ASSUME NEW h \in live'  PROVE Dist(wrptr, h) >= Gap'
    <3>1. Dist(wrptr, h) >= Dist(wrptr, rdptr) /\ Dist(rdptr, h) >= Dist(rdptr, n)
      BY <1>1, <1>2, <2>1
    <3>2. QED
      BY <1>0, <1>1, <1>2, <1>4, <3>1, PoolAssumption DEF PoolTypeOK, Dist
  <2>2. QED
    BY <1>0, <1>1, <1>5, <2>1 DEF ChainInv, Extent, Next_, Dist
<1>9. SignInv'
  BY <1>0, <1>1 DEF SignInv
<1>10. FreeInv'
  BY <1>0, <1>1 DEF FreeInv
<1>11. FlagInv'
  <2>1. ASSUME n = Start, wpc = "open", NearEnd(dptr)  PROVE FALSE
    <3>1. wrptr < rdptr
      BY <1>0, <1>1, <1>2, <2>1, PoolAssumption DEF Dist, PoolTypeOK
    <3>2. QED
      BY <1>0, <1>1, <3>1, <2>1, PoolAssumption
         DEF WriterInv, NearEnd, Gap, Dist, PoolTypeOK
  <2>2. QED  BY <1>1, <2>1 DEF FlagInv, NearEnd
<1>12. WriterInv'
  <2>1. dptr \in Int /\ wrptr \in Int /\ Dist(wrptr, dptr) \in Int
    BY <1>0, PoolAssumption DEF PoolTypeOK, Dist
  <2>2. QED
    BY <1>0, <1>1, <1>4, <2>1 DEF WriterInv, Dist, PoolTypeOK
<1>13. QED
  BY <1>6, <1>7, <1>8, <1>9, <1>10, <1>11, <1>12 DEF PoolInv

\* The mark on a younger packet changes the sign of its next word only.
LEMMA FreeYoungerInv ==
  ASSUME PoolInv, FreeYounger
  PROVE  PoolInv' /\ ChainKept
<1>0. /\ PoolTypeOK /\ WrapInv /\ HeadInv /\ ChainInv /\ SignInv /\ FreeInv
      /\ FlagInv /\ WriterInv
  BY DEF PoolInv
<1>1. /\ hdr # rdptr /\ hdr \in live /\ hdr \in freed /\ mem[hdr] >= 0
      /\ fpc = "loop" /\ fpc' = "idle" /\ mem' = [mem EXCEPT ![hdr] = -mem[hdr]]
      /\ rdptr \notin freed
      /\ UNCHANGED <<rdptr, wrptr, rdptr_at_start, live, hdr, old, raced, held,
                     freed, wpc, dptr, ii>>
  BY <1>0 DEF FreeYounger, PoolTypeOK, FreeInv, writerVars
<1>2. /\ hdr \in Words /\ hdr # End /\ mem[hdr] \in Int /\ hdr # wrptr
      /\ live \subseteq Words /\ wrptr \in Words
      /\ Next_(hdr) # hdr /\ Next_(hdr) >= Start
  <2>1. hdr # wrptr
    <3>1. Dist(wrptr, hdr) >= Gap /\ rdptr # wrptr
      BY <1>0, <1>1 DEF ChainInv, HeadInv
    <3>2. QED
      BY <1>0, <3>1, PoolAssumption DEF Dist, Gap, PoolTypeOK
  <2>2. Next_(hdr) \in live \cup {wrptr} /\ Next_(hdr) # hdr
    BY <1>0, <1>1 DEF ChainInv
  <2>3. live \subseteq HeaderPlaces /\ wrptr \in HeaderPlaces
    BY <1>0 DEF PoolTypeOK
  <2>4. hdr \in Words /\ hdr # End /\ live \subseteq Words /\ wrptr \in Words
    BY <1>1, <2>3, PoolAssumption
  <2>5. mem[hdr] \in Int
    BY <1>0, <2>4 DEF PoolTypeOK
  <2>6. Next_(hdr) \in HeaderPlaces
    BY <2>2, <2>3
  <2>7. QED
    BY <2>1, <2>2, <2>4, <2>5, <2>6, PoolAssumption
<1>3. \A h \in live : Next_(h)' = Next_(h)
  BY <1>0, <1>1, <1>2 DEF PoolTypeOK, Next_, Abs
<1>4. PoolTypeOK'
  BY <1>0, <1>1, <1>2 DEF PoolTypeOK, FreeStates
<1>5. WrapInv' /\ HeadInv'
  BY <1>0, <1>1, <1>2 DEF WrapInv, HeadInv, PoolTypeOK
<1>6. ChainInv'
  BY <1>0, <1>1, <1>3 DEF ChainInv, Extent, Dist, Gap
<1>7. SignInv'
  <2>1. mem'[hdr] < 0
    BY <1>0, <1>1, <1>2 DEF Next_, Abs, PoolTypeOK
  <2>2. \A h \in live \ {hdr} : mem'[h] = mem[h]
    BY <1>0, <1>1, <1>2 DEF PoolTypeOK
  <2>3. mem'[hdr] \in Int
    BY <1>4, <1>2 DEF PoolTypeOK
  <2>4. QED  BY <1>0, <1>1, <2>1, <2>2, <2>3 DEF SignInv
<1>8. FreeInv' /\ FlagInv'
  BY <1>0, <1>1 DEF FreeInv, FlagInv, NearEnd
<1>9. WriterInv'
  BY <1>0, <1>1, <1>2 DEF WriterInv, Gap, Dist, PoolTypeOK
<1>10. ChainKept
  BY <1>3 DEF ChainKept, FreeYounger
<1>11. QED
  BY <1>4, <1>5, <1>6, <1>7, <1>8, <1>9, <1>10 DEF PoolInv

\* The old header is no longer in the chain when it is marked as empty.
LEMMA FreeMarkInv ==
  ASSUME PoolInv, FreeMark
  PROVE  PoolInv' /\ ChainKept
<1>0. /\ PoolTypeOK /\ WrapInv /\ HeadInv /\ ChainInv /\ SignInv /\ FreeInv
      /\ FlagInv /\ WriterInv
  BY DEF PoolInv
<1>1. /\ fpc = "mark" /\ fpc' = "wrtest" /\ hdr = rdptr
      /\ mem' = [mem EXCEPT ![old] = 0] /\ rdptr_at_start' = (rdptr = Start)
      /\ old \notin live /\ (wpc # "idle" => old # wrptr)
      /\ UNCHANGED <<rdptr, wrptr, live, hdr, old, raced, held, freed,
                     wpc, dptr, ii>>
  BY <1>0 DEF FreeMark, PoolTypeOK, FreeInv, writerVars
<1>2. /\ old # End /\ old \in Words /\ live \subseteq Words /\ wrptr \in Words
      /\ \A h \in live : mem'[h] = mem[h]
      /\ mem'[End] = mem[End]
      /\ wpc # "idle" => mem'[wrptr] = mem[wrptr]
  BY <1>0, <1>1, PoolAssumption DEF PoolTypeOK
<1>3. PoolTypeOK'
  BY <1>0, <1>1, <1>2 DEF PoolTypeOK, FreeStates
<1>4. WrapInv' /\ HeadInv' /\ SignInv' /\ FreeInv' /\ FlagInv'
  BY <1>0, <1>1, <1>2
     DEF WrapInv, HeadInv, SignInv, FreeInv, FlagInv, NearEnd
<1>5. ChainInv'
  BY <1>0, <1>1, <1>2 DEF ChainInv, Extent, Next_, Dist, Gap
<1>6. WriterInv'
  BY <1>0, <1>1, <1>2 DEF WriterInv, Gap, Dist
<1>7. ChainKept
  BY <1>2 DEF ChainKept, FreeMark, Next_
<1>8. QED  BY <1>3, <1>4, <1>5, <1>6, <1>7 DEF PoolInv

\* If hdr is not wrptr it is a packet, also when mii_commit moves wrptr on
\* before hdr->next is read; and at wrptr there is nothing to reclaim.
LEMMA FreeTestsInv ==
  ASSUME PoolInv, FreeTests
  PROVE  PoolInv'
<1>0. /\ PoolTypeOK /\ WrapInv /\ HeadInv /\ ChainInv /\ SignInv /\ FreeInv
      /\ FlagInv /\ WriterInv
  BY DEF PoolInv
<1>1. UNCHANGED <<poolVars, hdr, old, raced, held, freed, writerVars>>
  BY DEF FreeTests
<1> USE <1>0, <1>1 DEF poolVars, writerVars
<1>2. CASE fpc = "wrtest"
  <2>1. fpc' = IF hdr = wrptr THEN "idle" ELSE "nexttest"
    BY <1>2 DEF FreeTests
  <2>2. fpc' = "idle" => rdptr \notin freed
    BY <1>2, <2>1 DEF FreeInv, HeadInv, PoolTypeOK
  <2>3. fpc' = "nexttest" => hdr \in live
    BY <1>2, <2>1 DEF FreeInv, HeadInv
  <2>4. FreeInv' /\ SignInv' /\ FlagInv'
    BY <1>2, <2>1, <2>2, <2>3 DEF FreeInv, SignInv, FlagInv, NearEnd
  <2>5. PoolTypeOK' /\ WrapInv' /\ HeadInv' /\ ChainInv' /\ WriterInv'
    BY <2>1 DEF PoolTypeOK, FreeStates, WrapInv, HeadInv, ChainInv, WriterInv,
                Extent, Next_, Dist, Gap
  <2>6. QED  BY <2>4, <2>5 DEF PoolInv
<1>3. CASE fpc = "nexttest"
  <2>1. fpc' = IF mem[hdr] > 0 THEN "idle" ELSE "loop"
    BY <1>3 DEF FreeTests
  <2>2. hdr = rdptr /\ hdr \in live /\ hdr \in Words /\ mem[hdr] \in Int
    BY <1>3, PoolAssumption DEF FreeInv, PoolTypeOK
  <2>3. mem[hdr] # 0
    <3>1. Next_(hdr) \in HeaderPlaces
      BY <2>2 DEF ChainInv, PoolTypeOK
    <3>2. QED  BY <3>1 DEF Next_, Abs
  <2>4. fpc' = "idle" => rdptr \notin freed
    BY <1>3, <2>1, <2>2 DEF SignInv
  <2>5. fpc' = "loop" => hdr \in freed
    BY <2>1, <2>2, <2>3 DEF SignInv
  <2>6. FreeInv' /\ SignInv' /\ FlagInv'
    BY <1>3, <2>1, <2>2, <2>4, <2>5 DEF FreeInv, SignInv, FlagInv, NearEnd
  <2>7. PoolTypeOK' /\ WrapInv' /\ HeadInv' /\ ChainInv' /\ WriterInv'
    BY <2>1 DEF PoolTypeOK, FreeStates, WrapInv, HeadInv, ChainInv, WriterInv,
                Extent, Next_, Dist, Gap
  <2>8. QED  BY <2>6, <2>7 DEF PoolInv
<1>4. QED  BY <1>2, <1>3 DEF FreeTests

\* No step of mii_free breaks the invariant.
LEMMA FreeStepInv ==
  ASSUME PoolInv, FreeStep
  PROVE  PoolInv' /\ (FreeOldest \/ ChainKept)
<1>1. FreeTests => ChainKept
  BY DEF FreeTests, ChainKept, Next_, poolVars
<1>2. QED
  BY <1>1, FreeOldestInv, FreeYoungerInv, FreeMarkInv, FreeTestsInv DEF FreeStep

-----------------------------------------------------------------------------
(* mii_commit *)

\* The published packet lies in what was the writer's space, and leaves at
\* least one word of it.
LEMMA PublishInv ==
  ASSUME PoolInv, Publish
  PROVE  PoolInv'
<1>0. /\ PoolTypeOK /\ WrapInv /\ HeadInv /\ ChainInv /\ SignInv /\ FreeInv
      /\ FlagInv /\ WriterInv
  BY DEF PoolInv
<1>1. /\ wrptr' = dptr /\ live' = live \cup {wrptr} /\ wpc' = "idle"
      /\ UNCHANGED <<rdptr, rdptr_at_start, mem, fpc, hdr, old, raced, freed,
                     held, dptr, ii>>
      /\ wpc = "publish"
  BY DEF Publish, freeVars
<1>2. /\ dptr \in HeaderPlaces /\ mem[wrptr] = dptr /\ dptr # wrptr
      /\ Dist(wrptr, dptr) < Gap
  BY <1>0, <1>1 DEF WriterInv
<1>3. /\ rdptr \in HeaderPlaces /\ wrptr \in HeaderPlaces
      /\ live \subseteq HeaderPlaces /\ Gap \in Int
      /\ Dist(wrptr, dptr) \in Int /\ Dist(wrptr, dptr) > 0
  BY <1>0, <1>2, PoolAssumption DEF PoolTypeOK, Gap, Dist
<1>4. wrptr \notin live
  <2>1. ASSUME wrptr \in live  PROVE FALSE
    <3>1. Dist(wrptr, wrptr) >= Gap
      BY <1>0, <2>1 DEF ChainInv
    <3>2. QED  BY <1>3, <3>1, <1>2, PoolAssumption DEF Dist
  <2>2. QED  BY <2>1
<1>5. Next_(wrptr) = dptr
  BY <1>2 DEF Next_, Abs
<1>6. dptr # rdptr /\ Gap' = Dist(dptr, rdptr)
      /\ (live # {} => Gap' = Gap - Dist(wrptr, dptr))
  BY <1>0, <1>1, <1>2, <1>3, PoolAssumption DEF Gap, Dist, HeadInv
<1>7. PoolTypeOK'
  BY <1>0, <1>1, <1>2 DEF PoolTypeOK
<1>8. WrapInv' /\ HeadInv'
  BY <1>0, <1>1, <1>6 DEF WrapInv, HeadInv
<1>9. ChainInv'
  <2>1. ASSUME NEW h \in live
        PROVE  /\ Next_(h) \in live' /\ Next_(h) # h
               /\ \A g \in live' \ {h} : Dist(h, g) >= Extent(h)
               /\ Dist(h, dptr) >= Extent(h)
               /\ Dist(dptr, h) >= Dist(dptr, rdptr)
    <3>1. /\ Next_(h) \in live \cup {wrptr} /\ Next_(h) # h
          /\ \A g \in live \ {h} : Dist(h, g) >= Extent(h)
          /\ Dist(h, wrptr) >= Extent(h)
          /\ Dist(wrptr, h) >= Gap /\ h \in HeaderPlaces
      BY <1>0, <1>3 DEF ChainInv
    <3>2. rdptr # wrptr
      BY <1>0 DEF HeadInv
    <3>3. /\ Dist(h, dptr) >= Dist(h, wrptr)
          /\ Dist(dptr, h) >= Dist(dptr, rdptr)
      BY <1>2, <1>3, <3>1, <3>2, PoolAssumption DEF Dist, Gap
    <3>4. Next_(h) \in HeaderPlaces
      BY <3>1, <1>3
    <3>5. Dist(h, dptr) >= Extent(h)
      BY <3>1, <3>3, <3>4, <1>2, <1>3, PoolAssumption DEF Extent, Dist
    <3>6. QED  BY <1>1, <3>1, <3>3, <3>5
  <2>2. /\ \A g \in live : Dist(wrptr, g) >= Dist(wrptr, dptr)
        /\ Dist(dptr, wrptr) >= Dist(dptr, rdptr)
    <3>1. \A g \in live : Dist(wrptr, g) >= Gap
      BY <1>0 DEF ChainInv
    <3>2. \A g \in live : Dist(wrptr, g) \in Int
      BY <1>3, PoolAssumption DEF Dist
    <3>3. \A g \in live : Dist(wrptr, g) >= Dist(wrptr, dptr)
      BY <1>2, <1>3, <3>1, <3>2
    <3>4. Dist(dptr, wrptr) >= Dist(dptr, rdptr)
      BY <1>2, <1>3, PoolAssumption DEF Dist, Gap
    <3>5. QED  BY <3>3, <3>4
  <2>3. \A h : Next_(h)' = Next_(h) /\ Extent(h)' = Extent(h)
    BY <1>1 DEF Next_, Extent, Dist
  <2>4. Extent(wrptr) = Dist(wrptr, dptr)
    BY <1>5 DEF Extent
  <2>5. QED
    BY <1>1, <1>2, <1>3, <1>4, <1>5, <1>6, <2>1, <2>2, <2>3, <2>4
       DEF ChainInv, Dist
<1>10. SignInv'
  BY <1>0, <1>1, <1>2, <1>4, PoolAssumption DEF SignInv, PoolTypeOK
<1>11. FreeInv' /\ FlagInv' /\ WriterInv'
  BY <1>0, <1>1 DEF FreeInv, FlagInv, WriterInv
<1>12. QED
  BY <1>7, <1>8, <1>9, <1>10, <1>11 DEF PoolInv

-----------------------------------------------------------------------------
(* The writers *)

\* A place that the writer stores to is in no packet's header, and is not
\* the wrap pointer.
LEMMA WriterWord ==
  ASSUME PoolInv, NEW k \in 0 .. Size - 1, k < Gap,
         NEW a \in RingWords, Dist(wrptr, a) = k
  PROVE  a \notin live /\ a # End
<1>1. a # End
  BY PoolAssumption
<1>2. ASSUME a \in live  PROVE FALSE
  <2>1. Dist(wrptr, a) >= Gap
    BY <1>2 DEF PoolInv, ChainInv
  <2>2. Gap \in Int
    BY PoolAssumption DEF PoolInv, PoolTypeOK, Gap, Dist
  <2>3. QED  BY <2>1, <2>2
<1>3. QED  BY <1>1, <1>2

\* Stores that leave the headers of the packets and the wrap pointer alone
\* keep all that PoolInv says of the packets.
LEMMA QuietStore ==
  ASSUME PoolInv, mem' \in [Words -> Int],
         \A h \in live : mem'[h] = mem[h], mem'[End] = mem[End],
         UNCHANGED <<rdptr, wrptr, rdptr_at_start, live, fpc, hdr, old, freed,
                     held>>
  PROVE  WrapInv' /\ HeadInv' /\ ChainInv' /\ SignInv'
         /\ (\A h \in live : Next_(h)' = Next_(h))
<1>1. \A h \in live : Next_(h)' = Next_(h)
  BY DEF Next_
<1>2. WrapInv' /\ HeadInv' /\ SignInv'
  BY DEF PoolInv, WrapInv, HeadInv, SignInv
<1>3. ChainInv'
  BY <1>1 DEF PoolInv, ChainInv, Extent, Dist, Gap
<1>4. QED  BY <1>1, <1>2, <1>3

\* The end that mii_commit chooses is a place for a header, inside the
\* writer's space and short of rdptr.
LEMMA CommitEndPlace ==
  ASSUME PoolInv, wpc = "open", dptr # rdptr, NearEnd(dptr) => rdptr # Start
  PROVE  /\ CommitEnd(dptr) \in HeaderPlaces
         /\ CommitEnd(dptr) # wrptr
         /\ Dist(wrptr, CommitEnd(dptr)) < Gap
         /\ Dist(wrptr, dptr) = ii /\ ii < Gap /\ ii \in 0 .. Size - 1
<1>1. /\ wrptr \in HeaderPlaces /\ rdptr \in HeaderPlaces /\ dptr \in RingWords
      /\ 2 <= ii /\ ii <= Gap /\ ii \in Int
      /\ dptr = IF wrptr + ii >= End THEN wrptr + ii - Size ELSE wrptr + ii
  BY PoolAssumption DEF PoolInv, PoolTypeOK, WriterInv
<1>2. Dist(wrptr, dptr) = ii /\ ii < Gap /\ ii \in 0 .. Size - 1
  BY <1>1, PoolAssumption DEF Gap, Dist
<1>3. CASE NearEnd(dptr)
  <2>1. CommitEnd(dptr) = Start
    BY <1>3 DEF CommitEnd
  <2>2. rdptr # Start
    BY <1>3
  <2>3. /\ Start \in HeaderPlaces /\ rdptr <= wrptr
    BY <1>1, <1>2, <1>3, PoolAssumption DEF NearEnd, Gap, Dist
  <2>4. /\ Start # wrptr /\ Dist(wrptr, Start) < Gap
    BY <1>1, <2>2, <2>3, PoolAssumption DEF Gap, Dist
  <2>5. QED  BY <1>2, <2>1, <2>3, <2>4
<1>4. CASE ~NearEnd(dptr)
  BY <1>1, <1>2, <1>4, PoolAssumption DEF NearEnd, CommitEnd, Dist
<1>5. QED  BY <1>3, <1>4

\* The invariant holds of a new pool.
LEMMA InitInv == mii_init_mempool => PoolInv
<1> SUFFICES ASSUME mii_init_mempool PROVE PoolInv
  OBVIOUS
<1>1. PICK v \in DataWords :
        mem = [a \in Words |-> CASE a = End -> Start [] a = Start -> 0
                                 [] OTHER -> v]
  BY DEF mii_init_mempool
<1>2. mem \in [Words -> Int] /\ mem[End] = Start
  BY <1>1, PoolAssumption
<1>3. /\ rdptr = Start /\ wrptr = Start /\ rdptr_at_start = TRUE
      /\ fpc = "idle" /\ hdr = Start /\ old = Start /\ raced = FALSE
      /\ wpc = "idle" /\ dptr = Start /\ ii = 0
      /\ live = {} /\ held = {} /\ freed = {}
  BY DEF mii_init_mempool
<1>4. Start \in HeaderPlaces /\ Start \in RingWords /\ 0 \in 0 .. Size
  BY PoolAssumption
<1>5. PoolTypeOK
  BY <1>2, <1>3, <1>4 DEF PoolTypeOK, FreeStates
<1>6. QED
  BY <1>2, <1>3, <1>5
     DEF PoolInv, WrapInv, HeadInv, ChainInv, SignInv, FreeInv, FlagInv, WriterInv

-----------------------------------------------------------------------------
(* The order of commitment *)

\* A new pool has no packets.
LEMMA OrderInit == mii_init_mempool => OrderInv
BY DEF mii_init_mempool, OrderInv

\* A step that leaves the chain alone leaves the order alone.
LEMMA OrderKept ==
  ASSUME OrderInv, ChainKept
  PROVE  OrderInv'
<1>1. /\ rdptr' = rdptr /\ wrptr' = wrptr /\ live' = live /\ order' = order
      /\ \A h \in live : Next_(h)' = Next_(h)
  BY DEF ChainKept
<1>2. ASSUME NEW k \in 1 .. Len(order)
      PROVE  Next_(order[k])' = Next_(order[k])
  BY <1>1 DEF OrderInv
<1>3. QED  BY <1>1, <1>2 DEF OrderInv

\* The packet that is reclaimed is the first one, and has been released.
LEMMA OrderOldest ==
  ASSUME PoolInv, OrderInv, FreeOldest
  PROVE  /\ OrderInv'
         /\ order # <<>> /\ Head(order) = rdptr /\ order' = Tail(order)
         /\ rdptr \in freed /\ rdptr \notin held
         /\ held' = held /\ freed' = freed \ {rdptr}
<1>1. /\ hdr = rdptr /\ rdptr \in live /\ rdptr \in freed /\ rdptr \notin held
      /\ rdptr' = Next_(rdptr) /\ wrptr' = wrptr /\ mem' = mem
      /\ live' = live \ {rdptr} /\ order' = Without(order, rdptr)
      /\ held' = held /\ freed' = freed \ {rdptr}
  BY DEF PoolInv, FreeOldest, PoolTypeOK, FreeInv
<1>2. /\ order \in Seq(HeaderPlaces) /\ Len(order) \in Nat
      /\ live = {order[k] : k \in 1 .. Len(order)}
      /\ \A j, k \in 1 .. Len(order) : order[j] = order[k] => j = k
      /\ order # <<>> => order[1] = rdptr
      /\ \A k \in 1 .. Len(order) :
           Next_(order[k]) = IF k < Len(order) THEN order[k + 1] ELSE wrptr
  BY DEF OrderInv
<1>3. order # <<>> /\ Len(order) > 0 /\ order[1] = rdptr
  BY <1>1, <1>2
<1>4. /\ order' = Tail(order) /\ Tail(order) \in Seq(HeaderPlaces)
      /\ Len(Tail(order)) = Len(order) - 1
      /\ \A k \in 1 .. Len(order) - 1 : Tail(order)[k] = order[k + 1]
  BY <1>1, <1>2, <1>3 DEF Without
<1>5. PICK n \in Nat : n = Len(order)
  BY <1>2
<1>6. PICK s \in Seq(HeaderPlaces) : s = order'
  BY <1>4
<1>7. /\ Len(s) = n - 1 /\ \A k \in 1 .. n - 1 : s[k] = order[k + 1]
  BY <1>4, <1>5, <1>6
<1>8. live' = {s[k] : k \in 1 .. Len(s)}
  <2>1. ASSUME NEW h \in live'  PROVE \E k \in 1 .. n - 1 : h = s[k]
    <3>1. PICK k \in 1 .. n : h = order[k]
      BY <1>1, <1>2, <1>5
    <3>2. k # 1
      BY <1>1, <1>3, <3>1
    <3>3. k - 1 \in 1 .. n - 1 /\ s[k - 1] = order[k]
      BY <1>5, <1>7, <3>1, <3>2
    <3>4. QED  BY <3>1, <3>3
  <2>2. ASSUME NEW k \in 1 .. n - 1  PROVE s[k] \in live'
    <3>1. k + 1 \in 1 .. n /\ 1 \in 1 .. n /\ k + 1 # 1
      BY <1>5
    <3>2. order[k + 1] \in live /\ order[k + 1] # rdptr
      BY <1>2, <1>3, <1>5, <3>1
    <3>3. QED  BY <1>1, <1>7, <3>2
  <2>3. QED  BY <1>7, <2>1, <2>2
<1>9. \A j, k \in 1 .. Len(s) : s[j] = s[k] => j = k
  <2>1. ASSUME NEW j \in 1 .. n - 1, NEW k \in 1 .. n - 1, s[j] = s[k]
        PROVE  j = k
    <3>1. j + 1 \in 1 .. n /\ k + 1 \in 1 .. n /\ order[j + 1] = order[k + 1]
      BY <1>5, <1>7, <2>1
    <3>2. QED  BY <1>2, <1>5, <3>1
  <2>2. QED  BY <1>7, <2>1
<1>10. s # <<>> => s[1] = rdptr'
  <2>1. ASSUME s # <<>>  PROVE s[1] = rdptr'
    <3>1. 1 \in 1 .. n - 1 /\ 1 \in 1 .. n /\ 1 < n
      BY <1>5, <1>6, <1>7, <2>1
    <3>2. s[1] = order[1 + 1] /\ Next_(order[1]) = order[1 + 1]
      BY <1>2, <1>5, <1>7, <3>1
    <3>3. QED  BY <1>1, <1>3, <3>2
  <2>2. QED  BY <2>1
<1>11. ASSUME NEW k \in 1 .. Len(s)
       PROVE  Next_(s[k])' = IF k < Len(s) THEN s[k + 1] ELSE wrptr
  <2>1. k \in 1 .. n - 1 /\ k + 1 \in 1 .. n
    BY <1>5, <1>7
  <2>2. Next_(order[k + 1]) = IF k + 1 < n THEN order[(k + 1) + 1] ELSE wrptr
    BY <1>2, <1>5, <2>1
  <2>3. k < n - 1 => k + 1 \in 1 .. n - 1 /\ s[k + 1] = order[(k + 1) + 1]
    BY <1>5, <1>7, <2>1
  <2>4. Next_(s[k])' = Next_(order[k + 1])
    BY <1>1, <1>6, <1>7, <2>1 DEF Next_
  <2>5. QED  BY <1>5, <1>7, <2>1, <2>2, <2>3, <2>4
<1>12. OrderInv'
  BY <1>1, <1>6, <1>8, <1>9, <1>10, <1>11 DEF OrderInv
<1>13. QED  BY <1>1, <1>3, <1>4, <1>12

\* A sequence with one more entry.
LEMMA AppendEntry ==
  ASSUME NEW S, NEW s \in Seq(S), NEW e \in S
  PROVE  /\ Append(s, e) \in Seq(S) /\ Len(Append(s, e)) = Len(s) + 1
         /\ Append(s, e)[Len(s) + 1] = e
         /\ \A k \in 1 .. Len(s) : Append(s, e)[k] = s[k]
OBVIOUS

\* A published packet is the last one.
LEMMA OrderPublish ==
  ASSUME PoolInv, OrderInv, Publish
  PROVE  OrderInv' /\ wrptr \in HeaderPlaces /\ wrptr \notin live
<1>1. /\ wrptr' = dptr /\ live' = live \cup {wrptr} /\ rdptr' = rdptr
      /\ order' = Append(order, wrptr) /\ mem' = mem
  BY DEF Publish
<1>2. /\ wrptr \in HeaderPlaces /\ rdptr \in HeaderPlaces /\ dptr \in HeaderPlaces
      /\ mem[wrptr] = dptr /\ Dist(wrptr, dptr) < Gap /\ Gap \in Int
  BY PoolAssumption DEF Publish, PoolInv, PoolTypeOK, WriterInv, Gap, Dist
<1>3. wrptr \notin live
  <2>1. ASSUME wrptr \in live  PROVE FALSE
    <3>1. Dist(wrptr, wrptr) >= Gap
      BY <2>1 DEF PoolInv, ChainInv
    <3>2. QED  BY <1>2, <3>1, PoolAssumption DEF Dist
  <2>2. QED  BY <2>1
<1>4. Next_(wrptr) = dptr
  BY <1>2, PoolAssumption DEF Next_, Abs
<1>5. /\ order \in Seq(HeaderPlaces) /\ Len(order) \in Nat
      /\ live = {order[k] : k \in 1 .. Len(order)}
      /\ \A j, k \in 1 .. Len(order) : order[j] = order[k] => j = k
      /\ order # <<>> => order[1] = rdptr
      /\ \A k \in 1 .. Len(order) :
           Next_(order[k]) = IF k < Len(order) THEN order[k + 1] ELSE wrptr
  BY DEF OrderInv
<1>6. PICK n \in Nat : n = Len(order)
  BY <1>5
<1>7. PICK s \in Seq(HeaderPlaces) : s = order'
  BY <1>1, <1>2, <1>5, AppendEntry
<1>8. /\ Len(s) = n + 1 /\ s[n + 1] = wrptr
      /\ \A k \in 1 .. n : s[k] = order[k]
  BY <1>1, <1>2, <1>5, <1>6, <1>7, AppendEntry
<1>9. live' = {s[k] : k \in 1 .. Len(s)}
  <2>1. ASSUME NEW h \in live'  PROVE \E k \in 1 .. n + 1 : h = s[k]
    <3>1. CASE h = wrptr
      BY <1>6, <1>8, <3>1
    <3>2. CASE h \in live
      <4>1. PICK k \in 1 .. n : h = order[k]
        BY <1>5, <1>6, <3>2
      <4>2. QED  BY <1>6, <1>8, <4>1
    <3>3. QED  BY <1>1, <3>1, <3>2
  <2>2. ASSUME NEW k \in 1 .. n + 1  PROVE s[k] \in live'
    <3>1. CASE k = n + 1
      BY <1>1, <1>8, <3>1
    <3>2. CASE k \in 1 .. n
      <4>1. order[k] \in live
        BY <1>5, <1>6, <3>2
      <4>2. QED  BY <1>1, <1>8, <3>2, <4>1
    <3>3. QED  BY <1>6, <3>1, <3>2
  <2>3. QED  BY <1>8, <2>1, <2>2
<1>10. \A j, k \in 1 .. Len(s) : s[j] = s[k] => j = k
  <2>1. \A k \in 1 .. n : s[k] # wrptr
    BY <1>3, <1>5, <1>6, <1>8
  <2>2. ASSUME NEW j \in 1 .. n + 1, NEW k \in 1 .. n + 1, s[j] = s[k]
        PROVE  j = k
    <3>1. CASE j = n + 1 /\ k = n + 1
      BY <3>1
    <3>2. CASE j \in 1 .. n /\ k \in 1 .. n
      BY <1>5, <1>6, <1>8, <2>2, <3>2
    <3>3. CASE (j = n + 1 /\ k \in 1 .. n) \/ (j \in 1 .. n /\ k = n + 1)
      BY <1>8, <2>1, <2>2, <3>3
    <3>4. QED  BY <1>6, <3>1, <3>2, <3>3
  <2>3. QED  BY <1>8, <2>2
<1>11. s[1] = rdptr
  <2>1. CASE n = 0
    <3>1. live = {} /\ s[1] = wrptr
      BY <1>5, <1>6, <1>8, <2>1
    <3>2. QED  BY <3>1 DEF PoolInv, HeadInv
  <2>2. CASE n # 0
    BY <1>5, <1>6, <1>8, <2>2
  <2>3. QED  BY <2>1, <2>2
<1>12. ASSUME NEW k \in 1 .. Len(s)
       PROVE  Next_(s[k])' = IF k < Len(s) THEN s[k + 1] ELSE dptr
  <2>1. CASE k = n + 1
    BY <1>1, <1>4, <1>7, <1>8, <2>1 DEF Next_
  <2>2. CASE k \in 1 .. n
    <3>1. Next_(order[k]) = IF k < n THEN order[k + 1] ELSE wrptr
      BY <1>5, <1>6, <2>2
    <3>2. s[k + 1] = IF k < n THEN order[k + 1] ELSE wrptr
      <4>1. k < n => k + 1 \in 1 .. n
        BY <1>6, <2>2
      <4>2. ~(k < n) => k = n
        BY <1>6, <2>2
      <4>3. QED  BY <1>8, <4>1, <4>2
    <3>3. Next_(s[k])' = Next_(order[k])
      BY <1>1, <1>7, <1>8, <2>2 DEF Next_
    <3>4. k < Len(s)
      BY <1>6, <1>8, <2>2
    <3>5. QED  BY <3>1, <3>2, <3>3, <3>4
  <2>3. QED  BY <1>6, <1>8, <2>1, <2>2
<1>13. OrderInv'
  <2>1. s # <<>> => s[1] = rdptr'
    BY <1>1, <1>11
  <2>2. QED
    BY <1>1, <1>7, <1>9, <1>10, <1>12, <2>1 DEF OrderInv
<1>14. QED  BY <1>2, <1>3, <1>13

\* The steps of a pool, seen as those of PacketPool.
LEMMA KeptIsStutter ==
  ASSUME ChainKept, (held \cup freed)' = held \cup freed, freed' = freed
  PROVE  UNCHANGED Pool!vars
BY DEF ChainKept, Pool!vars

LEMMA FreeBeginStep ==
  ASSUME PoolInv, NEW h \in held, mii_free(h)
  PROVE  Pool!mii_free
<1>1. h \in live /\ h \notin freed
  BY DEF PoolInv, PoolTypeOK
<1>2. held' = held \ {h} /\ freed' = freed \cup {h} /\ order' = order
  BY DEF mii_free, poolVars
<1>3. held' \cup freed' = held \cup freed
  BY <1>2
<1>4. QED  BY <1>1, <1>2, <1>3 DEF Pool!mii_free

LEMMA OldestStep ==
  ASSUME PoolInv, OrderInv, FreeOldest
  PROVE  Pool!Reclaim
<1>1. /\ order # <<>> /\ Head(order) = rdptr /\ order' = Tail(order)
      /\ rdptr \in freed /\ rdptr \notin held
      /\ held' = held /\ freed' = freed \ {rdptr}
  BY OrderOldest
<1>2. held' \cup freed' = (held \cup freed) \ {rdptr}
  BY <1>1
<1>3. QED  BY <1>1, <1>2 DEF Pool!Reclaim

LEMMA PublishStep ==
  ASSUME PoolInv, OrderInv, Publish
  PROVE  Pool!mii_commit
<1>1. wrptr \in HeaderPlaces /\ wrptr \notin live
  BY OrderPublish
<1>2. live = Pool!InPool
  BY DEF OrderInv, Pool!InPool
<1>3. order' = Append(order, wrptr) /\ held' = held /\ freed' = freed
  BY DEF Publish, freeVars
<1>4. held' \cup freed' = held \cup freed
  BY <1>3
<1>5. QED  BY <1>1, <1>2, <1>3, <1>4 DEF Pool!mii_commit

=============================================================================
