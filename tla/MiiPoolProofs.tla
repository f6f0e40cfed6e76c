---------------------------- MODULE MiiPoolProofs ----------------------------
(***************************************************************************)
(* The pools are correct for every size of the pool, of MIN_USAGE and of   *)
(* the fixed part of a packet: RxInv and TxInv are inductive, and the      *)
(* safety properties of MiiRxPool and MiiTxPool follow.                    *)
(*                                                                         *)
(* In the receive pool frames have any length.  In the transmit pool no    *)
(* packet takes all the words that mii_reserve_at_least asks for (MaxUse < *)
(* MinSize: frames of at most 1516 bytes).  TLC shows that the proviso is  *)
(* needed.                                                                 *)
(***************************************************************************)
EXTENDS MiiRxPool, MiiTxPool, MiiMallocProofs

USE DEF Start, End, Words, RingWords, HeaderPlaces

\* The server's pointer starts at the only place there is.
LEMMA RxInitInv == Init => RxInv
<1> SUFFICES ASSUME Init PROVE RxInv
  OBVIOUS
<1>1. PoolInv
  BY InitInv DEF Init
<1>2. ReaderInv
  BY DEF Init, mii_init_mempool, ReaderInv
<1>3. QED  BY <1>1, <1>2 DEF RxInv

\* mii_reserve: the fixed part of a packet fits before rdptr and before the
\* end of the pool.
LEMMA ReserveInv ==
  ASSUME PoolInv, mii_reserve
  PROVE  PoolInv' /\ ChainKept
<1>0. PoolTypeOK /\ FreeInv /\ FlagInv /\ HeadInv
  BY DEF PoolInv
<1>1. /\ wpc = "idle" /\ wpc' = "open" /\ fpc # "mark"
      /\ dptr' = wrptr + Fixed /\ ii' = Fixed
      /\ rdptr > wrptr => rdptr - wrptr >= MinUsage
      /\ UNCHANGED <<rdptr, wrptr, rdptr_at_start, live, fpc, hdr, old, raced,
                     freed, held>>
  BY DEF mii_reserve, CanReserve, freeVars
<1>2. PICK v \in DataWords :
        mem' = [a \in Words |->
                  IF a \in wrptr + 1 .. wrptr + Fixed - 1 THEN v ELSE mem[a]]
  BY DEF mii_reserve
<1>3. /\ wrptr \in HeaderPlaces /\ rdptr \in HeaderPlaces
      /\ live \subseteq HeaderPlaces /\ mem \in [Words -> Int] /\ v \in Int
  BY <1>0, PoolAssumption DEF PoolTypeOK
<1>4. Gap >= Fixed /\ Gap \in Int
  BY <1>1, <1>3, PoolAssumption, FixedAssumption DEF Gap, Dist
<1>5. mem' \in [Words -> Int] /\ mem'[End] = mem[End]
  BY <1>2, <1>3, PoolAssumption, FixedAssumption
<1>6. ASSUME NEW h \in live  PROVE mem'[h] = mem[h]
  <2>1. h \in HeaderPlaces /\ Dist(wrptr, h) >= Gap
    BY <1>3 DEF PoolInv, ChainInv
  <2>2. h \notin wrptr + 1 .. wrptr + Fixed - 1
    BY <1>3, <1>4, <2>1, PoolAssumption, FixedAssumption DEF Dist
  <2>3. QED  BY <1>2, <2>1, <2>2, PoolAssumption
<1>7. WrapInv' /\ HeadInv' /\ ChainInv' /\ SignInv'
  BY <1>1, <1>5, <1>6, QuietStore
<1>8. dptr' \in RingWords /\ ii' \in 0 .. Size
  BY <1>1, <1>3, PoolAssumption, FixedAssumption
<1>9. PoolTypeOK'
  BY <1>0, <1>1, <1>5, <1>8 DEF PoolTypeOK
<1>10. FreeInv'
  <2>1. fpc = "loop" => hdr \in live
    BY <1>0 DEF FreeInv, PoolTypeOK
  <2>2. QED  BY <1>0, <1>1, <1>6, <2>1 DEF FreeInv
<1>11. FlagInv'
  BY <1>0, <1>1 DEF FlagInv
<1>12. WriterInv'
  BY <1>1, <1>3, <1>4, PoolAssumption, FixedAssumption DEF WriterInv, Gap, Dist
<1>13. ChainKept
  BY <1>6 DEF mii_reserve, ChainKept, Next_
<1>14. QED
  BY <1>7, <1>9, <1>10, <1>11, <1>12, <1>13 DEF PoolInv

\* A word is stored in the writer's space, which it does not exhaust.
LEMMA RxWordInv ==
  ASSUME PoolInv, RxWord
  PROVE  PoolInv' /\ ChainKept
<1>0. PoolTypeOK /\ FreeInv /\ FlagInv /\ WriterInv /\ WrapInv
  BY DEF PoolInv
<1>1. /\ wpc = "open" /\ dptr # rdptr
      /\ dptr' = Advance(dptr, 1) /\ ii' = ii + 1
      /\ raced' = (raced \/ fpc = "mark")
      /\ UNCHANGED <<rdptr, wrptr, rdptr_at_start, live, fpc, hdr, old,
                     freed, held, wpc>>
  BY DEF RxWord, RoomForWord
<1>2. PICK v \in DataWords : mem' = [mem EXCEPT ![dptr] = v]
  BY DEF RxWord
<1>3. /\ wrptr \in HeaderPlaces /\ rdptr \in HeaderPlaces /\ dptr \in RingWords
      /\ live \subseteq HeaderPlaces /\ mem \in [Words -> Int] /\ v \in Int
      /\ 2 <= ii /\ ii <= Gap /\ ii \in Int /\ mem[End] = Start
      /\ dptr = IF wrptr + ii >= End THEN wrptr + ii - Size ELSE wrptr + ii
  BY <1>0, <1>1, PoolAssumption DEF PoolTypeOK, WriterInv, WrapInv
<1>4. /\ Gap \in Int /\ Gap <= Size /\ ii < Gap
      /\ Dist(wrptr, dptr) = ii /\ ii \in 0 .. Size - 1
  BY <1>1, <1>3, PoolAssumption DEF Gap, Dist
<1>5. dptr \notin live /\ dptr # End
  BY <1>3, <1>4, WriterWord
<1>6. /\ mem' \in [Words -> Int] /\ mem'[End] = mem[End]
      /\ \A h \in live : mem'[h] = mem[h]
  BY <1>2, <1>3, <1>5, PoolAssumption
<1>7. WrapInv' /\ HeadInv' /\ ChainInv' /\ SignInv'
  BY <1>1, <1>6, QuietStore
<1>8. dptr' = IF dptr + 1 >= End THEN Start + (dptr + 1 - End) ELSE dptr + 1
  BY <1>1, <1>3 DEF Advance
<1>9. PoolTypeOK'
  <2>1. dptr' \in RingWords /\ ii' \in 0 .. Size
    BY <1>1, <1>3, <1>4, <1>8, PoolAssumption
  <2>2. raced' \in BOOLEAN
    BY <1>0, <1>1 DEF PoolTypeOK
  <2>3. QED
    BY <1>0, <1>1, <1>6, <2>1, <2>2 DEF PoolTypeOK
<1>10. FreeInv'
  <2>1. fpc = "loop" => hdr \in live
    BY <1>0 DEF FreeInv, PoolTypeOK
  <2>2. QED  BY <1>0, <1>1, <1>6, <2>1 DEF FreeInv
<1>11. FlagInv'
  BY <1>0, <1>1 DEF FlagInv
<1>12. WriterInv'
  BY <1>1, <1>3, <1>4, <1>8, PoolAssumption DEF WriterInv, Gap, Dist
<1>13. ChainKept
  BY <1>6 DEF RxWord, ChainKept, Next_
<1>14. QED
  BY <1>7, <1>9, <1>10, <1>11, <1>12, <1>13 DEF PoolInv

\* The end of a frame: the tail and hdr->next are stored in the writer's
\* space.
LEMMA RxCommitInv ==
  ASSUME PoolInv, RxCommit
  PROVE  PoolInv' /\ ChainKept
<1> DEFINE e == CommitEnd(dptr)
<1>0. PoolTypeOK /\ FreeInv /\ FlagInv /\ WriterInv
  BY DEF PoolInv
<1>1. /\ wpc = "open" /\ dptr # rdptr /\ ~mii_commit_fails(dptr)
      /\ ~(fpc = "mark" /\ raced)
      /\ dptr' = e /\ wpc' = "publish"
      /\ raced' = (raced \/ fpc = "mark")
      /\ UNCHANGED <<rdptr, wrptr, rdptr_at_start, live, fpc, hdr, old,
                     freed, held, ii>>
  BY DEF RxCommit, RoomForWord, InTime
<1>2. /\ e \in HeaderPlaces /\ e # wrptr /\ Dist(wrptr, e) < Gap
      /\ Dist(wrptr, dptr) = ii /\ ii < Gap /\ ii \in 0 .. Size - 1
  <2>1. NearEnd(dptr) => rdptr # Start
    BY <1>0, <1>1 DEF mii_commit_fails, FlagInv, PoolTypeOK
  <2>2. QED  BY <1>1, <2>1, CommitEndPlace
<1> HIDE DEF e
<1>3. PICK v \in DataWords : mem' = [mem EXCEPT ![dptr] = v, ![wrptr] = e]
  BY DEF RxCommit, e
<1>4. /\ wrptr \in HeaderPlaces /\ dptr \in RingWords /\ wrptr \in RingWords
      /\ live \subseteq HeaderPlaces /\ mem \in [Words -> Int] /\ v \in Int
      /\ rdptr \in HeaderPlaces /\ e \in RingWords
  BY <1>0, <1>2, PoolAssumption DEF PoolTypeOK
<1>5. dptr \notin live /\ dptr # End
  BY <1>2, <1>4, WriterWord
<1>6. wrptr \notin live /\ wrptr # End
  <2>1. Dist(wrptr, wrptr) = 0 /\ 0 < Gap /\ 0 \in 0 .. Size - 1
    BY <1>4, PoolAssumption DEF Dist, Gap
  <2>2. QED  BY <1>4, <2>1, WriterWord
<1>7. /\ mem' \in [Words -> Int] /\ mem'[End] = mem[End] /\ mem'[wrptr] = e
      /\ \A h \in live : mem'[h] = mem[h]
  BY <1>2, <1>3, <1>4, <1>5, <1>6, PoolAssumption
<1>8. WrapInv' /\ HeadInv' /\ ChainInv' /\ SignInv'
  BY <1>1, <1>7, QuietStore
<1>9. PoolTypeOK'
  <2>1. raced' \in BOOLEAN
    BY <1>0, <1>1 DEF PoolTypeOK
  <2>2. QED  BY <1>0, <1>1, <1>4, <1>7, <2>1 DEF PoolTypeOK
<1>10. FreeInv'
  <2>1. fpc = "loop" => hdr \in live
    BY <1>0 DEF FreeInv, PoolTypeOK
  <2>2. QED  BY <1>0, <1>1, <1>7, <2>1 DEF FreeInv
<1>11. FlagInv'
  BY <1>0, <1>1 DEF FlagInv
<1>12. WriterInv'
  BY <1>1, <1>2, <1>7 DEF WriterInv, Gap, Dist
<1>13. ChainKept
  BY <1>7 DEF RxCommit, ChainKept, Next_
<1>14. QED
  BY <1>8, <1>9, <1>10, <1>11, <1>12, <1>13 DEF PoolInv

\* A frame that ends without a packet gives its space back.
LEMMA RxDropInv ==
  ASSUME PoolInv, RxDrop
  PROVE  PoolInv' /\ ChainKept
<1> USE DEF PoolInv, RxDrop, poolVars, freeVars
<1>1. PoolTypeOK' /\ WrapInv' /\ HeadInv' /\ SignInv'
  BY DEF PoolTypeOK, WrapInv, HeadInv, SignInv
<1>2. ChainInv'
  BY DEF ChainInv, Extent, Next_, Dist, Gap
<1>3. FreeInv' /\ FlagInv' /\ WriterInv'
  BY DEF FreeInv, FlagInv, WriterInv
<1>4. ChainKept
  BY DEF ChainKept, Next_
<1>5. QED  BY <1>1, <1>2, <1>3, <1>4

-----------------------------------------------------------------------------
(* The server's read pointer *)

\* The packet at the server's pointer is queued, and its next word is the
\* positive address of its successor.
LEMMA ReaderNext ==
  ASSUME RxInv, my_rdptr # wrptr
  PROVE  /\ my_rdptr \in live /\ my_rdptr \notin held \cup freed
         /\ mem[my_rdptr] = Next_(my_rdptr) /\ mem[my_rdptr] > 0
         /\ Next_(my_rdptr) \in HeaderPlaces
<1>1. my_rdptr \in live
  BY DEF RxInv, ReaderInv
<1>2. my_rdptr \in HeaderPlaces /\ rdptr \in HeaderPlaces
  BY <1>1 DEF RxInv, PoolInv, PoolTypeOK
<1>3. my_rdptr \notin held \cup freed
  BY <1>1, <1>2, PoolAssumption DEF RxInv, ReaderInv, Dist
<1>4. mem[my_rdptr] \in Int
  BY <1>2, PoolAssumption DEF RxInv, PoolInv, PoolTypeOK
<1>5. mem[my_rdptr] >= 0
  BY <1>1, <1>3, <1>4 DEF RxInv, PoolInv, SignInv
<1>6. Next_(my_rdptr) \in HeaderPlaces
  BY <1>1 DEF RxInv, PoolInv, ChainInv, PoolTypeOK
<1>7. mem[my_rdptr] = Next_(my_rdptr)
  BY <1>4, <1>5 DEF Next_, Abs
<1>8. mem[my_rdptr] > 0
  BY <1>6, <1>7, PoolAssumption
<1>9. QED  BY <1>1, <1>3, <1>6, <1>7, <1>8

\* Taking a packet moves the pointer past that packet and no other.
LEMMA ServerTakeInv ==
  ASSUME RxInv, ServerTake
  PROVE  RxInv'
<1> DEFINE n == Next_(my_rdptr)
<1>0. PoolInv /\ ReaderInv
  BY DEF RxInv
<1>1. /\ my_rdptr # wrptr /\ held' = held \cup {my_rdptr}
      /\ UNCHANGED <<rdptr, wrptr, rdptr_at_start, mem, live, fpc, hdr, old,
                     raced, freed, wpc, dptr, ii>>
  BY DEF ServerTake, poolVars, freeVars, writerVars
<1>2. /\ my_rdptr \in live /\ my_rdptr \notin held \cup freed
      /\ my_rdptr' = n /\ n \in HeaderPlaces
  BY <1>1, ReaderNext DEF ServerTake
<1>3. PoolInv'
  <2>1. PoolTypeOK'
    BY <1>0, <1>1, <1>2 DEF PoolInv, PoolTypeOK
  <2>2. WrapInv' /\ HeadInv' /\ SignInv' /\ FreeInv' /\ FlagInv'
    BY <1>0, <1>1 DEF PoolInv, WrapInv, HeadInv, SignInv, FreeInv, FlagInv, NearEnd
  <2>3. ChainInv' /\ WriterInv'
    BY <1>0, <1>1 DEF PoolInv, ChainInv, WriterInv, Extent, Next_, Dist, Gap
  <2>4. QED  BY <2>1, <2>2, <2>3 DEF PoolInv
<1>4. /\ n \in live \cup {wrptr} /\ n # my_rdptr
      /\ \A g \in live \ {my_rdptr} : Dist(my_rdptr, g) >= Dist(my_rdptr, n)
      /\ Dist(my_rdptr, wrptr) >= Dist(my_rdptr, n)
      /\ \A g \in live : Dist(wrptr, g) >= Dist(wrptr, rdptr)
      /\ rdptr # wrptr
  BY <1>0, <1>2 DEF PoolInv, ChainInv, Extent, Gap, HeadInv
<1> HIDE DEF n
<1>5. live \subseteq HeaderPlaces /\ wrptr \in HeaderPlaces /\ rdptr \in HeaderPlaces
  BY <1>0 DEF PoolInv, PoolTypeOK
<1>6. Dist(rdptr, my_rdptr) < Dist(rdptr, n)
  BY <1>2, <1>4, <1>5, PoolAssumption DEF Dist
<1>7. ASSUME NEW h \in live
      PROVE  h \in held' \cup freed' <=> Dist(rdptr, h) < Dist(rdptr, n)
  <2>1. CASE h = my_rdptr
    BY <1>1, <1>6, <2>1
  <2>2. CASE h # my_rdptr
    <3>1. h \in held' \cup freed' <=> Dist(rdptr, h) < Dist(rdptr, my_rdptr)
      BY <1>0, <1>1, <2>2 DEF ReaderInv
    <3>2. /\ Dist(my_rdptr, h) >= Dist(my_rdptr, n)
          /\ Dist(wrptr, h) >= Dist(wrptr, rdptr) /\ h \in HeaderPlaces
          /\ Dist(wrptr, my_rdptr) >= Dist(wrptr, rdptr)
      BY <1>2, <1>4, <1>5, <2>2
    <3>3. Dist(rdptr, h) < Dist(rdptr, my_rdptr) <=> Dist(rdptr, h) < Dist(rdptr, n)
      BY <1>2, <1>4, <1>5, <2>2, <3>2, PoolAssumption DEF Dist
    <3>4. QED  BY <3>1, <3>3
  <2>3. QED  BY <2>1, <2>2
<1>8. ReaderInv'
  BY <1>1, <1>2, <1>4, <1>7 DEF ReaderInv, Dist
<1>9. QED  BY <1>3, <1>8 DEF RxInv

\* Steps that move neither pointer and keep the set of taken packets keep
\* the server's view.
LEMMA ReaderUnmoved ==
  ASSUME ReaderInv, UNCHANGED <<rdptr, wrptr, live, my_rdptr>>,
         (held \cup freed)' = held \cup freed
  PROVE  ReaderInv'
BY DEF ReaderInv, Dist

\* The oldest packet is reclaimed: every distance shrinks by its extent.
LEMMA ReaderOldest ==
  ASSUME RxInv, FreeOldest, UNCHANGED my_rdptr
  PROVE  ReaderInv'
<1> DEFINE n == Next_(rdptr)
<1>0. PoolInv /\ ReaderInv /\ PoolTypeOK /\ FreeInv /\ HeadInv
  BY DEF RxInv, PoolInv
<1>1. /\ hdr = rdptr /\ rdptr \in live /\ rdptr \in freed /\ rdptr # wrptr
      /\ rdptr' = n /\ wrptr' = wrptr /\ live' = live \ {rdptr}
      /\ freed' = freed \ {rdptr} /\ held' = held /\ rdptr \notin held
      /\ my_rdptr' = my_rdptr
  BY <1>0 DEF FreeOldest, FreeInv, PoolTypeOK, HeadInv
<1>2. /\ n \in HeaderPlaces
      /\ \A g \in live \ {rdptr} : Dist(rdptr, g) >= Dist(rdptr, n)
      /\ Dist(rdptr, wrptr) >= Dist(rdptr, n)
  BY <1>0, <1>1 DEF PoolInv, ChainInv, Extent, PoolTypeOK
<1> HIDE DEF n
<1>3. /\ live \subseteq HeaderPlaces /\ wrptr \in HeaderPlaces
      /\ rdptr \in HeaderPlaces /\ my_rdptr \in live \cup {wrptr}
  BY <1>0 DEF PoolTypeOK, ReaderInv
<1>4. my_rdptr # rdptr
  BY <1>0, <1>1, <1>3, PoolAssumption DEF ReaderInv, Dist
<1>5. Dist(rdptr, my_rdptr) >= Dist(rdptr, n) /\ my_rdptr \in HeaderPlaces
  BY <1>2, <1>3, <1>4
<1>6. ASSUME NEW h \in live'
      PROVE  h \in held' \cup freed' <=> Dist(n, h) < Dist(n, my_rdptr)
  <2>1. h \in held' \cup freed' <=> Dist(rdptr, h) < Dist(rdptr, my_rdptr)
    BY <1>0, <1>1 DEF ReaderInv
  <2>2. Dist(rdptr, h) >= Dist(rdptr, n) /\ h \in HeaderPlaces
    BY <1>1, <1>2, <1>3
  <2>3. Dist(rdptr, h) < Dist(rdptr, my_rdptr) <=> Dist(n, h) < Dist(n, my_rdptr)
    BY <1>2, <1>3, <1>5, <2>2, PoolAssumption DEF Dist
  <2>4. QED  BY <2>1, <2>3
<1>7. QED
  BY <1>1, <1>3, <1>4, <1>6 DEF ReaderInv, Dist

\* A new packet is published behind the server's pointer.
LEMMA ReaderPublish ==
  ASSUME RxInv, RxPublish
  PROVE  ReaderInv'
<1>0. PoolInv /\ ReaderInv /\ PoolTypeOK /\ HeadInv
  BY DEF RxInv, PoolInv
<1>1. /\ rdptr' = rdptr /\ live' = live \cup {wrptr} /\ my_rdptr' = my_rdptr
      /\ held' = held /\ freed' = freed /\ held \subseteq live /\ freed \subseteq live
  BY <1>0 DEF RxPublish, Publish, freeVars, PoolTypeOK
<1>2. my_rdptr \in live \cup {wrptr} /\ live \subseteq HeaderPlaces
      /\ wrptr \in HeaderPlaces /\ rdptr \in HeaderPlaces
  BY <1>0 DEF ReaderInv, PoolTypeOK
<1>3. \A g \in live : Dist(wrptr, g) >= Dist(wrptr, rdptr) /\ rdptr # wrptr
  BY <1>0 DEF PoolInv, ChainInv, Gap, HeadInv
<1>4. wrptr \notin live
  BY <1>2, <1>3, PoolAssumption DEF Dist
<1>5. ~(Dist(rdptr, wrptr) < Dist(rdptr, my_rdptr))
  BY <1>2, <1>3, PoolAssumption DEF Dist
<1>6. QED
  BY <1>0, <1>1, <1>2, <1>4, <1>5 DEF ReaderInv, Dist

-----------------------------------------------------------------------------
(* The theorems *)

\* RxInv is inductive.
LEMMA RxNextInv == RxInv /\ [Next]_vars => RxInv'
<1> SUFFICES ASSUME RxInv, [Next]_vars PROVE RxInv'
  OBVIOUS
<1>0. PoolInv /\ ReaderInv
  BY DEF RxInv
<1>1. CASE mii_reserve
  <2>1. PoolInv'
    BY <1>0, <1>1, ReserveInv
  <2>2. ReaderInv'
    BY <1>0, <1>1, ReaderUnmoved DEF mii_reserve, freeVars
  <2>3. QED  BY <2>1, <2>2 DEF RxInv
<1>2. CASE RxWord
  <2>1. PoolInv'
    BY <1>0, <1>2, RxWordInv
  <2>2. ReaderInv'
    BY <1>0, <1>2, ReaderUnmoved DEF RxWord
  <2>3. QED  BY <2>1, <2>2 DEF RxInv
<1>3. CASE RxCommit
  <2>1. PoolInv'
    BY <1>0, <1>3, RxCommitInv
  <2>2. ReaderInv'
    BY <1>0, <1>3, ReaderUnmoved DEF RxCommit
  <2>3. QED  BY <2>1, <2>2 DEF RxInv
<1>4. CASE RxPublish
  <2>1. PoolInv'
    BY <1>0, <1>4, PublishInv DEF RxPublish
  <2>2. ReaderInv'
    BY <1>4, ReaderPublish
  <2>3. QED  BY <2>1, <2>2 DEF RxInv
<1>5. CASE RxDrop
  <2>1. PoolInv'
    BY <1>0, <1>5, RxDropInv
  <2>2. ReaderInv'
    BY <1>0, <1>5, ReaderUnmoved DEF RxDrop, poolVars, freeVars
  <2>3. QED  BY <2>1, <2>2 DEF RxInv
<1>6. CASE ServerTake
  BY <1>6, ServerTakeInv
<1>7. CASE ServerFree
  <2>1. PICK h \in held : mii_free(h)
    BY <1>7 DEF ServerFree
  <2>2. PoolInv'
    BY <1>0, <2>1, FreeBeginInv
  <2>3. (held \cup freed)' = held \cup freed
    BY <2>1 DEF mii_free
  <2>4. ReaderInv'
    BY <1>0, <1>7, <2>1, <2>3, ReaderUnmoved DEF mii_free, poolVars, ServerFree
  <2>5. QED  BY <2>2, <2>4 DEF RxInv
<1>8. CASE Free
  <2>1. PoolInv'
    BY <1>0, <1>8, FreeStepInv DEF Free
  <2>2. ReaderInv'
    <3>1. CASE FreeOldest
      BY <1>8, <3>1, ReaderOldest DEF Free
    <3>2. CASE FreeYounger \/ FreeMark \/ FreeTests
      BY <1>0, <1>8, <3>2, ReaderUnmoved
         DEF Free, FreeYounger, FreeMark, FreeTests, poolVars
    <3>3. QED  BY <1>8, <3>1, <3>2 DEF Free, FreeStep
  <2>3. QED  BY <2>1, <2>2 DEF RxInv
<1>9. CASE UNCHANGED vars
  <2> USE <1>0, <1>9 DEF vars, mallocVars, poolVars, freeVars, writerVars
  <2>1. PoolTypeOK' /\ WrapInv' /\ HeadInv' /\ SignInv' /\ FreeInv' /\ FlagInv'
    BY DEF PoolInv, PoolTypeOK, WrapInv, HeadInv, SignInv, FreeInv, FlagInv, NearEnd
  <2>2. ChainInv' /\ WriterInv'
    BY DEF PoolInv, ChainInv, WriterInv, Extent, Next_, Dist, Gap
  <2>3. ReaderInv'
    BY ReaderUnmoved
  <2>4. QED  BY <2>1, <2>2, <2>3 DEF RxInv, PoolInv
<1>10. QED
  BY <1>1, <1>2, <1>3, <1>4, <1>5, <1>6, <1>7, <1>8, <1>9 DEF Next, Writer

\* The invariant of the receive pool.
THEOREM RxInvariant == Spec => []RxInv
BY RxInitInv, RxNextInv, PTL DEF Spec

\* Type correctness: pointers are always at places where a header fits
\* before the end of the pool, as the comment in mii_reserve assumes.
THEOREM RxTypeCorrect == Spec => []TypeOK
<1>1. RxInv => TypeOK
  BY DEF RxInv, PoolInv, PoolTypeOK, ReaderInv, TypeOK
<1>2. QED  BY <1>1, RxInvariant, PTL

\* mii_rx_pins never stores into a packet that is not yet reclaimed, and
\* packets never share a word.
THEOREM RxNoOverlap == Spec => []NoOverlap
<1>1. RxInv => NoOverlap
  <2> SUFFICES ASSUME RxInv, NEW h \in live
               PROVE  /\ \A g \in live \ {h} : Dist(h, g) >= Extent(h)
                      /\ Dist(h, wrptr) >= Extent(h)
                      /\ wpc \in {"reserved", "open"} => Dist(wrptr, h) >= ii
    BY DEF NoOverlap
  <2>1. /\ \A g \in live \ {h} : Dist(h, g) >= Extent(h)
        /\ Dist(h, wrptr) >= Extent(h) /\ Dist(wrptr, h) >= Gap
    BY DEF RxInv, PoolInv, ChainInv
  <2>2. wpc \in {"reserved", "open"} => ii <= Gap
    BY DEF RxInv, PoolInv, WriterInv
  <2>3. Gap \in Int /\ ii \in Int /\ Dist(wrptr, h) \in Int
    BY PoolAssumption DEF RxInv, PoolInv, PoolTypeOK, Gap, Dist
  <2>4. QED  BY <2>1, <2>2, <2>3
<1>2. QED  BY <1>1, RxInvariant, PTL

\* A pool that holds packets never looks empty, nor an empty one occupied:
\* mii_commit's rdptr_at_start test does what its comment says.
THEOREM RxLooksEmptyIffEmpty == Spec => []LooksEmptyIffEmpty
<1>1. RxInv => LooksEmptyIffEmpty
  BY DEF RxInv, PoolInv, HeadInv, LooksEmptyIffEmpty
<1>2. QED  BY <1>1, RxInvariant, PTL

\* No space is lost to released packets, whatever mii_commit does while
\* mii_free tests for the end of the chain.
THEOREM RxNothingLeaks == Spec => []NothingLeaks
<1>1. RxInv => NothingLeaks
  BY DEF RxInv, PoolInv, HeadInv, FreeInv, NothingLeaks
<1>2. QED  BY <1>1, RxInvariant, PTL

\* The next pointer that mii_update_my_rdptr reads is always positive: the
\* trap of MII_MALLOC_ASSERT is never taken.
THEOREM RxReaderOnChain == Spec => []ReaderOnChain
<1>1. RxInv => ReaderOnChain
  <2> SUFFICES ASSUME RxInv PROVE ReaderOnChain
    OBVIOUS
  <2>1. CASE my_rdptr = wrptr
    <3>1. ASSUME NEW h \in live  PROVE h \in held \cup freed
      <4>1. /\ Dist(wrptr, h) >= Gap /\ rdptr # wrptr
            /\ wrptr \in HeaderPlaces /\ rdptr \in HeaderPlaces /\ h \in HeaderPlaces
        BY DEF RxInv, PoolInv, ChainInv, HeadInv, PoolTypeOK
      <4>2. Dist(rdptr, h) < Dist(rdptr, wrptr)
        BY <4>1, PoolAssumption DEF Dist, Gap
      <4>3. QED  BY <2>1, <4>2 DEF RxInv, ReaderInv
    <3>2. QED  BY <2>1, <3>1 DEF ReaderOnChain, Queued
  <2>2. CASE my_rdptr # wrptr
    BY <2>2, ReaderNext DEF ReaderOnChain, Queued
  <2>3. QED  BY <2>1, <2>2
<1>2. QED  BY <1>1, RxInvariant, PTL

-----------------------------------------------------------------------------
(* The receive pool implements PacketPool *)

ChainInvs == RxInv /\ OrderInv /\ ServerPlace

\* The server's place is kept when nothing is taken and no packet moves.
LEMMA PlaceKept ==
  ASSUME ServerPlace, UNCHANGED <<wrptr, order, my_rdptr>>,
         (held \cup freed)' = held \cup freed
  PROVE  ServerPlace'
BY DEF ServerPlace

\* Steps that leave the chain of headers alone and take nothing.
LEMMA QuietRx ==
  ASSUME ChainInvs, ChainKept, my_rdptr' = my_rdptr,
         (held \cup freed)' = held \cup freed
  PROVE  OrderInv' /\ ServerPlace'
<1>1. OrderInv'
  BY OrderKept DEF ChainInvs
<1>2. ServerPlace'
  BY PlaceKept DEF ChainInvs, ChainKept
<1>3. QED  BY <1>1, <1>2

\* The server takes the first packet that it has not got.
LEMMA TakeStep ==
  ASSUME ChainInvs, ServerTake
  PROVE  OrderInv' /\ ServerPlace' /\ Pool!mii_get_next_buf
<1>1. /\ my_rdptr # wrptr /\ held' = held \cup {my_rdptr} /\ freed' = freed
      /\ my_rdptr' = mem[my_rdptr] /\ order' = order /\ wrptr' = wrptr
      /\ ChainKept
  BY DEF ServerTake, poolVars, freeVars, ChainKept, Next_
<1>2. /\ mem[my_rdptr] = Next_(my_rdptr) /\ my_rdptr \notin held \cup freed
  BY <1>1, ReaderNext DEF ChainInvs
<1>3. PICK n \in 0 .. Len(order) :
        /\ \A k \in 1 .. Len(order) : order[k] \in held \cup freed <=> k <= n
        /\ my_rdptr = IF n = Len(order) THEN wrptr ELSE order[n + 1]
  BY DEF ChainInvs, ServerPlace
<1>4. Len(order) \in Nat
  BY DEF ChainInvs, OrderInv
<1>5. n + 1 \in 1 .. Len(order) /\ my_rdptr = order[n + 1]
  BY <1>1, <1>3, <1>4
<1>6. my_rdptr' = IF n + 1 = Len(order) THEN wrptr ELSE order[(n + 1) + 1]
  <2>1. my_rdptr' = IF n + 1 < Len(order) THEN order[(n + 1) + 1] ELSE wrptr
    BY <1>1, <1>2, <1>5 DEF ChainInvs, OrderInv
  <2>2. n + 1 < Len(order) <=> n + 1 # Len(order)
    BY <1>4, <1>5
  <2>3. QED  BY <2>1, <2>2
<1>7. ASSUME NEW k \in 1 .. Len(order)
      PROVE  order[k] \in held' \cup freed' <=> k <= n + 1
  <2>1. CASE k = n + 1
    BY <1>1, <1>4, <1>5, <2>1
  <2>2. CASE k # n + 1
    <3>1. order[k] # my_rdptr
      BY <1>5, <2>2 DEF ChainInvs, OrderInv
    <3>2. k <= n <=> k <= n + 1
      BY <1>4, <2>2
    <3>3. QED  BY <1>1, <1>3, <3>1, <3>2
  <2>3. QED  BY <2>1, <2>2
<1>8. ServerPlace'
  <2>1. n + 1 \in 0 .. Len(order)
    BY <1>4, <1>5
  <2>2. QED  BY <1>1, <1>6, <1>7, <2>1 DEF ServerPlace
<1>9. Pool!mii_get_next_buf
  <2>1. \A j \in 1 .. (n + 1) - 1 : order[j] \in held \cup freed
    BY <1>3, <1>4, <1>5
  <2>2. held' \cup freed' = (held \cup freed) \cup {order[n + 1]}
    BY <1>1, <1>5
  <2>3. QED  BY <1>1, <1>2, <1>5, <2>1, <2>2 DEF Pool!mii_get_next_buf
<1>10. OrderInv'
  BY <1>1, OrderKept DEF ChainInvs
<1>11. QED  BY <1>8, <1>9, <1>10

\* The oldest packet is in front of the server's place.
LEMMA PlaceOldest ==
  ASSUME ChainInvs, FreeOldest, my_rdptr' = my_rdptr
  PROVE  ServerPlace'
<1>1. /\ order # <<>> /\ Head(order) = rdptr /\ order' = Tail(order)
      /\ rdptr \in freed /\ held' = held /\ freed' = freed \ {rdptr}
      /\ rdptr \notin held
  BY OrderOldest DEF ChainInvs, RxInv
<1>2. /\ wrptr' = wrptr /\ order \in Seq(HeaderPlaces)
      /\ \A j, k \in 1 .. Len(order) : order[j] = order[k] => j = k
  BY DEF FreeOldest, ChainInvs, OrderInv
<1>3. PICK s \in Seq(HeaderPlaces) : s = order
  BY <1>2
<1>4. /\ Len(s) \in Nat /\ Len(s) > 0 /\ s[1] = rdptr
      /\ Len(Tail(s)) = Len(s) - 1
      /\ \A k \in 1 .. Len(s) - 1 : Tail(s)[k] = s[k + 1]
  BY <1>1, <1>3
<1>5. PICK n \in 0 .. Len(s) :
        /\ \A k \in 1 .. Len(s) : s[k] \in held \cup freed <=> k <= n
        /\ my_rdptr = IF n = Len(s) THEN wrptr ELSE s[n + 1]
  BY <1>3 DEF ChainInvs, ServerPlace
<1>6. n >= 1
  <2>1. 1 \in 1 .. Len(s)
    BY <1>4
  <2>2. QED  BY <1>1, <1>4, <1>5, <2>1
<1>7. ASSUME NEW k \in 1 .. Len(s) - 1
      PROVE  Tail(s)[k] \in held' \cup freed' <=> k <= n - 1
  <2>1. k + 1 \in 1 .. Len(s) /\ 1 \in 1 .. Len(s) /\ k + 1 # 1
    BY <1>4
  <2>2. s[k + 1] # rdptr
    BY <1>2, <1>3, <1>4, <2>1
  <2>3. s[k + 1] \in held' \cup freed' <=> k + 1 <= n
    BY <1>1, <1>5, <2>1, <2>2
  <2>4. QED  BY <1>4, <1>5, <2>3
<1>8. my_rdptr' = IF n - 1 = Len(Tail(s)) THEN wrptr ELSE Tail(s)[(n - 1) + 1]
  <2>1. CASE n = Len(s)
    BY <1>4, <1>5, <2>1
  <2>2. CASE n # Len(s)
    <3>1. n \in 1 .. Len(s) - 1 /\ (n - 1) + 1 = n /\ n - 1 # Len(s) - 1
      BY <1>4, <1>5, <1>6, <2>2
    <3>2. QED  BY <1>4, <1>5, <2>2, <3>1
  <2>3. QED  BY <2>1, <2>2
<1>9. n - 1 \in 0 .. Len(Tail(s))
  BY <1>4, <1>5, <1>6
<1>10. order' = Tail(s) /\ wrptr' = wrptr
  BY <1>1, <1>2, <1>3
<1>11. \A k \in 1 .. Len(Tail(s)) :
         Tail(s)[k] \in held' \cup freed' <=> k <= n - 1
  BY <1>4, <1>7
<1>12. QED  BY <1>8, <1>9, <1>10, <1>11 DEF ServerPlace

\* A new packet is behind the server's place.
LEMMA PlacePublish ==
  ASSUME ChainInvs, RxPublish
  PROVE  ServerPlace'
<1>1. /\ wrptr \in HeaderPlaces /\ wrptr \notin live
      /\ held \subseteq live /\ freed \subseteq live
  BY OrderPublish DEF ChainInvs, RxInv, RxPublish, PoolInv, PoolTypeOK
<1>2. /\ order' = Append(order, wrptr) /\ held' = held /\ freed' = freed
      /\ my_rdptr' = my_rdptr
  BY DEF RxPublish, Publish, freeVars
<1>3. order \in Seq(HeaderPlaces) /\ Len(order) \in Nat
  BY DEF ChainInvs, OrderInv
<1>4. PICK n \in 0 .. Len(order) :
        /\ \A k \in 1 .. Len(order) : order[k] \in held \cup freed <=> k <= n
        /\ my_rdptr = IF n = Len(order) THEN wrptr ELSE order[n + 1]
  BY DEF ChainInvs, ServerPlace
<1>5. PICK s : s = Append(order, wrptr)
  OBVIOUS
<1>6. /\ Len(s) = Len(order) + 1 /\ s[Len(order) + 1] = wrptr
      /\ \A k \in 1 .. Len(order) : s[k] = order[k]
  BY <1>1, <1>3, <1>5, AppendEntry
<1>7. ASSUME NEW k \in 1 .. Len(s)  PROVE s[k] \in held' \cup freed' <=> k <= n
  <2>1. CASE k = Len(order) + 1
    BY <1>1, <1>2, <1>3, <1>4, <1>6, <2>1
  <2>2. CASE k \in 1 .. Len(order)
    BY <1>2, <1>4, <1>6, <2>2
  <2>3. QED  BY <1>3, <1>6, <2>1, <2>2
<1>8. my_rdptr' = IF n = Len(s) THEN wrptr' ELSE s[n + 1]
  <2>1. CASE n = Len(order)
    BY <1>2, <1>3, <1>4, <1>6, <2>1
  <2>2. CASE n # Len(order)
    <3>1. n + 1 \in 1 .. Len(order) /\ n # Len(s)
      BY <1>3, <1>4, <1>6, <2>2
    <3>2. QED  BY <1>2, <1>4, <1>6, <2>2, <3>1
  <2>3. QED  BY <2>1, <2>2
<1>9. n \in 0 .. Len(s) /\ order' = s
  BY <1>2, <1>3, <1>4, <1>5, <1>6
<1>10. QED  BY <1>7, <1>8, <1>9 DEF ServerPlace

\* Every step keeps the invariants and is one of PacketPool or a stutter.
LEMMA RxPoolStep ==
  ASSUME ChainInvs, [Next]_vars
  PROVE  ChainInvs' /\ [Pool!Next]_(Pool!vars)
<1>0. PoolInv /\ RxInv /\ OrderInv /\ ServerPlace
  BY DEF ChainInvs, RxInv
<1>1. RxInv'
  BY <1>0, RxNextInv
<1> DEFINE Goal == OrderInv' /\ ServerPlace' /\ [Pool!Next]_(Pool!vars)
           Quiet == ChainKept /\ UNCHANGED <<my_rdptr, held, freed>>
<1> SUFFICES Goal
  BY <1>1 DEF ChainInvs
<1>2. Quiet => Goal
  <2>1. SUFFICES ASSUME Quiet  PROVE Goal
    OBVIOUS
  <2>2. (held \cup freed)' = held \cup freed
    BY <2>1
  <2>3. UNCHANGED Pool!vars
    BY <2>1, <2>2, KeptIsStutter
  <2>4. QED  BY <2>1, <2>2, <2>3, QuietRx
<1>3. CASE mii_reserve
  <2>1. ChainKept
    BY <1>0, <1>3, ReserveInv
  <2>2. QED  BY <1>2, <1>3, <2>1 DEF mii_reserve, freeVars
<1>4. CASE RxWord
  <2>1. ChainKept
    BY <1>0, <1>4, RxWordInv
  <2>2. QED  BY <1>2, <1>4, <2>1 DEF RxWord
<1>5. CASE RxCommit
  <2>1. ChainKept
    BY <1>0, <1>5, RxCommitInv
  <2>2. QED  BY <1>2, <1>5, <2>1 DEF RxCommit
<1>6. CASE RxDrop
  <2>1. ChainKept
    BY <1>0, <1>6, RxDropInv
  <2>2. QED  BY <1>2, <1>6, <2>1 DEF RxDrop, freeVars
<1>7. CASE RxPublish
  <2>1. OrderInv' /\ Pool!mii_commit
    BY <1>0, <1>7, OrderPublish, PublishStep DEF RxPublish
  <2>2. ServerPlace'
    BY <1>7, PlacePublish
  <2>3. QED  BY <2>1, <2>2 DEF Pool!Next
<1>8. CASE ServerTake
  BY <1>8, TakeStep DEF Pool!Next
<1>9. CASE ServerFree
  <2>1. PICK h \in held : mii_free(h)
    BY <1>9 DEF ServerFree
  <2>2. ChainKept /\ Pool!mii_free
    BY <1>0, <2>1, FreeBeginInv, FreeBeginStep
  <2>3. (held \cup freed)' = held \cup freed /\ my_rdptr' = my_rdptr
    BY <1>9, <2>1 DEF mii_free, ServerFree
  <2>4. QED  BY <2>2, <2>3, QuietRx DEF Pool!Next
<1>10. CASE Free
  <2>1. CASE FreeOldest
    <3>1. OrderInv' /\ Pool!Reclaim
      BY <1>0, <2>1, OrderOldest, OldestStep
    <3>2. ServerPlace'
      BY <1>10, <2>1, PlaceOldest DEF Free
    <3>3. QED  BY <3>1, <3>2 DEF Pool!Next
  <2>2. CASE FreeYounger \/ FreeMark \/ FreeTests
    <3>1. fpc' # "mark" /\ (FreeOldest => fpc' = "mark")
      BY <2>2 DEF FreeYounger, FreeMark, FreeTests, FreeOldest
    <3>2. ChainKept
      BY <1>0, <1>10, <3>1, FreeStepInv DEF Free
    <3>3. UNCHANGED <<my_rdptr, held, freed>>
      BY <1>10, <2>2 DEF Free, FreeYounger, FreeMark, FreeTests
    <3>4. QED  BY <1>2, <3>2, <3>3
  <2>3. QED  BY <1>10, <2>1, <2>2 DEF Free, FreeStep
<1>11. CASE UNCHANGED vars
  <2>1. ChainKept
    BY <1>11 DEF vars, mallocVars, poolVars, ChainKept, Next_
  <2>2. QED  BY <1>2, <1>11, <2>1 DEF vars, mallocVars, freeVars
<1>12. QED
  BY <1>3, <1>4, <1>5, <1>6, <1>7, <1>8, <1>9, <1>10, <1>11 DEF Next, Writer

\* The receive pool, with its words and its races, is the sequence of packets
\* that mii_malloc.h promises: none is lost, got twice or out of order,
\* reclaimed before it is released, or put where another one is.
THEOREM RxImplementsPool == Spec => Pool!SafeSpec
<1>1. Init => ChainInvs /\ Pool!mii_init_mempool
  <2>1. SUFFICES ASSUME Init  PROVE ChainInvs /\ Pool!mii_init_mempool
    OBVIOUS
  <2>2. RxInv /\ OrderInv
    BY <2>1, RxInitInv, OrderInit DEF Init
  <2>3. order = <<>> /\ held = {} /\ freed = {} /\ my_rdptr = wrptr
    BY <2>1 DEF Init, mii_init_mempool
  <2>4. ServerPlace
    BY <2>3 DEF ServerPlace
  <2>5. QED  BY <2>2, <2>3, <2>4 DEF ChainInvs, Pool!mii_init_mempool
<1>2. ChainInvs /\ [Next]_vars => ChainInvs' /\ [Pool!Next]_(Pool!vars)
  BY RxPoolStep
<1>3. QED  BY <1>1, <1>2, PTL DEF Spec, Pool!SafeSpec

-----------------------------------------------------------------------------
(* The transmit pool *)

\* No packet takes all the words that are asked for.
Shorter == MaxUse < MinSize

\* The words asked for are free, and fit before the end if rdptr is there.
LEMMA TxReserveInv ==
  ASSUME TxInv, Shorter, mii_reserve_at_least
  PROVE  TxInv' /\ ChainKept
<1>0. PoolTypeOK /\ FreeInv /\ FlagInv /\ PoolInv
  BY DEF TxInv, PoolInv
<1>1. /\ wpc = "idle" /\ wpc' = "reserved" /\ fpc # "mark"
      /\ dptr' = wrptr + HdrWords /\ ii' = HdrWords
      /\ UNCHANGED <<rdptr, wrptr, rdptr_at_start, live, fpc, hdr, old, raced,
                     freed, held>>
  BY DEF mii_reserve_at_least, freeVars
<1>2. PICK v \in DataWords :
        mem' = [a \in Words |->
                  IF a \in wrptr + 1 .. wrptr + HdrWords - 1 THEN v ELSE mem[a]]
  BY DEF mii_reserve_at_least
<1>3. /\ wrptr \in HeaderPlaces /\ rdptr \in HeaderPlaces
      /\ live \subseteq HeaderPlaces /\ mem \in [Words -> Int] /\ v \in Int
  BY <1>0, PoolAssumption DEF PoolTypeOK
<1>4. /\ Gap = SpaceLeft /\ Gap \in Int /\ MinSize <= Gap
      /\ rdptr = Start => wrptr + MinSize + MinUsage <= End
  BY <1>3, PoolAssumption, TxAssumption
     DEF Gap, Dist, SpaceLeft, mii_reserve_at_least, CanReserveAtLeast
<1>5. mem' \in [Words -> Int] /\ mem'[End] = mem[End]
  BY <1>2, <1>3, PoolAssumption, TxAssumption
<1>6. ASSUME NEW h \in live  PROVE mem'[h] = mem[h]
  <2>1. h \in HeaderPlaces /\ Dist(wrptr, h) >= Gap
    BY <1>0, <1>3 DEF PoolInv, ChainInv
  <2>2. h \notin wrptr + 1 .. wrptr + HdrWords - 1
    BY <1>3, <1>4, <2>1, PoolAssumption, TxAssumption DEF Dist
  <2>3. QED  BY <1>2, <2>1, <2>2, PoolAssumption
<1>7. WrapInv' /\ HeadInv' /\ ChainInv' /\ SignInv'
  BY <1>0, <1>1, <1>5, <1>6, QuietStore
<1>8. dptr' \in RingWords /\ ii' \in 0 .. Size
  BY <1>1, <1>3, PoolAssumption, TxAssumption
<1>9. PoolTypeOK'
  BY <1>0, <1>1, <1>5, <1>8 DEF PoolTypeOK
<1>10. FreeInv'
  <2>1. fpc = "loop" => hdr \in live
    BY <1>0 DEF FreeInv, PoolTypeOK
  <2>2. QED  BY <1>0, <1>1, <1>6, <2>1 DEF FreeInv
<1>11. FlagInv'
  BY <1>0, <1>1 DEF FlagInv
<1>12. WriterInv'
  BY <1>1, <1>3, <1>4, PoolAssumption, TxAssumption DEF WriterInv, Gap, Dist
<1>13. RoomInv'
  BY <1>0, <1>1, <1>4, TxAssumption DEF RoomInv, Gap, Dist, FlagInv
<1>14. ChainKept
  BY <1>6 DEF mii_reserve_at_least, ChainKept, Next_
<1>15. QED
  BY <1>7, <1>9, <1>10, <1>11, <1>12, <1>13, <1>14 DEF TxInv, PoolInv

\* The whole frame goes into the words that were asked for.
LEMMA TxCopyInv ==
  ASSUME TxInv, Shorter, get_packet_from_client
  PROVE  TxInv' /\ ChainKept
<1>0. PoolTypeOK /\ FreeInv /\ FlagInv /\ PoolInv /\ WrapInv /\ RoomInv
  BY DEF TxInv, PoolInv
<1>1. /\ wpc = "reserved" /\ wpc' = "open"
      /\ UNCHANGED <<rdptr, wrptr, rdptr_at_start, live, fpc, hdr, old, raced,
                     freed, held>>
  BY DEF get_packet_from_client, freeVars
<1>2. PICK n \in HdrWords + 1 .. MaxUse, v \in DataWords :
        /\ dptr' = Advance(wrptr, n) /\ ii' = n
        /\ mem' = [a \in Words |->
                     IF a # End /\ Dist(wrptr, a) \in HdrWords .. n - 1
                     THEN v ELSE mem[a]]
  BY DEF get_packet_from_client
<1>3. /\ wrptr \in HeaderPlaces /\ rdptr \in HeaderPlaces
      /\ live \subseteq HeaderPlaces /\ mem \in [Words -> Int] /\ v \in Int
      /\ MinSize <= Gap /\ mem[End] = Start /\ n \in Int
      /\ rdptr = Start \/ rdptr_at_start => wrptr + MinSize + MinUsage <= End
  BY <1>0, <1>1, PoolAssumption, TxAssumption DEF PoolTypeOK, RoomInv, WrapInv
<1>4. Gap \in Int /\ n < Gap /\ Gap <= Size
  BY <1>3, PoolAssumption, TxAssumption DEF Gap, Dist, Shorter
<1>5. mem' \in [Words -> Int] /\ mem'[End] = mem[End]
  BY <1>2, <1>3, PoolAssumption
<1>6. ASSUME NEW h \in live  PROVE mem'[h] = mem[h]
  <2>1. h \in HeaderPlaces /\ Dist(wrptr, h) >= Gap
    BY <1>0, <1>3 DEF PoolInv, ChainInv
  <2>2. Dist(wrptr, h) \notin HdrWords .. n - 1
    BY <1>3, <1>4, <2>1, PoolAssumption, TxAssumption DEF Dist
  <2>3. QED  BY <1>2, <2>1, <2>2, PoolAssumption
<1>7. WrapInv' /\ HeadInv' /\ ChainInv' /\ SignInv'
  BY <1>0, <1>1, <1>5, <1>6, QuietStore
<1>8. dptr' = IF wrptr + n >= End THEN wrptr + n - Size ELSE wrptr + n
  BY <1>2, <1>3, PoolAssumption DEF Advance
<1>9. dptr' \in RingWords /\ ii' \in 0 .. Size
  BY <1>2, <1>3, <1>4, <1>8, PoolAssumption, TxAssumption
<1>10. PoolTypeOK'
  BY <1>0, <1>1, <1>5, <1>9 DEF PoolTypeOK
<1>11. FreeInv'
  <2>1. fpc = "loop" => hdr \in live
    BY <1>0 DEF FreeInv, PoolTypeOK
  <2>2. QED  BY <1>0, <1>1, <1>6, <2>1 DEF FreeInv
<1>12. FlagInv'
  <2>1. rdptr = Start => ~(End - dptr' < MinUsage)
    BY <1>2, <1>3, <1>8, PoolAssumption, TxAssumption DEF Shorter
  <2>2. QED  BY <1>0, <1>1, <2>1 DEF FlagInv, NearEnd
<1>13. WriterInv'
  BY <1>1, <1>2, <1>3, <1>4, <1>8, PoolAssumption, TxAssumption
     DEF WriterInv, Gap, Dist
<1>14. RoomInv'
  BY <1>1, <1>2, <1>3 DEF RoomInv, Gap, Dist
<1>15. ChainKept
  BY <1>6 DEF get_packet_from_client, ChainKept, Next_
<1>16. QED
  BY <1>7, <1>10, <1>11, <1>12, <1>13, <1>14, <1>15 DEF TxInv, PoolInv

\* There is room for a header after the packet wherever it ends near the end
\* of the pool, unless the header goes to the start.
LEMMA TxNotRefused ==
  ASSUME TxInv, Shorter, wpc = "open", NearEnd(dptr)
  PROVE  rdptr # Start /\ ~rdptr_at_start
<1>1. /\ wrptr \in HeaderPlaces /\ rdptr \in HeaderPlaces /\ dptr \in RingWords
      /\ 2 <= ii /\ ii <= MaxUse /\ ii \in Int
      /\ dptr = IF wrptr + ii >= End THEN wrptr + ii - Size ELSE wrptr + ii
      /\ rdptr = Start \/ rdptr_at_start => wrptr + MinSize + MinUsage <= End
  BY PoolAssumption DEF TxInv, PoolInv, PoolTypeOK, WriterInv, RoomInv
<1>2. QED
  BY <1>1, PoolAssumption, TxAssumption DEF NearEnd, Shorter

\* mii_commit stores hdr->next.
LEMMA TxCommitInv ==
  ASSUME TxInv, Shorter, TxCommit
  PROVE  TxInv' /\ ChainKept
<1> DEFINE e == CommitEnd(dptr)
<1>0. PoolTypeOK /\ FreeInv /\ FlagInv /\ WriterInv /\ PoolInv /\ RoomInv
  BY DEF TxInv, PoolInv
<1>1. ~mii_commit_fails(dptr) /\ (NearEnd(dptr) => rdptr # Start) /\ wpc = "open"
  BY TxNotRefused DEF TxCommit, mii_commit_fails
<1>2. /\ dptr' = e /\ wpc' = "publish" /\ mem' = [mem EXCEPT ![wrptr] = e]
      /\ UNCHANGED <<rdptr, wrptr, rdptr_at_start, live, fpc, hdr, old,
                     raced, freed, held, ii>>
  BY <1>1 DEF TxCommit, freeVars
<1>3. dptr # rdptr
  <2>1. /\ wrptr \in HeaderPlaces /\ rdptr \in HeaderPlaces
        /\ 2 <= ii /\ ii <= MaxUse /\ ii \in Int /\ MinSize <= Gap
        /\ dptr = IF wrptr + ii >= End THEN wrptr + ii - Size ELSE wrptr + ii
    BY <1>0, <1>1, PoolAssumption DEF PoolTypeOK, WriterInv, RoomInv
  <2>2. QED
    BY <2>1, PoolAssumption, TxAssumption DEF Gap, Dist, Shorter
<1>4. e \in HeaderPlaces /\ e # wrptr /\ Dist(wrptr, e) < Gap
  BY <1>0, <1>1, <1>3, CommitEndPlace
<1> HIDE DEF e
<1>5. /\ wrptr \in HeaderPlaces /\ wrptr \in RingWords /\ rdptr \in HeaderPlaces
      /\ live \subseteq HeaderPlaces /\ mem \in [Words -> Int] /\ e \in RingWords
  BY <1>0, <1>4 DEF PoolTypeOK
<1>6. wrptr \notin live /\ wrptr # End
  <2>1. Dist(wrptr, wrptr) = 0 /\ 0 < Gap /\ 0 \in 0 .. Size - 1
    BY <1>5, PoolAssumption DEF Dist, Gap
  <2>2. QED  BY <1>0, <1>5, <2>1, WriterWord
<1>7. /\ mem' \in [Words -> Int] /\ mem'[End] = mem[End] /\ mem'[wrptr] = e
      /\ \A h \in live : mem'[h] = mem[h]
  BY <1>2, <1>5, <1>6, PoolAssumption
<1>8. WrapInv' /\ HeadInv' /\ ChainInv' /\ SignInv'
  BY <1>0, <1>2, <1>7, QuietStore
<1>9. PoolTypeOK'
  BY <1>0, <1>2, <1>5, <1>7 DEF PoolTypeOK
<1>10. FreeInv'
  <2>1. fpc = "loop" => hdr \in live
    BY <1>0 DEF FreeInv, PoolTypeOK
  <2>2. QED  BY <1>0, <1>1, <1>2, <1>7, <2>1 DEF FreeInv
<1>11. FlagInv'
  BY <1>0, <1>2 DEF FlagInv
<1>12. WriterInv'
  BY <1>2, <1>4, <1>7 DEF WriterInv, Gap, Dist
<1>13. RoomInv'
  BY <1>2 DEF RoomInv
<1>14. ChainKept
  BY <1>7 DEF TxCommit, ChainKept, Next_
<1>15. QED
  BY <1>8, <1>9, <1>10, <1>11, <1>12, <1>13, <1>14 DEF TxInv, PoolInv

\* The steps of mii_free only make the room larger.
LEMMA TxFreeRoom ==
  ASSUME TxInv, FreeStep
  PROVE  RoomInv'
<1>0. PoolTypeOK /\ FreeInv /\ FlagInv /\ HeadInv /\ ChainInv /\ PoolInv /\ RoomInv
  BY DEF TxInv, PoolInv
<1>1. CASE FreeOldest
  <2> DEFINE n == Next_(rdptr)
  <2>1. /\ rdptr \in live /\ rdptr # wrptr /\ rdptr' = n /\ fpc # "mark"
        /\ UNCHANGED <<wrptr, rdptr_at_start, wpc, dptr, ii>>
    BY <1>0, <1>1 DEF FreeOldest, FreeInv, PoolTypeOK, HeadInv, writerVars
  <2>2. /\ n \in live \cup {wrptr} /\ n # rdptr /\ n \in HeaderPlaces
        /\ \A h \in live : Dist(wrptr, h) >= Dist(wrptr, rdptr)
        /\ Dist(rdptr, wrptr) >= Dist(rdptr, n)
    BY <1>0, <2>1 DEF ChainInv, PoolTypeOK, Gap, Extent
  <2> HIDE DEF n
  <2>3. wrptr \in HeaderPlaces /\ rdptr \in HeaderPlaces
    BY <1>0 DEF PoolTypeOK
  <2>4. Gap' >= Gap /\ Gap \in Int /\ Gap' \in Int
    BY <2>1, <2>2, <2>3, PoolAssumption DEF Gap, Dist
  <2>5. n = Start => wrptr < rdptr
    BY <2>1, <2>2, <2>3, PoolAssumption DEF Dist
  <2>6. ASSUME wpc \in {"reserved", "open"}
        PROVE  /\ MinSize <= Gap'
               /\ n = Start \/ rdptr_at_start => wrptr + MinSize + MinUsage <= End
    <3>1. /\ MinSize <= Gap
          /\ rdptr = Start \/ rdptr_at_start => wrptr + MinSize + MinUsage <= End
      BY <1>0, <2>6 DEF RoomInv
    <3>2. n = Start => wrptr + MinSize + MinUsage <= End
      BY <2>1, <2>3, <2>5, <3>1, PoolAssumption, TxAssumption DEF Gap, Dist
    <3>3. QED  BY <2>4, <3>1, <3>2, TxAssumption
  <2>7. QED  BY <1>0, <2>1, <2>6 DEF RoomInv
<1>2. CASE FreeMark
  BY <1>0, <1>2 DEF FreeMark, RoomInv, Gap, Dist, writerVars
<1>3. CASE FreeYounger \/ FreeTests
  BY <1>0, <1>3
     DEF FreeYounger, FreeTests, RoomInv, Gap, Dist, writerVars, poolVars
<1>4. QED  BY <1>1, <1>2, <1>3 DEF FreeStep

-----------------------------------------------------------------------------
(* The theorems *)

\* TxInv is inductive.
LEMMA TxNextInv == Shorter /\ TxInv /\ [TxNext]_mallocVars => TxInv'
<1> SUFFICES ASSUME Shorter, TxInv, [TxNext]_mallocVars PROVE TxInv'
  OBVIOUS
<1>0. PoolInv /\ RoomInv
  BY DEF TxInv
<1>1. CASE mii_reserve_at_least
  BY <1>1, TxReserveInv
<1>2. CASE get_packet_from_client
  BY <1>2, TxCopyInv
<1>3. CASE TxCommit
  BY <1>3, TxCommitInv
<1>4. CASE Publish
  <2>1. PoolInv'
    BY <1>0, <1>4, PublishInv
  <2>2. QED  BY <1>4, <2>1 DEF TxInv, RoomInv, Publish
<1>5. CASE TxFree
  <2>1. PICK h \in held : mii_free(h)
    BY <1>5 DEF TxFree
  <2>2. PoolInv'
    BY <1>0, <2>1, FreeBeginInv
  <2>3. RoomInv'
    BY <1>0, <2>1 DEF mii_free, poolVars, writerVars, RoomInv, Gap, Dist
  <2>4. QED  BY <2>2, <2>3 DEF TxInv
<1>6. CASE TxFreeNext
  BY <1>0, <1>6, FreeStepInv, TxFreeRoom DEF TxInv, TxFreeNext
<1>7. CASE TxTake
  <2> USE <1>0, <1>7 DEF TxTake, poolVars, freeVars, writerVars
  <2>1. rdptr \in live
    BY DEF PoolInv, HeadInv
  <2>2. PoolTypeOK'
    BY <2>1 DEF PoolInv, PoolTypeOK
  <2>3. WrapInv' /\ HeadInv' /\ SignInv' /\ FreeInv' /\ FlagInv'
    BY DEF PoolInv, WrapInv, HeadInv, SignInv, FreeInv, FlagInv, NearEnd
  <2>4. ChainInv' /\ WriterInv'
    BY DEF PoolInv, ChainInv, WriterInv, Extent, Next_, Dist, Gap
  <2>5. RoomInv'
    BY DEF RoomInv, Gap, Dist
  <2>6. QED  BY <2>2, <2>3, <2>4, <2>5 DEF TxInv, PoolInv
<1>8. CASE TxSkip
  <2> USE <1>0, <1>8 DEF TxSkip, poolVars, freeVars
  <2>1. PoolTypeOK' /\ WrapInv' /\ HeadInv' /\ SignInv'
    BY DEF PoolInv, PoolTypeOK, WrapInv, HeadInv, SignInv
  <2>2. ChainInv'
    BY DEF PoolInv, ChainInv, Extent, Next_, Dist, Gap
  <2>3. FreeInv' /\ FlagInv' /\ WriterInv' /\ RoomInv'
    BY DEF PoolInv, FreeInv, FlagInv, WriterInv, RoomInv
  <2>4. QED  BY <2>1, <2>2, <2>3 DEF TxInv, PoolInv
<1>9. CASE UNCHANGED mallocVars
  <2> USE <1>0, <1>9 DEF mallocVars, poolVars, freeVars, writerVars
  <2>1. PoolTypeOK' /\ WrapInv' /\ HeadInv' /\ SignInv' /\ FreeInv' /\ FlagInv'
    BY DEF PoolInv, PoolTypeOK, WrapInv, HeadInv, SignInv, FreeInv, FlagInv, NearEnd
  <2>2. ChainInv' /\ WriterInv' /\ RoomInv'
    BY DEF PoolInv, ChainInv, WriterInv, RoomInv, Extent, Next_, Dist, Gap
  <2>3. QED  BY <2>1, <2>2 DEF TxInv, PoolInv
<1>10. QED
  BY <1>1, <1>2, <1>3, <1>4, <1>5, <1>6, <1>7, <1>8, <1>9 DEF TxNext, TxWriter

\* The invariant of the transmit pool.
THEOREM TxInvariant == Shorter => (TxSpec => []TxInv)
<1> SUFFICES ASSUME Shorter PROVE TxSpec => []TxInv
  OBVIOUS
<1>1. TxInit => TxInv
  BY InitInv DEF TxInit, TxInv, RoomInv, mii_init_mempool
<1>2. TxInv /\ [TxNext]_mallocVars => TxInv'
  BY TxNextInv
<1>3. QED  BY <1>1, <1>2, PTL DEF TxSpec

\* Type correctness of the transmit pool.
THEOREM TxTypeCorrect == Shorter => (TxSpec => []PoolTypeOK)
<1>1. TxInv => PoolTypeOK
  BY DEF TxInv, PoolInv
<1>2. QED  BY <1>1, TxInvariant, PTL

\* The frame being copied never touches a packet that is not yet reclaimed.
THEOREM TxNoOverlap == Shorter => (TxSpec => []NoOverlap)
<1>1. TxInv => NoOverlap
  <2> SUFFICES ASSUME TxInv, NEW h \in live
               PROVE  /\ \A g \in live \ {h} : Dist(h, g) >= Extent(h)
                      /\ Dist(h, wrptr) >= Extent(h)
                      /\ wpc \in {"reserved", "open"} => Dist(wrptr, h) >= ii
    BY DEF NoOverlap
  <2>1. /\ \A g \in live \ {h} : Dist(h, g) >= Extent(h)
        /\ Dist(h, wrptr) >= Extent(h) /\ Dist(wrptr, h) >= Gap
    BY DEF TxInv, PoolInv, ChainInv
  <2>2. wpc \in {"reserved", "open"} => ii <= Gap
    BY DEF TxInv, PoolInv, WriterInv
  <2>3. Gap \in Int /\ ii \in Int /\ Dist(wrptr, h) \in Int
    BY PoolAssumption DEF TxInv, PoolInv, PoolTypeOK, Gap, Dist
  <2>4. QED  BY <2>1, <2>2, <2>3
<1>2. QED  BY <1>1, TxInvariant, PTL

\* A transmit pool that holds packets never looks empty.
THEOREM TxLooksEmptyIffEmpty == Shorter => (TxSpec => []LooksEmptyIffEmpty)
<1>1. TxInv => LooksEmptyIffEmpty
  BY DEF TxInv, PoolInv, HeadInv, LooksEmptyIffEmpty
<1>2. QED  BY <1>1, TxInvariant, PTL

\* mii_commit never refuses a packet, so that ignoring its result is sound.
THEOREM TxCommitNeverRefused == Shorter => (TxSpec => []CommitNeverRefused)
<1> SUFFICES ASSUME Shorter PROVE TxSpec => []CommitNeverRefused
  OBVIOUS
<1>1. TxInv => CommitNeverRefused
  BY TxNotRefused DEF CommitNeverRefused, mii_commit_fails
<1>2. QED  BY <1>1, TxInvariant, PTL

-----------------------------------------------------------------------------
(* The transmit pool implements PacketPool *)

\* Every step keeps the invariants and is one of PacketPool or a stutter.
LEMMA TxPoolStep ==
  ASSUME Shorter, TxInv, OrderInv, [TxNext]_mallocVars
  PROVE  OrderInv' /\ [Pool!Next]_(Pool!vars)
<1>0. PoolInv
  BY DEF TxInv
<1> DEFINE Goal == OrderInv' /\ [Pool!Next]_(Pool!vars)
           Quiet == ChainKept /\ UNCHANGED <<held, freed>>
<1>1. Quiet => Goal
  <2>1. SUFFICES ASSUME Quiet  PROVE Goal
    OBVIOUS
  <2>2. (held \cup freed)' = held \cup freed
    BY <2>1
  <2>3. UNCHANGED Pool!vars
    BY <2>1, <2>2, KeptIsStutter
  <2>4. QED  BY <2>1, <2>3, OrderKept
<1>2. CASE mii_reserve_at_least
  <2>1. ChainKept
    BY <1>2, TxReserveInv
  <2>2. QED  BY <1>1, <1>2, <2>1 DEF mii_reserve_at_least, freeVars
<1>3. CASE get_packet_from_client
  <2>1. ChainKept
    BY <1>3, TxCopyInv
  <2>2. QED  BY <1>1, <1>3, <2>1 DEF get_packet_from_client, freeVars
<1>4. CASE TxCommit
  <2>1. ChainKept
    BY <1>4, TxCommitInv
  <2>2. QED  BY <1>1, <1>4, <2>1 DEF TxCommit, freeVars
<1>5. CASE TxSkip
  <2>1. ChainKept
    BY <1>5 DEF TxSkip, ChainKept, Next_, poolVars
  <2>2. QED  BY <1>1, <1>5, <2>1 DEF TxSkip, freeVars
<1>6. CASE Publish
  BY <1>0, <1>6, OrderPublish, PublishStep DEF Pool!Next
<1>7. CASE TxTake
  <2>1. /\ rdptr # wrptr /\ rdptr \notin held \cup freed
        /\ held' = held \cup {rdptr} /\ freed' = freed /\ ChainKept
    BY <1>7 DEF TxTake, ChainKept, Next_, poolVars, freeVars
  <2>2. order # <<>> /\ 1 \in 1 .. Len(order) /\ order[1] = rdptr
    <3>1. live # {}
      BY <1>0, <2>1 DEF PoolInv, HeadInv
    <3>2. QED  BY <3>1 DEF OrderInv
  <2>3. /\ held' \cup freed' = (held \cup freed) \cup {order[1]}
        /\ order' = order
    BY <2>1, <2>2 DEF ChainKept
  <2>4. \A j \in 1 .. 1 - 1 : order[j] \in held \cup freed
    OBVIOUS
  <2>5. Pool!mii_get_next_buf
    BY <2>1, <2>2, <2>3, <2>4 DEF Pool!mii_get_next_buf
  <2>6. QED  BY <2>1, <2>5, OrderKept DEF Pool!Next
<1>8. CASE TxFree
  <2>1. PICK h \in held : mii_free(h)
    BY <1>8 DEF TxFree
  <2>2. ChainKept /\ Pool!mii_free
    BY <1>0, <2>1, FreeBeginInv, FreeBeginStep
  <2>3. QED  BY <2>2, OrderKept DEF Pool!Next
<1>9. CASE TxFreeNext
  <2>1. CASE FreeOldest
    BY <1>0, <2>1, OrderOldest, OldestStep DEF Pool!Next
  <2>2. CASE FreeYounger \/ FreeMark \/ FreeTests
    <3>1. fpc' # "mark" /\ (FreeOldest => fpc' = "mark")
      BY <2>2 DEF FreeYounger, FreeMark, FreeTests, FreeOldest
    <3>2. ChainKept
      BY <1>0, <1>9, <3>1, FreeStepInv DEF TxFreeNext
    <3>3. UNCHANGED <<held, freed>>
      BY <2>2 DEF FreeYounger, FreeMark, FreeTests
    <3>4. QED  BY <1>1, <3>2, <3>3
  <2>3. QED  BY <1>9, <2>1, <2>2 DEF TxFreeNext, FreeStep
<1>10. CASE UNCHANGED mallocVars
  <2>1. ChainKept
    BY <1>10 DEF mallocVars, poolVars, ChainKept, Next_
  <2>2. QED  BY <1>1, <1>10, <2>1 DEF mallocVars, freeVars
<1>11. QED
  BY <1>2, <1>3, <1>4, <1>5, <1>6, <1>7, <1>8, <1>9, <1>10 DEF TxNext, TxWriter

\* A transmit pool is the sequence of packets that mii_malloc.h promises, if
\* no packet fills the space asked for.
THEOREM TxImplementsPool == Shorter => (TxSpec => Pool!SafeSpec)
<1> SUFFICES ASSUME Shorter  PROVE TxSpec => Pool!SafeSpec
  OBVIOUS
<1>1. TxInit => TxInv /\ OrderInv /\ Pool!mii_init_mempool
  <2>1. SUFFICES ASSUME TxInit
                 PROVE  TxInv /\ OrderInv /\ Pool!mii_init_mempool
    OBVIOUS
  <2>2. PoolInv /\ OrderInv
    BY <2>1, InitInv, OrderInit DEF TxInit
  <2>3. order = <<>> /\ held = {} /\ freed = {} /\ wpc = "idle"
    BY <2>1 DEF TxInit, mii_init_mempool
  <2>4. QED  BY <2>2, <2>3 DEF TxInv, RoomInv, Pool!mii_init_mempool
<1>2. TxInv /\ OrderInv /\ [TxNext]_mallocVars
        => TxInv' /\ OrderInv' /\ [Pool!Next]_(Pool!vars)
  BY TxNextInv, TxPoolStep
<1>3. QED  BY <1>1, <1>2, PTL DEF TxSpec, Pool!SafeSpec

=============================================================================
