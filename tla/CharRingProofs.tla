-------------------------- MODULE CharRingProofs --------------------------
(***************************************************************************)
(* Proofs about CharRing, for every number of producers and every          *)
(* Capacity, message, metric and read length.                              *)
(*                                                                         *)
(* TypeCorrect and LockExclusive hold whatever the consumers do.  What the *)
(* ring contains needs SoleConsumer, since rd_idx is not protected: under  *)
(* it IndInv is inductive, and the ring implements ByteStream.             *)
(***************************************************************************)
EXTENDS CharRing, TLAPS

-----------------------------------------------------------------------------
(* The ring's arithmetic *)

\* The code's (i + 1) % RING_BUFFER_CAPACITY, as a step around the ring.
LEMMA NextIdxStep ==
  \A i \in Index : NextIdx(i) = IF i + 1 = Capacity THEN 0 ELSE i + 1
<1>1. SUFFICES ASSUME NEW i \in Index
              PROVE NextIdx(i) = IF i + 1 = Capacity THEN 0 ELSE i + 1
  OBVIOUS
<1>2. i \in Nat /\ i + 1 <= Capacity /\ Capacity \in Nat \ {0}
  BY CapacityAssumption DEF Index
<1>3. CASE i + 1 = Capacity
  BY <1>2, <1>3 DEF NextIdx
<1>4. CASE i + 1 < Capacity
  BY <1>2, <1>4 DEF NextIdx
<1>5. QED
  BY <1>2, <1>3, <1>4

\* The successor of an index is another index of the ring.
LEMMA NextIdxType == \A i \in Index : NextIdx(i) \in Index /\ NextIdx(i) # i
BY NextIdxStep, CapacityAssumption DEF Index

\* Two indices with the same successor are the same.
LEMMA NextIdxInjective ==
  \A i, j \in Index : NextIdx(i) = NextIdx(j) => i = j
BY NextIdxStep, CapacityAssumption DEF Index

\* What the producers copy are bytes.
LEMMA PayloadBytes ==
  /\ \A w \in Writers : Len(Msg[w]) \in Nat /\ \A i \in 1 .. Len(Msg[w]) : Msg[w][i] \in Byte
  /\ \A p \in Pushers : Len(Metric[p]) \in Nat
                        /\ \A i \in 1 .. Len(Metric[p]) : Metric[p][i] \in Byte
BY PayloadAssumption

-----------------------------------------------------------------------------
(* Type correctness *)

\* Every step of every producer and consumer keeps TypeOK, and so does stuttering.
LEMMA TypeStep == TypeOK /\ [Next]_vars => TypeOK'
<1> SUFFICES ASSUME TypeOK, [Next]_vars PROVE TypeOK'
  OBVIOUS
<1> USE DEF TypeOK, page, sync, wvars, pvars, rvars, zvars, hist, call, producing, reading
<1>1. ASSUME NEW w \in Writers, DevWrite(w) PROVE TypeOK'
  <2>1. calls' \in [Writers -> 0 .. MaxCalls]
    BY <1>1, BoundsAssumption DEF DevWrite
  <2>2. /\ written' \in [Writers -> Nat]
        /\ \A x \in Writers : written'[x] <= Len(Msg[x]) /\ (wpc'[x] # "idle" => written'[x] < Len(Msg[x]))
    BY <1>1, PayloadAssumption DEF DevWrite, WLabels
  <2>3. QED
    BY <1>1, <2>1, <2>2 DEF DevWrite, WLabels, WLocked, Producers
<1>2. ASSUME NEW w \in Writers, DevWriteKick(w) PROVE TypeOK'
  BY <1>2 DEF DevWriteKick, WakeAll, WLabels, WLocked, Producers
<1>3. ASSUME NEW w \in Writers, WSignal(w) PROVE TypeOK'
  BY <1>3 DEF WSignal, WLabels, WLocked, Producers
<1>4. ASSUME NEW w \in Writers, WFault(w) PROVE TypeOK'
  BY <1>4, ByteAssumption DEF WFault, WLabels, WLocked, Producers
<1>5. ASSUME NEW w \in Writers, WLock(w) PROVE TypeOK'
  BY <1>5, NextIdxType DEF WLock, WLabels, WLocked, Producers
<1>6. ASSUME NEW w \in Writers, WCheck(w) PROVE TypeOK'
  BY <1>6 DEF WCheck, WLabels, WLocked, Producers
<1>7. ASSUME NEW w \in Writers, WRaiseFlag(w) PROVE TypeOK'
  BY <1>7 DEF WRaiseFlag, WLabels, WLocked, Producers
<1>8. ASSUME NEW w \in Writers, WPrepare(w) PROVE TypeOK'
  BY <1>8 DEF WPrepare, WLabels, WLocked, Producers
<1>9. ASSUME NEW w \in Writers, WCondWr(w) PROVE TypeOK'
  BY <1>9, NextIdxType DEF WCondWr, WLabels, WLocked, Producers
<1>10. ASSUME NEW w \in Writers, WCondRd(w) PROVE TypeOK'
  BY <1>10 DEF WCondRd, WLabels, WLocked, Producers
<1>11. ASSUME NEW w \in Writers, WInterrupted(w) PROVE TypeOK'
  BY <1>11 DEF WInterrupted, WLabels, WLocked, Producers
<1>11a. ASSUME NEW w \in Writers, WRestart(w) PROVE TypeOK'
  <2>1. Len(Msg[w]) > 0 /\ Len(Msg[w]) \in Nat
    BY <1>11a, PayloadAssumption
  <2>2. calls'[w] \in 0 .. MaxCalls
    BY <1>11a, BoundsAssumption DEF WRestart
  <2> QED
    BY <1>11a, <2>1, <2>2 DEF WRestart, WLabels, WLocked, Producers
<1>12. ASSUME NEW w \in Writers, WWake(w) PROVE TypeOK'
  BY <1>12 DEF WWake, WLabels, WLocked, Producers
<1>13. ASSUME NEW w \in Writers, WClearFlag(w) PROVE TypeOK'
  BY <1>13 DEF WClearFlag, WLabels, WLocked, Producers
<1>14. ASSUME NEW w \in Writers, WStore(w) PROVE TypeOK'
  BY <1>14, PayloadBytes DEF WStore, WLabels, WLocked, Producers
<1>15. ASSUME NEW w \in Writers, WCommit(w) PROVE TypeOK'
  <2>1. Msg[w][written[w] + 1] \in Byte
    <3>1. written[w] \in Nat /\ written[w] < Len(Msg[w])
      BY <1>15 DEF WCommit
    <3>2. written[w] + 1 \in 1 .. Len(Msg[w])
      BY <3>1, PayloadBytes
    <3>3. QED
      BY <3>2, PayloadBytes
  <2>2. sent' \in Seq(Byte)
    BY <1>15, <2>1 DEF WCommit
  <2>3. wr_idx' \in Index
    BY <1>15 DEF WCommit, Producers
  <2>4. /\ written' \in [Writers -> Nat]
        /\ \A x \in Writers : written'[x] <= Len(Msg[x]) /\ (wpc'[x] # "idle" => written'[x] < Len(Msg[x]))
    BY <1>15, PayloadBytes DEF WCommit, WLabels, WLocked
  <2>5. QED
    BY <1>15, <2>2, <2>3, <2>4 DEF WCommit, WLabels, WLocked, Producers
<1>16. ASSUME NEW p \in Pushers, PLock(p) PROVE TypeOK'
  BY <1>16, PayloadAssumption, PayloadBytes, BoundsAssumption DEF PLock, PLocked, Producers
<1>17. ASSUME NEW p \in Pushers, PCheck(p) PROVE TypeOK'
  BY <1>17, NextIdxType DEF PCheck, PLocked, Producers
<1>18. ASSUME NEW p \in Pushers, PStore(p) PROVE TypeOK'
  BY <1>18, PayloadBytes DEF PStore, PLocked, Producers
<1>19. ASSUME NEW p \in Pushers, PCommit(p) PROVE TypeOK'
  <2>1. Metric[p][pushed[p] + 1] \in Byte
    BY <1>19, PayloadBytes DEF PCommit
  <2>2. sent' \in Seq(Byte)
    BY <1>19, <2>1 DEF PCommit
  <2>3. wr_idx' \in Index
    BY <1>19 DEF PCommit, Producers
  <2>4. /\ pushed' \in [Pushers -> Nat]
        /\ \A x \in Pushers : pushed'[x] <= Len(Metric[x]) /\ (ppc'[x] # "idle" => pushed'[x] < Len(Metric[x]))
    BY <1>19, PayloadBytes DEF PCommit, PLocked
  <2>5. QED
    BY <1>19, <2>2, <2>3, <2>4 DEF PCommit, PLocked, Producers
<1>20. ASSUME NEW r \in Readers, RPut(r) PROVE TypeOK'
  BY <1>20 DEF RPut, RLabels, Consumers
<1>21. ASSUME NEW r \in Readers, RFault(r) PROVE TypeOK'
  BY <1>21 DEF RFault, RLabels, Consumers
<1>22. ASSUME NEW r \in Readers, DevRead(r) PROVE TypeOK'
  BY <1>22 DEF DevRead, RLabels, Consumers
<1>23. ASSUME NEW r \in Readers, RSnap(r) PROVE TypeOK'
  BY <1>23 DEF RSnap, RLabels, Consumers
<1>24. ASSUME NEW r \in Readers, RCmp(r) PROVE TypeOK'
  BY <1>24 DEF RCmp, RLabels, Consumers
<1>25. ASSUME NEW r \in Readers, RInc(r) PROVE TypeOK'
  BY <1>25, NextIdxType DEF RInc, RLabels, Consumers
<1>26. ASSUME NEW r \in Readers, RCommit(r) PROVE TypeOK'
  BY <1>26 DEF RCommit, RLabels, Consumers
<1>27. ASSUME NEW r \in Readers, REnd(r) PROVE TypeOK'
  BY <1>27 DEF REnd, WakeAll, RLabels, Consumers
<1>28. ASSUME NEW r \in Readers, ConsumerFinish(r) PROVE TypeOK'
  BY <1>28 DEF ConsumerFinish, RLabels, Consumers
<1>29. ASSUME NEW z \in ZeroCopy, ZLoadRd(z) PROVE TypeOK'
  BY <1>29 DEF ZLoadRd, ZLabels, Consumers
<1>30. ASSUME NEW z \in ZeroCopy, ZLoadWr(z) PROVE TypeOK'
  BY <1>30 DEF ZLoadWr, ZLabels, Consumers
<1>31. ASSUME NEW z \in ZeroCopy, ZData(z) PROVE TypeOK'
  BY <1>31 DEF ZData, ZLabels, Consumers
<1>32. ASSUME NEW z \in ZeroCopy, ZCommit(z) PROVE TypeOK'
  BY <1>32, NextIdxType DEF ZCommit, ZLabels, Consumers
<1>33. ASSUME NEW z \in ZeroCopy, ZFlag(z) PROVE TypeOK'
  BY <1>33, KickAssumption DEF ZFlag, ZLabels, Consumers
<1>34. ASSUME NEW z \in ZeroCopy, ZKick(z) PROVE TypeOK'
  BY <1>34, KickAssumption DEF ZKick, WakeAll, ZLabels, Consumers
<1>35. ASSUME NEW z \in ZeroCopy, ZEmptyFlag(z) PROVE TypeOK'
  BY <1>35 DEF ZEmptyFlag, ZLabels, Consumers
<1>36. ASSUME NEW z \in ZeroCopy, ZEmptyKick(z) PROVE TypeOK'
  BY <1>36 DEF ZEmptyKick, WakeAll, ZLabels, Consumers
<1>37. ASSUME NEW z \in ZeroCopy, ZFinish(z) PROVE TypeOK'
  BY <1>37 DEF ZFinish, ZLabels, Consumers
<1>38. CASE \E w \in Writers : ProducerDone(w)
  BY <1>38 DEF ProducerDone
<1>39. CASE UNCHANGED vars
  BY <1>39 DEF vars
<1>40. QED
  BY <1>1, <1>2, <1>3, <1>4, <1>5, <1>6, <1>7, <1>8, <1>9, <1>10, <1>11, <1>11a, <1>12, <1>13,
     <1>14, <1>15, <1>16, <1>17, <1>18, <1>19, <1>20, <1>21, <1>22, <1>23, <1>24,
     <1>25, <1>26, <1>27, <1>28, <1>29, <1>30, <1>31, <1>32, <1>33, <1>34, <1>35,
     <1>36, <1>37, <1>38, <1>39
  DEF Next, WStep, PStep, RStep, ZStep

\* The program starts well typed.
LEMMA InitType == ASSUME Init PROVE TypeOK
<1>1. /\ rd_idx \in Index /\ wr_idx \in Index /\ char_buffer \in [Index -> Byte]
      /\ next_idx \in [Producers -> Index] /\ snapshot \in [Readers -> Index]
      /\ current_read \in [ZeroCopy -> Index] /\ got \in [Consumers -> Byte]
  BY CapacityAssumption, ByteAssumption DEF Init, Index
<1>2. /\ wpc \in [Writers -> WLabels] /\ written \in [Writers -> Nat]
      /\ \A w \in Writers : written[w] <= Len(Msg[w])
      /\ \A w \in Writers : wpc[w] # "idle" => written[w] < Len(Msg[w])
  BY PayloadAssumption DEF Init, WLabels
<1>3. /\ ppc \in [Pushers -> PLocked \cup {"idle"}] /\ pushed \in [Pushers -> Nat]
      /\ \A p \in Pushers : pushed[p] <= Len(Metric[p])
      /\ \A p \in Pushers : ppc[p] # "idle" => pushed[p] < Len(Metric[p])
  BY PayloadAssumption DEF Init
<1>4. /\ calls \in [Writers -> 0 .. MaxCalls] /\ pushes \in [Pushers -> 0 .. MaxPushes]
  BY BoundsAssumption DEF Init
<1>5. /\ rpc \in [Readers -> RLabels] /\ bytes_read \in [Readers -> Nat]
      /\ zpc \in [ZeroCopy -> ZLabels] /\ kick_count \in [ZeroCopy -> Nat]
  BY DEF Init, RLabels, ZLabels
<1>6. /\ asleep_flag \in BOOLEAN /\ lock \in Producers \cup {Free} /\ waitq \subseteq Writers
      /\ signalled \subseteq Writers /\ finished \in BOOLEAN
  BY DEF Init
<1>7. sent \in Seq(Byte) /\ delivered \in Seq(Byte)
  BY DEF Init
<1>8. QED
  BY <1>1, <1>2, <1>3, <1>4, <1>5, <1>6, <1>7 DEF TypeOK

\* Whatever the interleaving, no index the code computes leaves the ring and no copy
\* runs past its source buffer.
THEOREM TypeCorrect == Spec => []TypeOK
<1>1. QED
  BY InitType, TypeStep, PTL DEF Spec

-----------------------------------------------------------------------------
(* The spinlock *)

\* Only the holder moves wr_idx, and it drops the lock when it leaves the section.
LEMMA LockStep ==
  TypeOK /\ LockInv /\ [Next]_vars => LockInv'
<1> SUFFICES ASSUME TypeOK, LockInv, [Next]_vars PROVE LockInv'
  OBVIOUS
<1> USE DEF TypeOK, LockInv, WLabels, WLocked, PLocked,
           page, sync, wvars, pvars, rvars, zvars, hist, call, producing, reading
<1>1. ASSUME NEW w \in Writers, WLock(w) PROVE LockInv'
  BY <1>1, ThreadAssumption
  DEF WLock, Producers
<1>2. ASSUME NEW w \in Writers,
           WCheck(w) \/ WStore(w)
     PROVE LockInv'
  BY <1>2
  DEF WCheck, WStore
<1>3. ASSUME NEW w \in Writers, WRaiseFlag(w) PROVE LockInv'
  BY <1>3, ThreadAssumption
  DEF WRaiseFlag
<1>4. ASSUME NEW w \in Writers, WFault(w) PROVE LockInv'
  BY <1>4, ThreadAssumption
  DEF WFault
<1>5. ASSUME NEW w \in Writers, WCommit(w) PROVE LockInv'
  BY <1>5, ThreadAssumption
  DEF WCommit
<1>6. ASSUME NEW w \in Writers,
           DevWrite(w) \/ DevWriteKick(w) \/ WSignal(w) \/ WPrepare(w) \/ WCondRd(w)
             \/ WInterrupted(w) \/ WRestart(w) \/ WWake(w) \/ WClearFlag(w)
     PROVE LockInv'
  BY <1>6
  DEF DevWrite, DevWriteKick, WSignal, WPrepare, WCondRd, WInterrupted, WRestart, WWake,
      WClearFlag, WakeAll
<1>7. ASSUME NEW w \in Writers, WCondWr(w) PROVE LockInv'
  BY <1>7
  DEF WCondWr, Producers
<1>8. ASSUME NEW p \in Pushers, PLock(p) PROVE LockInv'
  BY <1>8, ThreadAssumption
  DEF PLock, Producers
<1>9. ASSUME NEW p \in Pushers, PCheck(p) PROVE LockInv'
  BY <1>9, ThreadAssumption
  DEF PCheck, Producers
<1>10. ASSUME NEW p \in Pushers, PStore(p) PROVE LockInv'
  BY <1>10
  DEF PStore
<1>11. ASSUME NEW p \in Pushers, PCommit(p) PROVE LockInv'
  <2>1. lock = p /\ p \notin Writers /\ p # Free
    BY <1>11, ThreadAssumption DEF PCommit
  <2>2. \A w \in Writers : lock # w /\ lock' # w /\ wpc'[w] \notin WLocked
    BY <1>11, <2>1, ThreadAssumption DEF PCommit, wvars
  <2>3. \A q \in Pushers : q # p => lock # q /\ lock' # q /\ ppc'[q] \notin PLocked
    BY <1>11, <2>1, ThreadAssumption DEF PCommit
  <2>4. (ppc'[p] \in PLocked <=> lock' = p) /\ ppc'[p] \notin {"store", "commit"}
    BY <1>11, <2>1, PayloadBytes DEF PCommit
  <2>5. QED
    BY <2>2, <2>3, <2>4
<1>12. ASSUME NEW r \in Readers,
           DevRead(r) \/ RSnap(r) \/ RCmp(r) \/ RPut(r) \/ RFault(r) \/ RInc(r)
             \/ RCommit(r) \/ REnd(r) \/ ConsumerFinish(r)
     PROVE LockInv'
  BY <1>12
  DEF DevRead, RSnap, RCmp, RPut, RFault, RInc, RCommit, REnd, ConsumerFinish, WakeAll
<1>13. ASSUME NEW z \in ZeroCopy,
           ZLoadRd(z) \/ ZLoadWr(z) \/ ZData(z) \/ ZCommit(z) \/ ZFlag(z) \/ ZKick(z)
             \/ ZEmptyFlag(z) \/ ZEmptyKick(z) \/ ZFinish(z)
     PROVE LockInv'
  BY <1>13
  DEF ZLoadRd, ZLoadWr, ZData, ZCommit, ZFlag, ZKick, ZEmptyFlag, ZEmptyKick, ZFinish,
      WakeAll
<1>14. CASE (\E w \in Writers : ProducerDone(w)) \/ UNCHANGED vars
  BY <1>14 DEF ProducerDone, vars
<1>15. QED
  BY <1>1, <1>2, <1>3, <1>4, <1>5, <1>6, <1>7, <1>8, <1>9, <1>10, <1>11, <1>12, <1>13,
     <1>14
  DEF Next, WStep, PStep, RStep, ZStep

\* Nobody holds the lock at first.
LEMMA InitLock == Init => LockInv
BY ThreadAssumption DEF Init, LockInv, WLocked, PLocked

\* At most one thread, dev_write or push, is between lock and unlock, and wr_idx has
\* not moved since it computed the next index.
THEOREM LockExclusive == Spec => []LockInv
<1>1. Init => LockInv
  BY InitLock
<1>2. TypeOK /\ LockInv /\ [Next]_vars => LockInv'
  BY LockStep
<1>3. QED
  BY <1>1, <1>2, TypeCorrect, PTL DEF Spec

-----------------------------------------------------------------------------
(* Producers and consumers against each other *)

\* Consumers move rd_idx without the lock, but only away from the full position.
LEMMA ProducerStep ==
  TypeOK /\ LockInv /\ ProducerInv /\ ConsumerInv /\ [Next]_vars => ProducerInv'
<1> SUFFICES ASSUME TypeOK, LockInv, ProducerInv, ConsumerInv, [Next]_vars PROVE ProducerInv'
  OBVIOUS
<1> USE DEF TypeOK, LockInv, ProducerInv, ConsumerInv, IsFull, WLabels, WLocked, PLocked,
           page, sync, wvars, pvars, rvars, zvars, hist, call, producing, reading
<1>1. ASSUME NEW w \in Writers,
           WCheck(w) \/ WStore(w)
     PROVE ProducerInv'
  BY <1>1, ThreadAssumption
  DEF WCheck, WStore, Producers
<1>2. ASSUME NEW w \in Writers, WFault(w) PROVE ProducerInv'
  BY <1>2, ThreadAssumption
  DEF WFault
<1>3. ASSUME NEW w \in Writers, WCommit(w) PROVE ProducerInv'
  BY <1>3, ThreadAssumption
  DEF WCommit
<1>4. ASSUME NEW w \in Writers,
           DevWrite(w) \/ DevWriteKick(w) \/ WSignal(w) \/ WRaiseFlag(w) \/ WPrepare(w)
             \/ WCondRd(w) \/ WInterrupted(w) \/ WRestart(w) \/ WWake(w) \/ WClearFlag(w)
     PROVE ProducerInv'
  BY <1>4
  DEF DevWrite, DevWriteKick, WSignal, WRaiseFlag, WPrepare, WCondRd, WInterrupted,
      WRestart, WWake, WClearFlag, WakeAll
<1>5. ASSUME NEW w \in Writers,
           WLock(w) \/ WCondWr(w)
     PROVE ProducerInv'
  BY <1>5, ThreadAssumption
  DEF WLock, WCondWr, Producers
<1>6. ASSUME NEW p \in Pushers, PLock(p) PROVE ProducerInv'
  BY <1>6, ThreadAssumption
  DEF PLock
<1>7. ASSUME NEW p \in Pushers, PCheck(p) PROVE ProducerInv'
  BY <1>7, ThreadAssumption
  DEF PCheck, Producers
<1>8. ASSUME NEW p \in Pushers, PStore(p) PROVE ProducerInv'
  BY <1>8, ThreadAssumption
  DEF PStore
<1>9. ASSUME NEW p \in Pushers, PCommit(p) PROVE ProducerInv'
  BY <1>9, ThreadAssumption
  DEF PCommit
<1>10. ASSUME NEW r \in Readers, RCommit(r) PROVE ProducerInv'
  <2>1. rd_idx' = NextIdx(rd_idx) /\ rd_idx # wr_idx
    BY <1>10 DEF RCommit
  <2>2. NextIdx(wr_idx) # rd_idx'
    BY <2>1, NextIdxInjective
  <2>3. QED
    BY <1>10, <2>2 DEF RCommit
<1>11. ASSUME NEW r \in Readers,
           DevRead(r) \/ RSnap(r) \/ RCmp(r) \/ RPut(r) \/ RFault(r) \/ RInc(r)
             \/ REnd(r) \/ ConsumerFinish(r)
     PROVE ProducerInv'
  BY <1>11
  DEF DevRead, RSnap, RCmp, RPut, RFault, RInc, REnd, ConsumerFinish, WakeAll
<1>12. ASSUME NEW z \in ZeroCopy, ZCommit(z) PROVE ProducerInv'
  <2>1. rd_idx' = NextIdx(rd_idx) /\ rd_idx # wr_idx
    BY <1>12 DEF ZCommit
  <2>2. NextIdx(wr_idx) # rd_idx'
    BY <2>1, NextIdxInjective
  <2>3. QED
    BY <1>12, <2>2 DEF ZCommit
<1>13. ASSUME NEW z \in ZeroCopy,
           ZLoadRd(z) \/ ZLoadWr(z) \/ ZData(z) \/ ZFlag(z) \/ ZKick(z)
             \/ ZEmptyFlag(z) \/ ZEmptyKick(z) \/ ZFinish(z)
     PROVE ProducerInv'
  BY <1>13
  DEF ZLoadRd, ZLoadWr, ZData, ZFlag, ZKick, ZEmptyFlag, ZEmptyKick, ZFinish, WakeAll
<1>14. CASE (\E w \in Writers : ProducerDone(w)) \/ UNCHANGED vars
  BY <1>14 DEF ProducerDone, vars
<1>15. QED
  BY <1>1, <1>2, <1>3, <1>4, <1>5, <1>6, <1>7, <1>8, <1>9, <1>10, <1>11, <1>12, <1>13,
     <1>14
  DEF Next, WStep, PStep, RStep, ZStep

\* Producers touch neither rd_idx nor a byte between rd_idx and wr_idx, and there is
\* no other consumer to move rd_idx.
LEMMA ConsumerStep ==
  SoleConsumer /\ TypeOK /\ LockInv /\ ProducerInv /\ ConsumerInv /\ [Next]_vars => ConsumerInv'
<1> SUFFICES ASSUME SoleConsumer, TypeOK, LockInv, ProducerInv, ConsumerInv, [Next]_vars PROVE ConsumerInv'
  OBVIOUS
<1> USE DEF TypeOK, LockInv, ProducerInv, ConsumerInv, IsFull, WLocked, PLocked,
           page, sync, wvars, pvars, rvars, zvars, hist, call, producing, reading
<1>1. ASSUME NEW w \in Writers, WStore(w) PROVE ConsumerInv'
  <2>1. rd_idx # wr_idx => char_buffer'[rd_idx] = char_buffer[rd_idx]
    BY <1>1 DEF WStore
  <2>2. UNCHANGED <<rd_idx, wr_idx, rvars, zvars, got>>
    BY <1>1 DEF WStore
  <2>3. QED
    BY <2>1, <2>2 DEF rvars, zvars
<1>2. ASSUME NEW w \in Writers, WFault(w) PROVE ConsumerInv'
  <2>1. rd_idx # wr_idx => char_buffer'[rd_idx] = char_buffer[rd_idx]
    BY <1>2 DEF WFault
  <2>2. UNCHANGED <<rd_idx, wr_idx, rvars, zvars, got>>
    BY <1>2 DEF WFault
  <2>3. QED
    BY <2>1, <2>2 DEF rvars, zvars
<1>3. ASSUME NEW w \in Writers, WCommit(w) PROVE ConsumerInv'
  <2>1. wr_idx' # rd_idx /\ rd_idx' = rd_idx
    BY <1>3 DEF WCommit
  <2>2. UNCHANGED <<rvars, zvars, got, char_buffer>>
    BY <1>3 DEF WCommit
  <2>3. QED
    BY <2>1, <2>2 DEF rvars, zvars
<1>4. ASSUME NEW w \in Writers,
           DevWrite(w) \/ DevWriteKick(w) \/ WSignal(w) \/ WLock(w) \/ WCheck(w)
             \/ WRaiseFlag(w) \/ WPrepare(w) \/ WCondWr(w) \/ WCondRd(w)
             \/ WInterrupted(w) \/ WRestart(w) \/ WWake(w) \/ WClearFlag(w)
     PROVE ConsumerInv'
  BY <1>4
  DEF DevWrite, DevWriteKick, WSignal, WLock, WCheck, WRaiseFlag, WPrepare, WCondWr,
      WCondRd, WInterrupted, WRestart, WWake, WClearFlag, WakeAll
<1>5. ASSUME NEW p \in Pushers, PStore(p) PROVE ConsumerInv'
  <2>1. rd_idx # wr_idx => char_buffer'[rd_idx] = char_buffer[rd_idx]
    BY <1>5 DEF PStore
  <2>2. UNCHANGED <<rd_idx, wr_idx, rvars, zvars, got>>
    BY <1>5 DEF PStore
  <2>3. QED
    BY <2>1, <2>2 DEF rvars, zvars
<1>6. ASSUME NEW p \in Pushers, PCommit(p) PROVE ConsumerInv'
  <2>1. wr_idx' # rd_idx /\ rd_idx' = rd_idx
    BY <1>6 DEF PCommit
  <2>2. UNCHANGED <<rvars, zvars, got, char_buffer>>
    BY <1>6 DEF PCommit
  <2>3. QED
    BY <2>1, <2>2 DEF rvars, zvars
<1>7. ASSUME NEW p \in Pushers,
           PLock(p) \/ PCheck(p)
     PROVE ConsumerInv'
  BY <1>7
  DEF PLock, PCheck
<1>8. ASSUME NEW r \in Readers, RCommit(r) PROVE ConsumerInv'
  <2>1. (\A x \in Readers : x = r) /\ (\A z \in ZeroCopy : FALSE)
    BY ThreadAssumption DEF SoleConsumer, Consumers
  <2>2. QED
    BY <1>8, <2>1, NextIdxType DEF RCommit, Consumers
<1>9. ASSUME NEW r \in Readers,
           RPut(r) \/ RInc(r)
     PROVE ConsumerInv'
  <2>1. (\A x \in Readers : x = r) /\ (\A z \in ZeroCopy : FALSE)
    BY ThreadAssumption DEF SoleConsumer, Consumers
  <2>2. QED
    BY <1>9, <2>1, NextIdxType DEF RPut, RInc, Consumers
<1>10. ASSUME NEW r \in Readers,
           DevRead(r) \/ RSnap(r) \/ RCmp(r) \/ RFault(r) \/ REnd(r)
             \/ ConsumerFinish(r)
     PROVE ConsumerInv'
  <2>1. (\A x \in Readers : x = r) /\ (\A z \in ZeroCopy : FALSE)
    BY ThreadAssumption DEF SoleConsumer, Consumers
  <2>2. QED
    BY <1>10, <2>1, NextIdxType DEF DevRead, RSnap, RCmp, RFault, REnd, ConsumerFinish, WakeAll, Consumers
<1>11. ASSUME NEW z \in ZeroCopy, ZCommit(z) PROVE ConsumerInv'
  <2>1. (\A x \in ZeroCopy : x = z) /\ (\A r \in Readers : FALSE)
    BY ThreadAssumption DEF SoleConsumer, Consumers
  <2>2. QED
    BY <1>11, <2>1, NextIdxType DEF ZCommit, Consumers
<1>12. ASSUME NEW z \in ZeroCopy, ZData(z) PROVE ConsumerInv'
  <2>1. (\A x \in ZeroCopy : x = z) /\ (\A r \in Readers : FALSE)
    BY ThreadAssumption DEF SoleConsumer, Consumers
  <2>2. QED
    BY <1>12, <2>1, NextIdxType DEF ZData, Consumers
<1>13. ASSUME NEW z \in ZeroCopy,
           ZLoadRd(z) \/ ZLoadWr(z) \/ ZFlag(z) \/ ZKick(z) \/ ZEmptyFlag(z)
             \/ ZEmptyKick(z) \/ ZFinish(z)
     PROVE ConsumerInv'
  <2>1. (\A x \in ZeroCopy : x = z) /\ (\A r \in Readers : FALSE)
    BY ThreadAssumption DEF SoleConsumer, Consumers
  <2>2. QED
    BY <1>13, <2>1, NextIdxType DEF ZLoadRd, ZLoadWr, ZFlag, ZKick, ZEmptyFlag, ZEmptyKick, ZFinish, WakeAll, Consumers
<1>14. CASE (\E w \in Writers : ProducerDone(w)) \/ UNCHANGED vars
  BY <1>14 DEF ProducerDone, vars
<1>15. QED
  BY <1>1, <1>2, <1>3, <1>4, <1>5, <1>6, <1>7, <1>8, <1>9, <1>10, <1>11, <1>12, <1>13,
     <1>14
  DEF Next, WStep, PStep, RStep, ZStep

-----------------------------------------------------------------------------
(* The ring's contents *)

\* What a step can do to the ring: nothing, fill the slot at wr_idx, publish that slot,
\* or take the slot at rd_idx.
RingQuiet == UNCHANGED <<rd_idx, wr_idx, char_buffer, sent, delivered>>
RingStore ==
  /\ char_buffer' \in [Index -> Byte]
  /\ \A i \in Index : i # wr_idx => char_buffer'[i] = char_buffer[i]
  /\ UNCHANGED <<rd_idx, wr_idx, sent, delivered>>
RingPublish ==
  /\ NextIdx(wr_idx) # rd_idx
  /\ wr_idx' = NextIdx(wr_idx) /\ sent' = Append(sent, char_buffer[wr_idx])
  /\ UNCHANGED <<rd_idx, char_buffer, delivered>>
RingDeliver ==
  /\ rd_idx # wr_idx
  /\ rd_idx' = NextIdx(rd_idx) /\ delivered' = Append(delivered, char_buffer[rd_idx])
  /\ UNCHANGED <<wr_idx, char_buffer, sent>>
RingNext == RingQuiet \/ RingStore \/ RingPublish \/ RingDeliver

\* Every step of every thread is one of the four, given what the threads may rely on.
LEMMA RingSteps ==
  TypeOK /\ LockInv /\ ProducerInv /\ ConsumerInv /\ [Next]_vars => RingNext
<1> SUFFICES ASSUME TypeOK, LockInv, ProducerInv, ConsumerInv, [Next]_vars PROVE RingNext
  OBVIOUS
<1> TypeOK'
  BY TypeStep
<1> USE DEF RingNext, RingQuiet, RingStore, RingPublish, RingDeliver,
           page, sync, wvars, pvars, rvars, zvars, hist, call, producing, reading,
           TypeOK, LockInv, ProducerInv, ConsumerInv, IsFull, WLocked, PLocked
<1>1. ASSUME NEW w \in Writers,
           WStore(w) \/ WFault(w)
     PROVE RingNext
  BY <1>1
  DEF WStore, WFault
<1>2. ASSUME NEW w \in Writers, WCommit(w) PROVE RingNext
  BY <1>2
  DEF WCommit
<1>3. ASSUME NEW w \in Writers,
           DevWrite(w) \/ DevWriteKick(w) \/ WSignal(w) \/ WLock(w) \/ WCheck(w)
             \/ WRaiseFlag(w) \/ WPrepare(w) \/ WCondWr(w) \/ WCondRd(w)
             \/ WInterrupted(w) \/ WRestart(w) \/ WWake(w) \/ WClearFlag(w)
     PROVE RingNext
  BY <1>3
  DEF DevWrite, DevWriteKick, WSignal, WLock, WCheck, WRaiseFlag, WPrepare, WCondWr,
      WCondRd, WInterrupted, WRestart, WWake, WClearFlag, WakeAll
<1>4. ASSUME NEW p \in Pushers, PStore(p) PROVE RingNext
  BY <1>4
  DEF PStore
<1>5. ASSUME NEW p \in Pushers, PCommit(p) PROVE RingNext
  BY <1>5
  DEF PCommit
<1>6. ASSUME NEW p \in Pushers,
           PLock(p) \/ PCheck(p)
     PROVE RingNext
  BY <1>6
  DEF PLock, PCheck
<1>7. ASSUME NEW r \in Readers, RCommit(r) PROVE RingNext
  BY <1>7
  DEF RCommit
<1>8. ASSUME NEW r \in Readers,
           DevRead(r) \/ RSnap(r) \/ RCmp(r) \/ RPut(r) \/ RFault(r) \/ RInc(r)
             \/ REnd(r) \/ ConsumerFinish(r)
     PROVE RingNext
  BY <1>8
  DEF DevRead, RSnap, RCmp, RPut, RFault, RInc, REnd, ConsumerFinish, WakeAll
<1>9. ASSUME NEW z \in ZeroCopy, ZCommit(z) PROVE RingNext
  BY <1>9
  DEF ZCommit
<1>10. ASSUME NEW z \in ZeroCopy,
           ZLoadRd(z) \/ ZLoadWr(z) \/ ZData(z) \/ ZFlag(z) \/ ZKick(z)
             \/ ZEmptyFlag(z) \/ ZEmptyKick(z) \/ ZFinish(z)
     PROVE RingNext
  BY <1>10
  DEF ZLoadRd, ZLoadWr, ZData, ZFlag, ZKick, ZEmptyFlag, ZEmptyKick, ZFinish, WakeAll
<1>11. CASE (\E w \in Writers : ProducerDone(w)) \/ UNCHANGED vars
  BY <1>11 DEF ProducerDone, vars
<1>12. QED
  BY <1>1, <1>2, <1>3, <1>4, <1>5, <1>6, <1>7, <1>8, <1>9, <1>10, <1>11
  DEF Next, WStep, PStep, RStep, ZStep

\* The slots from rd_idx to wr_idx are distinct from the slot at wr_idx, and the slot
\* after the last of them is the one at wr_idx.
LEMMA SlotFacts ==
  ASSUME TypeOK
  PROVE  /\ Occupancy \in 0 .. Capacity - 1
         /\ Occupancy = 0 <=> rd_idx = wr_idx
         /\ Slot(0) = rd_idx
         /\ Slot(Occupancy) = wr_idx
         /\ \A k \in 0 .. Occupancy - 1 : Slot(k) \in Index /\ Slot(k) # wr_idx
BY CapacityAssumption DEF TypeOK, Occupancy, Slot, Index

\* RingInv survives each of the four.
LEMMA RingStep ==
  TypeOK /\ TypeOK' /\ RingInv /\ RingNext => RingInv'
<1> SUFFICES ASSUME TypeOK, TypeOK', RingInv, RingNext PROVE RingInv'
  OBVIOUS
<1>1. CASE RingQuiet
  BY <1>1 DEF RingQuiet, RingInv, Occupancy, Slot
<1>2. CASE RingStore
  <2>1. Occupancy' = Occupancy /\ \A k \in Nat : Slot(k)' = Slot(k)
    BY <1>2 DEF RingStore, Occupancy, Slot
  <2>2. \A k \in 0 .. Occupancy - 1 : char_buffer'[Slot(k)] = char_buffer[Slot(k)]
    BY <1>2, SlotFacts DEF RingStore
  <2>3. QED
    BY <1>2, <2>1, <2>2, SlotFacts DEF RingStore, RingInv
<1>3. CASE RingPublish
  <2>1. Occupancy' = Occupancy + 1 /\ \A k \in Nat : Slot(k)' = Slot(k)
    <3>1. /\ rd_idx \in Nat /\ wr_idx \in Nat /\ rd_idx < Capacity /\ wr_idx < Capacity
          /\ wr_idx' = (IF wr_idx + 1 = Capacity THEN 0 ELSE wr_idx + 1)
          /\ wr_idx' # rd_idx /\ rd_idx' = rd_idx /\ Capacity \in Nat
      BY <1>3, NextIdxStep, CapacityAssumption DEF RingPublish, TypeOK, Index
    <3>2. Occupancy' = Occupancy + 1
      BY <3>1 DEF Occupancy
    <3>3. QED
      BY <3>1, <3>2 DEF Slot
  <2>2. /\ Len(sent') = Len(sent) + 1
        /\ \A i \in 1 .. Len(sent) : sent'[i] = sent[i]
        /\ sent'[Len(sent) + 1] = char_buffer[wr_idx]
    BY <1>3 DEF RingPublish, TypeOK
  <2>3. Len(sent)' = Len(delivered)' + Occupancy'
    BY <1>3, <2>1, <2>2, SlotFacts DEF RingPublish, RingInv, TypeOK
  <2>4. \A k \in 1 .. Len(delivered)' : delivered'[k] = sent'[k]
    BY <1>3, <2>2, SlotFacts DEF RingPublish, RingInv, TypeOK
  <2>5. ASSUME NEW k \in 0 .. Occupancy' - 1
        PROVE  char_buffer'[Slot(k)'] = sent'[Len(delivered') + k + 1]
    <3>1. CASE k < Occupancy
      BY <1>3, <2>1, <2>2, <3>1, SlotFacts DEF RingPublish, RingInv, TypeOK
    <3>2. CASE k = Occupancy
      BY <1>3, <2>1, <2>2, <3>2, SlotFacts DEF RingPublish, RingInv, TypeOK
    <3>3. QED
      BY <2>1, <3>1, <3>2, SlotFacts
  <2>6. QED
    BY <2>3, <2>4, <2>5 DEF RingInv
<1>4. CASE RingDeliver
  <2>1. /\ Occupancy' = Occupancy - 1 /\ Occupancy > 0
        /\ \A k \in 0 .. Occupancy - 2 : Slot(k)' = Slot(k + 1)
    <3>1. /\ rd_idx \in Nat /\ wr_idx \in Nat /\ rd_idx < Capacity /\ wr_idx < Capacity
          /\ rd_idx' = (IF rd_idx + 1 = Capacity THEN 0 ELSE rd_idx + 1)
          /\ wr_idx' = wr_idx /\ rd_idx # wr_idx /\ Capacity \in Nat
      BY <1>4, NextIdxStep, CapacityAssumption DEF RingDeliver, TypeOK, Index
    <3>2. Occupancy' = Occupancy - 1 /\ Occupancy > 0
      BY <3>1 DEF Occupancy
    <3>3. ASSUME NEW k \in 0 .. Occupancy - 2 PROVE Slot(k)' = Slot(k + 1)
      BY <3>1, SlotFacts DEF Slot
    <3>4. QED
      BY <3>2, <3>3
  <2>2. /\ Len(delivered') = Len(delivered) + 1
        /\ \A i \in 1 .. Len(delivered) : delivered'[i] = delivered[i]
        /\ delivered'[Len(delivered) + 1] = char_buffer[rd_idx]
    BY <1>4 DEF RingDeliver, TypeOK
  <2>3. char_buffer[rd_idx] = sent[Len(delivered) + 1]
    <3>1. Occupancy \in Nat /\ 0 \in 0 .. Occupancy - 1 /\ Slot(0) = rd_idx
      BY <2>1, SlotFacts
    <3>2. char_buffer[Slot(0)] = sent[Len(delivered) + 0 + 1]
      BY <3>1 DEF RingInv
    <3>3. QED
      BY <3>1, <3>2 DEF TypeOK
  <2>4. Len(sent)' = Len(delivered)' + Occupancy'
    BY <1>4, <2>1, <2>2, SlotFacts DEF RingDeliver, RingInv, TypeOK
  <2>5. \A k \in 1 .. Len(delivered)' : delivered'[k] = sent'[k]
    BY <1>4, <2>2, <2>3 DEF RingDeliver, RingInv, TypeOK
  <2>6. ASSUME NEW k \in 0 .. Occupancy' - 1
        PROVE  char_buffer'[Slot(k)'] = sent'[Len(delivered') + k + 1]
    <3>1. k + 1 \in 0 .. Occupancy - 1 /\ Slot(k)' = Slot(k + 1)
      BY <2>1, SlotFacts
    <3>2. char_buffer[Slot(k + 1)] = sent[Len(delivered) + (k + 1) + 1]
      BY <3>1 DEF RingInv
    <3>3. QED
      BY <1>4, <2>2, <3>1, <3>2 DEF RingDeliver, TypeOK
  <2>7. QED
    BY <2>4, <2>5, <2>6 DEF RingInv
<1>5. QED
  BY <1>1, <1>2, <1>3, <1>4 DEF RingNext

\* The initial ring is empty.
LEMMA InitIndInv == Init /\ TypeOK /\ LockInv => IndInv
BY CapacityAssumption
DEF Init, IndInv, ProducerInv, ConsumerInv, RingInv, Occupancy, Slot

\* With one consumer, whatever the number of producers and however their critical
\* sections, sleeps, signals and faults fall between its lock-free reads, every byte
\* accepted is in the ring until it is delivered, in order and exactly once.
THEOREM RingSafe == ASSUME SoleConsumer PROVE Spec => []IndInv
<1>2. Init => IndInv
  BY InitType, InitLock, InitIndInv
<1>3. IndInv /\ [Next]_vars => IndInv'
  BY SoleConsumer, TypeStep, LockStep, ProducerStep, ConsumerStep, RingSteps, RingStep DEF IndInv
<1>4. QED
  BY <1>2, <1>3, PTL DEF Spec

-----------------------------------------------------------------------------
(* The ring implements the byte stream *)

\* A publication is a Put, a delivery a Get, any other step stutters.
LEMMA StreamStep ==
  ASSUME IndInv, RingNext PROVE [BS!Next]_<<sent, delivered>>
<1> USE DEF BS!Next, BS!Put, BS!Get
<1>1. CASE RingQuiet \/ RingStore
  BY <1>1 DEF RingQuiet, RingStore
<1>2. CASE RingPublish
  <2>1. Occupancy < Capacity - 1
    BY <1>2, NextIdxStep, CapacityAssumption DEF RingPublish, Occupancy, IndInv, TypeOK, Index
  <2>2. Len(sent) - Len(delivered) < Capacity - 1
    BY <2>1, SlotFacts DEF IndInv, RingInv, TypeOK
  <2>3. \E b \in Byte : sent' = Append(sent, b)
    BY <1>2 DEF RingPublish, IndInv, TypeOK
  <2>4. QED
    BY <1>2, <2>2, <2>3 DEF RingPublish
<1>3. CASE RingDeliver
  <2>1. Occupancy > 0 /\ Slot(0) = rd_idx
    BY <1>3, SlotFacts DEF RingDeliver, IndInv
  <2>2. Len(delivered) < Len(sent) /\ char_buffer[rd_idx] = sent[Len(delivered) + 1]
    <3>1. Occupancy \in Nat /\ 0 \in 0 .. Occupancy - 1
      BY <2>1, SlotFacts DEF IndInv
    <3>2. char_buffer[Slot(0)] = sent[Len(delivered) + 0 + 1]
      BY <3>1 DEF IndInv, RingInv
    <3>3. QED
      BY <2>1, <3>1, <3>2 DEF IndInv, RingInv, TypeOK
  <2>3. QED
    BY <1>3, <2>2 DEF RingDeliver
<1>4. QED
  BY <1>1, <1>2, <1>3 DEF RingNext

\* /dev/telemetry_char is a bounded lossless FIFO of bytes, for every Capacity.
THEOREM StreamImplemented == ASSUME SoleConsumer PROVE Spec => Stream
<1>1. Init => BS!Init
  BY DEF Init, BS!Init
<1>2. IndInv /\ [Next]_vars => [BS!Next]_<<sent, delivered>>
  BY RingSteps, StreamStep DEF IndInv
<1>3. QED
  BY <1>1, <1>2, RingSafe, PTL DEF Spec, Stream, BS!Spec

-----------------------------------------------------------------------------
(* The sleep flag *)

\* From raising WRITER_ASLEEP to clearing it, a writer that has no other writer to
\* clear it finds it up.
FlagUp ==
  \A w \in Writers : wpc[w] \in {"prepare", "cond_wr", "cond_rd", "asleep", "woke"} => asleep_flag

\* With a single dev_write thread, a thread queued for a wake-up is announced to user
\* space at every step; with two it is not (run char_two_sleepers).
THEOREM SleeperIsFlagged ==
  ASSUME \A v, w \in Writers : v = w PROVE Spec => []SleeperFlagged
<1>1. Init => FlagUp
  BY DEF Init, FlagUp
<1>2. ASSUME TypeOK, FlagUp, [Next]_vars PROVE FlagUp'
  <2>1. ASSUME NEW w \in Writers,
             WRaiseFlag(w) \/ WClearFlag(w)
       PROVE FlagUp'
    BY <1>2, <2>1
    DEF WRaiseFlag, WClearFlag, TypeOK, FlagUp, WLabels
  <2>2. ASSUME NEW w \in Writers,
             DevWrite(w) \/ DevWriteKick(w) \/ WSignal(w) \/ WFault(w) \/ WLock(w)
               \/ WCheck(w) \/ WPrepare(w) \/ WCondWr(w) \/ WCondRd(w) \/ WInterrupted(w) \/ WRestart(w)
               \/ WWake(w) \/ WStore(w) \/ WCommit(w)
       PROVE FlagUp'
    BY <1>2, <2>2
    DEF DevWrite, DevWriteKick, WSignal, WFault, WLock, WCheck, WPrepare, WCondWr,
        WCondRd, WInterrupted, WRestart, WWake, WStore, WCommit, WakeAll, page, wvars, call, producing, TypeOK,
        FlagUp, WLabels
  <2>3. ASSUME NEW p \in Pushers,
             PLock(p) \/ PCheck(p) \/ PStore(p) \/ PCommit(p)
       PROVE FlagUp'
    BY <1>2, <2>3
    DEF PLock, PCheck, PStore, PCommit, page, wvars, call, producing, TypeOK, FlagUp, WLabels
  <2>4. ASSUME NEW r \in Readers,
             DevRead(r) \/ RSnap(r) \/ RCmp(r) \/ RPut(r) \/ RFault(r) \/ RInc(r)
               \/ RCommit(r) \/ REnd(r) \/ ConsumerFinish(r)
       PROVE FlagUp'
    BY <1>2, <2>4
    DEF DevRead, RSnap, RCmp, RPut, RFault, RInc, RCommit, REnd, ConsumerFinish, WakeAll,
        page, wvars, call, producing, TypeOK, FlagUp, WLabels
  <2>5. ASSUME NEW z \in ZeroCopy,
             ZLoadRd(z) \/ ZLoadWr(z) \/ ZData(z) \/ ZCommit(z) \/ ZFlag(z) \/ ZKick(z)
               \/ ZEmptyFlag(z) \/ ZEmptyKick(z) \/ ZFinish(z)
       PROVE FlagUp'
    BY <1>2, <2>5
    DEF ZLoadRd, ZLoadWr, ZData, ZCommit, ZFlag, ZKick, ZEmptyFlag, ZEmptyKick, ZFinish,
        WakeAll, page, wvars, call, producing, TypeOK, FlagUp, WLabels
  <2>6. CASE (\E w \in Writers : ProducerDone(w)) \/ UNCHANGED vars
    BY <1>2, <2>6 DEF ProducerDone, vars, page, wvars, call, producing, FlagUp
  <2>7. QED
    BY <1>2, <2>1, <2>2, <2>3, <2>4, <2>5, <2>6 DEF Next, WStep, PStep, RStep, ZStep
<1>3. TypeOK /\ FlagUp => SleeperFlagged
  BY DEF TypeOK, FlagUp, SleeperFlagged
<1>4. QED
  BY <1>1, <1>2, <1>3, TypeCorrect, PTL DEF Spec

-----------------------------------------------------------------------------
(* Metrics in one piece *)

\* Bytes by which a reader of the stream could tell whose they are.
DistinctBytes ==
  /\ \A p, q \in Pushers : \A i \in 1 .. Len(Metric[p]), j \in 1 .. Len(Metric[q]) :
       Metric[p][i] = Metric[q][j] => p = q /\ i = j
  /\ \A p \in Pushers, w \in Writers : \A i \in 1 .. Len(Metric[p]), j \in 1 .. Len(Msg[w]) :
       Metric[p][i] # Msg[w][j]

\* A push that goes on finds its last byte at the end of the stream: nobody appends while
\* it holds the lock.
PushInv ==
  \A p \in Pushers : ppc[p] \in PLocked /\ pushed[p] > 0 =>
    sent # <<>> /\ sent[Len(sent)] = Metric[p][pushed[p]]

\* A byte that is no metric's leaves metrics framed; so does one that follows its own.
LEMMA FramedAppend ==
  ASSUME NEW b \in Byte, sent \in Seq(Byte), MetricFramed, sent' = Append(sent, b),
         \A p \in Pushers : \A j \in 2 .. Len(Metric[p]) :
           b = Metric[p][j] => sent # <<>> /\ sent[Len(sent)] = Metric[p][j - 1]
  PROVE  MetricFramed'
<1>1. /\ Len(sent') = Len(sent) + 1 /\ Len(sent) \in Nat
      /\ \A i \in 1 .. Len(sent) : sent'[i] = sent[i]
      /\ sent'[Len(sent) + 1] = b
  OBVIOUS
<1> SUFFICES ASSUME NEW p \in Pushers, NEW k \in 1 .. Len(sent'), NEW j \in 2 .. Len(Metric[p]),
                    sent'[k] = Metric[p][j]
             PROVE  k > 1 /\ sent'[k - 1] = Metric[p][j - 1]
  BY DEF MetricFramed
<1>2. CASE k \in 1 .. Len(sent)
  <2>1. k > 1 /\ sent[k - 1] = Metric[p][j - 1]
    BY <1>1, <1>2 DEF MetricFramed
  <2> QED BY <1>1, <1>2, <2>1
<1>3. CASE k = Len(sent) + 1
  <2>1. sent # <<>> /\ sent[Len(sent)] = Metric[p][j - 1]
    BY <1>1, <1>3
  <2>2. Len(sent) > 0
    BY <2>1
  <2> QED BY <1>1, <1>3, <2>1, <2>2
<1> QED BY <1>1, <1>2, <1>3

\* Two threads append: dev_write a byte of no metric, a push the byte after its last.
LEMMA FramedStep ==
  ASSUME DistinctBytes, TypeOK, LockInv, PushInv, MetricFramed, [Next]_vars
  PROVE  PushInv' /\ MetricFramed'
<1> USE DEF TypeOK, page, sync, wvars, pvars, rvars, zvars, hist, call, producing, reading
<1>1. ASSUME UNCHANGED <<sent, ppc, pushed>> PROVE PushInv' /\ MetricFramed'
  BY <1>1 DEF PushInv, MetricFramed
<1>2. ASSUME NEW w \in Writers, WCommit(w) PROVE PushInv' /\ MetricFramed'
  <2>1. \A p \in Pushers : ppc[p] \notin PLocked
    BY <1>2, ThreadAssumption DEF WCommit, LockInv, WLocked
  <2>2. PushInv'
    BY <1>2, <2>1 DEF WCommit, PushInv
  <2>3. written[w] + 1 \in 1 .. Len(Msg[w]) /\ Msg[w][written[w] + 1] \in Byte
    <3>1. written[w] \in Nat /\ written[w] < Len(Msg[w])
      BY <1>2 DEF WCommit
    <3>2. written[w] + 1 \in 1 .. Len(Msg[w])
      BY <3>1, PayloadBytes
    <3> QED BY <3>2, PayloadBytes
  <2>4. \A p \in Pushers : \A j \in 2 .. Len(Metric[p]) : Msg[w][written[w] + 1] # Metric[p][j]
    BY <2>3, DistinctBytes, PayloadBytes DEF DistinctBytes
  <2>5. sent' = Append(sent, Msg[w][written[w] + 1])
    BY <1>2 DEF WCommit
  <2>6. MetricFramed'
    BY <2>3, <2>4, <2>5, FramedAppend
  <2> QED BY <2>2, <2>6
<1>3. ASSUME NEW p \in Pushers, PCommit(p) PROVE PushInv' /\ MetricFramed'
  <2>1. \A q \in Pushers : q # p => ppc[q] \notin PLocked
    BY <1>3, ThreadAssumption DEF PCommit, LockInv, PLocked
  <2>2. pushed[p] + 1 \in 1 .. Len(Metric[p]) /\ Metric[p][pushed[p] + 1] \in Byte
    BY <1>3, PayloadBytes DEF PCommit
  <2>3. sent' = Append(sent, Metric[p][pushed[p] + 1])
    BY <1>3 DEF PCommit
  <2>4. sent' # <<>> /\ sent'[Len(sent')] = Metric[p][pushed[p] + 1]
    BY <2>2, <2>3
  <2>5. PushInv'
    <3> SUFFICES ASSUME NEW q \in Pushers, ppc'[q] \in PLocked, pushed'[q] > 0
                 PROVE  sent' # <<>> /\ sent'[Len(sent')] = Metric[q][pushed'[q]]
      BY DEF PushInv
    <3>1. q = p
      BY <1>3, <2>1 DEF PCommit
    <3>2. pushed'[p] = pushed[p] + 1
      BY <1>3 DEF PCommit
    <3> QED BY <2>4, <3>1, <3>2
  <2>6. ASSUME NEW q \in Pushers, NEW j \in 2 .. Len(Metric[q]),
               Metric[p][pushed[p] + 1] = Metric[q][j]
        PROVE  sent # <<>> /\ sent[Len(sent)] = Metric[q][j - 1]
    <3>1. q = p /\ j = pushed[p] + 1
      BY <2>2, <2>6, DistinctBytes, PayloadBytes DEF DistinctBytes
    <3>2. pushed[p] > 0 /\ ppc[p] \in PLocked
      BY <1>3, <3>1, PayloadBytes DEF PCommit, PLocked
    <3> QED BY <3>1, <3>2 DEF PushInv
  <2>7. MetricFramed'
    BY <2>2, <2>3, <2>6, FramedAppend
  <2> QED BY <2>5, <2>7
<1>4. ASSUME NEW p \in Pushers, PLock(p) PROVE PushInv' /\ MetricFramed'
  BY <1>4 DEF PLock, PushInv, MetricFramed, PLocked
<1>5. ASSUME NEW p \in Pushers, PCheck(p) \/ PStore(p) PROVE PushInv' /\ MetricFramed'
  <2>1. UNCHANGED <<sent, pushed>> /\ \A q \in Pushers : ppc'[q] \in PLocked => ppc[q] \in PLocked
    BY <1>5 DEF PCheck, PStore, PLocked
  <2> QED BY <2>1 DEF PushInv, MetricFramed
<1>6. ASSUME NEW w \in Writers,
             DevWrite(w) \/ DevWriteKick(w) \/ WSignal(w) \/ WFault(w) \/ WLock(w)
               \/ WCheck(w) \/ WRaiseFlag(w) \/ WPrepare(w) \/ WCondWr(w) \/ WCondRd(w)
               \/ WInterrupted(w) \/ WRestart(w) \/ WWake(w) \/ WClearFlag(w) \/ WStore(w)
      PROVE  PushInv' /\ MetricFramed'
  BY <1>1, <1>6
  DEF DevWrite, DevWriteKick, WSignal, WFault, WLock, WCheck, WRaiseFlag, WPrepare, WCondWr,
      WCondRd, WInterrupted, WRestart, WWake, WClearFlag, WStore
<1>7. ASSUME NEW r \in Readers, RStep(r) \/ RPut(r) \/ RFault(r)
      PROVE  PushInv' /\ MetricFramed'
  BY <1>1, <1>7
  DEF RStep, DevRead, RSnap, RCmp, RPut, RFault, RInc, RCommit, REnd, ConsumerFinish
<1>8. ASSUME NEW z \in ZeroCopy, ZStep(z) PROVE PushInv' /\ MetricFramed'
  BY <1>1, <1>8
  DEF ZStep, ZLoadRd, ZLoadWr, ZData, ZCommit, ZFlag, ZKick, ZEmptyFlag, ZEmptyKick, ZFinish
<1>9. CASE (\E w \in Writers : ProducerDone(w)) \/ UNCHANGED vars
  BY <1>1, <1>9 DEF ProducerDone, vars
<1> QED
  BY <1>2, <1>3, <1>4, <1>5, <1>6, <1>7, <1>8, <1>9 DEF Next, WStep, PStep

\* For any metrics and messages whose bytes can be told apart, and any number of threads
\* that write and push them: no byte of a dev_write, or of another push, ever gets between
\* two bytes of a metric, whatever the consumers do.
THEOREM MetricsStayWhole == ASSUME DistinctBytes PROVE Spec => []MetricFramed
<1>1. Init => PushInv /\ MetricFramed
  BY PayloadBytes DEF Init, PushInv, MetricFramed
<1>2. TypeOK /\ LockInv /\ PushInv /\ MetricFramed /\ [Next]_vars => PushInv' /\ MetricFramed'
  BY FramedStep, DistinctBytes
<1> QED BY <1>1, <1>2, TypeCorrect, LockExclusive, PTL DEF Spec
-----------------------------------------------------------------------------
(* No wake-up is lost on dev_read *)

\* A writer that sleeps, or is about to after the two reads of its wait condition.
Dozing(w) == wpc[w] = "asleep" \/ (wpc[w] = "cond_rd" /\ IsFull(next_idx[w]))

\* The reads of the condition are apart, so what the sleeper must be told is said of a writer
\* between them as well.
Noticed == \A w \in waitq : Dozing(w) /\ rd_idx = wr_idx => WakeDue

LEMMA NoticedStep ==
  ASSUME ZeroCopy = {}, IndInv, Noticed, [Next]_vars
  PROVE  Noticed'
<1> USE DEF page, sync, wvars, pvars, rvars, zvars, hist, call, producing, reading
<1>1. /\ rd_idx \in Index /\ wr_idx \in Index /\ waitq \subseteq Writers
      /\ wpc \in [Writers -> WLabels] /\ next_idx \in [Producers -> Index]
      /\ rpc \in [Readers -> RLabels] /\ bytes_read \in [Readers -> Nat]
  BY DEF IndInv, TypeOK
<1>2. ASSUME UNCHANGED <<rd_idx, wr_idx, rpc, bytes_read>>,
             \A v \in waitq' : (v \in waitq /\ Dozing(v)) \/ ~Dozing(v)' \/ rd_idx # wr_idx
      PROVE  Noticed'
  BY <1>2 DEF Noticed, WakeDue
<1>3. ASSUME NEW w \in Writers, \A v \in Writers \ {w} : wpc'[v] = wpc[v] /\ next_idx'[v] = next_idx[v],
             UNCHANGED <<rd_idx, wr_idx, rpc, bytes_read>>, waitq' \subseteq waitq \cup {w},
             w \in waitq' => (w \in waitq /\ Dozing(w)) \/ ~Dozing(w)' \/ rd_idx # wr_idx
      PROVE  Noticed'
  <2>1. ASSUME NEW v \in waitq', v # w PROVE v \in waitq /\ (Dozing(v)' => Dozing(v))
    BY <1>1, <1>3, <2>1 DEF Dozing, IsFull
  <2> QED BY <1>1, <1>2, <1>3, <2>1
<1>4. ASSUME rd_idx' # wr_idx' PROVE Noticed'
  BY <1>4 DEF Noticed
<1>5. ASSUME waitq' = {} PROVE Noticed'
  BY <1>5 DEF Noticed
<1>6. \A i \in Index : NextIdx(i) # i
  BY NextIdxType
<1>7. ASSUME NEW w \in Writers, DevWrite(w) \/ WLock(w) \/ WCheck(w) \/ WRaiseFlag(w) \/ WPrepare(w)
             \/ WClearFlag(w) \/ WStore(w) \/ WFault(w) \/ WWake(w)
      PROVE  Noticed'
  <2>1. wpc'[w] \notin {"asleep", "cond_rd"}
    BY <1>1, <1>7 DEF DevWrite, WLock, WCheck, WRaiseFlag, WPrepare, WClearFlag, WStore, WFault, WWake
  <2>2. /\ \A v \in Writers \ {w} : wpc'[v] = wpc[v] /\ next_idx'[v] = next_idx[v]
        /\ UNCHANGED <<rd_idx, wr_idx, rpc, bytes_read>> /\ waitq' \subseteq waitq \cup {w}
    BY <1>1, <1>7
    DEF DevWrite, WLock, WCheck, WRaiseFlag, WPrepare, WClearFlag, WStore, WFault, WWake, Producers
  <2> QED BY <1>3, <2>1, <2>2 DEF Dozing
<1>8. ASSUME NEW w \in Writers, WSignal(w) \/ WInterrupted(w) \/ WRestart(w) PROVE Noticed'
  <2>1. /\ \A v \in Writers \ {w} : wpc'[v] = wpc[v] /\ next_idx'[v] = next_idx[v]
        /\ UNCHANGED <<rd_idx, wr_idx, rpc, bytes_read>> /\ waitq' = waitq \ {w}
    BY <1>1, <1>8 DEF WSignal, WInterrupted, WRestart
  <2> QED BY <1>3, <2>1
<1>9. ASSUME NEW w \in Writers, WCondWr(w) PROVE Noticed'
  <2>1. /\ \A v \in Writers \ {w} : wpc'[v] = wpc[v] /\ next_idx'[v] = next_idx[v]
        /\ UNCHANGED <<rd_idx, wr_idx, rpc, bytes_read, waitq>>
        /\ wpc'[w] = "cond_rd" /\ next_idx'[w] = NextIdx(wr_idx)
    BY <1>1, <1>9 DEF WCondWr, Producers
  <2>2. Dozing(w)' => rd_idx # wr_idx
    BY <1>1, <1>6, <2>1 DEF Dozing, IsFull
  <2> QED BY <1>3, <2>1, <2>2
<1>10. ASSUME NEW w \in Writers, WCondRd(w) PROVE Noticed'
  <2>1. /\ \A v \in Writers \ {w} : wpc'[v] = wpc[v] /\ next_idx'[v] = next_idx[v]
        /\ UNCHANGED <<rd_idx, wr_idx, rpc, bytes_read>>
        /\ waitq' = waitq \ {w} \/ (waitq' = waitq /\ Dozing(w))
    BY <1>1, <1>10 DEF WCondRd, Dozing
  <2> QED BY <1>3, <2>1
<1>11. ASSUME NEW w \in Writers, WCommit(w) PROVE Noticed'
  <2>1. wr_idx' = next_idx[w] /\ rd_idx' = rd_idx /\ next_idx[w] # rd_idx
    BY <1>11 DEF WCommit, IndInv, ProducerInv, IsFull
  <2> QED BY <1>4, <2>1
<1>12. ASSUME NEW w \in Writers, DevWriteKick(w) PROVE Noticed'
  BY <1>5, <1>12 DEF DevWriteKick, WakeAll
<1>13. ASSUME NEW p \in Pushers, PStep(p) PROVE Noticed'
  <2>1. CASE PCommit(p)
    <3>1. wr_idx' = next_idx[p] /\ rd_idx' = rd_idx /\ next_idx[p] # rd_idx
      BY <2>1 DEF PCommit, IndInv, ProducerInv, IsFull
    <3> QED BY <1>4, <3>1
  <2>2. CASE PLock(p) \/ PCheck(p) \/ PStore(p)
    <3>1. \A w \in Writers : w # p
      BY ThreadAssumption
    <3>2. /\ UNCHANGED <<rd_idx, wr_idx, rpc, bytes_read, waitq, wpc>>
          /\ \A w \in Writers : next_idx'[w] = next_idx[w]
      BY <1>1, <2>2, <3>1 DEF PLock, PCheck, PStore, Producers
    <3>3. \A v \in waitq : Dozing(v)' => Dozing(v)
      BY <1>1, <3>2 DEF Dozing, IsFull
    <3> QED BY <1>2, <3>2, <3>3
  <2> QED BY <1>13, <2>1, <2>2 DEF PStep
<1>14. ASSUME UNCHANGED <<rd_idx, wr_idx, waitq, wpc, next_idx>>, WakeDue => WakeDue' PROVE Noticed'
  BY <1>14 DEF Noticed, Dozing, IsFull
<1>15. ASSUME NEW r \in Readers, RStep(r) \/ RPut(r) \/ RFault(r) PROVE Noticed'
  <2>1. CASE RCommit(r)
    <3>1. /\ rpc'[r] \in {"loop", "end"} /\ bytes_read'[r] > 0
      BY <1>1, <2>1 DEF RCommit
    <3> QED BY <3>1 DEF Noticed, WakeDue
  <2>2. CASE REnd(r)
    <3>1. CASE bytes_read[r] > 0
      BY <1>5, <2>2, <3>1 DEF REnd, WakeAll
    <3>2. CASE ~(bytes_read[r] > 0)
      <4>1. WakeDue => WakeDue'
        BY <1>1, <2>2, <3>2 DEF REnd, WakeDue
      <4> QED BY <1>14, <2>2, <3>2, <4>1 DEF REnd
    <3> QED BY <3>1, <3>2
  <2>3. CASE RCmp(r)
    <3>1. CASE rd_idx # wr_idx
      BY <1>4, <2>3, <3>1 DEF RCmp
    <3>2. CASE rd_idx = wr_idx
      <4>1. rpc'[r] = "end" /\ rpc[r] = "cmp"
        BY <1>1, <2>3, <3>2 DEF RCmp, IndInv, ConsumerInv
      <4>2. WakeDue => WakeDue'
        BY <1>1, <2>3, <4>1 DEF RCmp, WakeDue
      <4> QED BY <1>14, <2>3, <4>2 DEF RCmp
    <3> QED BY <3>1, <3>2
  <2>4. CASE DevRead(r) \/ RSnap(r) \/ RPut(r) \/ RFault(r) \/ RInc(r) \/ ConsumerFinish(r)
    <3>1. WakeDue => WakeDue'
      BY <1>1, <2>4 DEF DevRead, RSnap, RPut, RFault, RInc, ConsumerFinish, WakeDue
    <3> QED BY <1>14, <2>4, <3>1 DEF DevRead, RSnap, RPut, RFault, RInc, ConsumerFinish
  <2> QED BY <1>15, <2>1, <2>2, <2>3, <2>4 DEF RStep
<1>16. CASE (\E w \in Writers : ProducerDone(w)) \/ UNCHANGED vars
  BY <1>14, <1>16 DEF ProducerDone, vars, WakeDue
<1> QED
  BY <1>7, <1>8, <1>9, <1>10, <1>11, <1>12, <1>13, <1>15, <1>16 DEF Next, WStep

\* With one thread in dev_read and any number of writers, no writer is left asleep on an empty
\* ring: whoever decided on a rd_idx that has moved since has the wake-up of that move coming.
THEOREM WakeUpsArrive ==
  ASSUME SoleConsumer, ZeroCopy = {} PROVE Spec => []NoLostWakeup
<1>1. Init => Noticed
  BY DEF Init, Noticed
<1>2. IndInv /\ Noticed /\ [Next]_vars => Noticed'
  BY NoticedStep
<1>3. Noticed => NoLostWakeup
  BY DEF Noticed, Dozing, NoLostWakeup
<1> QED BY <1>1, <1>2, <1>3, RingSafe, PTL DEF Spec
=============================================================================
