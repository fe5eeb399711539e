---------------------------- MODULE EtherTxProofs ----------------------------
(***************************************************************************)
(* Proofs that the transmit ring keeps its types, that the semaphore never *)
(* promises more descriptors than the ring has, and that no data area is   *)
(* posted twice, for any length of the ring and any number of frames.      *)
(***************************************************************************)
EXTENDS EtherTx, FiniteSetTheorems, TLAPS

-----------------------------------------------------------------------------
(* The ring. *)

\* The successor of a descriptor is one.
LEMMA SuccInRing == ASSUME NEW k \in Ring PROVE Succ(k) \in Ring
BY TxAssumption DEF Ring, Succ

\* There are never more data areas in the ring than descriptors.
LEMMA HeldBounded ==
  /\ IsFiniteSet(Held)
  /\ Cardinality(Held) \in Nat
  /\ Cardinality(Held) <= N
<1>1. IsFiniteSet(Ring) /\ Cardinality(Ring) = N
  <2>1. N \in Nat /\ N # 0
    BY TxAssumption
  <2>2. IsFiniteSet(0 .. N - 1) /\ Cardinality(0 .. N - 1) = N
    BY <2>1, FS_Interval
  <2>3. QED
    BY <2>2 DEF Ring
<1>2. Held \in SUBSET Ring
  BY DEF Held
<1>3. IsFiniteSet(Held) /\ Cardinality(Held) <= Cardinality(Ring)
  BY <1>1, <1>2, FS_Subset
<1>4. QED
  BY <1>1, <1>3, FS_CardinalityType

\* Actions that leave the data areas of the ring alone leave Held alone.
LEMMA SameHeld ==
  ASSUME \A k \in Ring : desc'[k].addr = desc[k].addr
  PROVE  Held' = Held
BY DEF Held

-----------------------------------------------------------------------------
(* Types. *)

LEMMA TypeInit == Init => TypeOK
BY TxAssumption DEF Init, TypeOK, Ring, Null, TaskPcs

LEMMA TypeStep == TypeOK /\ [Next]_vars => TypeOK'
<1> SUFFICES ASSUME TypeOK, [Next]_vars PROVE TypeOK'
  OBVIOUS
<1>1. MaxFrames \in Nat
  BY TxAssumption
<1>2. CASE isr = "off" /\ TxEnter
  BY <1>1, <1>2 DEF TxEnter, TypeOK, TaskPcs, isrVars, macVars
<1>3. CASE TaskStep
  <2>1. CASE TxAddress
    <3>1. frame \in Frames \cup {Null}
      BY <1>1 DEF TypeOK, Frames, Null
    <3>2. desc' \in [Ring -> [addr : Frames \cup {Null}, used : BOOLEAN]]
      BY <2>1, <3>1 DEF TxAddress, TypeOK
    <3>3. QED
      BY <2>1, <3>2 DEF TxAddress, TypeOK, TaskPcs, isrVars, macVars
  <2>2. CASE TxStatus
    <3>1. desc' \in [Ring -> [addr : Frames \cup {Null}, used : BOOLEAN]]
      BY <2>2 DEF TxStatus, TypeOK
    <3>2. QED
      BY <2>2, <3>1 DEF TxStatus, TypeOK, TaskPcs, isrVars, macVars
  <2>3. CASE TxAdvance
    BY <2>3, SuccInRing DEF TxAdvance, TypeOK, TaskPcs, isrVars, macVars
  <2>4. CASE TxStart
    BY <2>4 DEF TxStart, TypeOK, TaskPcs, isrVars
  <2>5. CASE PendTake
    BY <2>5 DEF PendTake, TypeOK, TaskPcs, isrVars, macVars
  <2>6. CASE PendTimeout
    BY <2>6 DEF PendTimeout, TypeOK, TaskPcs, isrVars, macVars
  <2>7. QED
    BY <1>3, <2>1, <2>2, <2>3, <2>4, <2>5, <2>6 DEF TaskStep
<1>4. CASE IsrStep
  <2>1. CASE IsrEnter
    BY <2>1 DEF IsrEnter, TypeOK, taskVars, macVars
  <2>2. CASE IsrReclaim
    <3>1. desc[comp].addr \in Frames
      BY <2>2 DEF IsrReclaim, Reclaimable, TypeOK
    <3>2. posted' \in Seq(Frames)
      BY <2>2, <3>1 DEF IsrReclaim, TypeOK
    <3>3. desc' \in [Ring -> [addr : Frames \cup {Null}, used : BOOLEAN]]
      BY <2>2 DEF IsrReclaim, TypeOK
    <3>4. comp' \in Ring
      BY <2>2, SuccInRing DEF IsrReclaim, TypeOK
    <3>5. QED
      BY <2>2, <3>2, <3>3, <3>4 DEF IsrReclaim, TypeOK, taskVars, macVars
  <2>3. CASE IsrLoopEnd
    BY <2>3 DEF IsrLoopEnd, TypeOK, taskVars, macVars
  <2>4. CASE IsrClear
    BY <2>4 DEF IsrClear, TypeOK, taskVars, macVars
  <2>5. QED
    BY <1>4, <2>1, <2>2, <2>3, <2>4 DEF IsrStep
<1>5. CASE MacStep
  <2>1. CASE MacSend
    <3>1. desc[mac].addr \in Frames \cup {Null}
      BY DEF TypeOK
    <3>2. sent' \in Seq(Frames \cup {Null})
      BY <2>1, <3>1 DEF MacSend, TypeOK
    <3>3. desc' \in [Ring -> [addr : Frames \cup {Null}, used : BOOLEAN]]
      BY <2>1 DEF MacSend, TypeOK
    <3>4. mac' \in Ring
      BY <2>1, SuccInRing DEF MacSend, TypeOK
    <3>5. QED
      BY <2>1, <3>2, <3>3, <3>4 DEF MacSend, TypeOK, taskVars, isrVars
  <2>2. CASE MacHalt
    BY <2>2 DEF MacHalt, TypeOK, taskVars, isrVars
  <2>3. QED
    BY <1>5, <2>1, <2>2 DEF MacStep
<1>6. CASE UNCHANGED vars
  BY <1>6 DEF TypeOK, vars, taskVars, isrVars, macVars
<1>7. QED
  BY <1>2, <1>3, <1>4, <1>5, <1>6 DEF Next

\* Every variable of the ring keeps its type.
THEOREM TypeCorrect == Spec => []TypeOK
<1>1. Init => TypeOK
  BY TypeInit
<1>2. TypeOK /\ [Next]_vars => TypeOK'
  BY TypeStep
<1>3. QED
  BY <1>1, <1>2, PTL DEF Spec

-----------------------------------------------------------------------------
(* The semaphore and the room in the ring. *)

LEMMA RoomStep == TypeOK /\ RoomInv /\ [Next]_vars => RoomInv'
<1> SUFFICES ASSUME TypeOK, RoomInv, [Next]_vars PROVE RoomInv'
  OBVIOUS
<1> DEFINE held == Cardinality(Held)
<1>1. held \in Nat /\ held <= N /\ N \in Nat /\ tx_ready \in Nat
  BY HeldBounded, TxAssumption DEF TypeOK
<1>2. tx_ready + held <= (IF tpc \in {"idle", "address"} THEN N ELSE N + 1)
  BY DEF RoomInv
<1>3. ASSUME Held' = Held,
             tx_ready' + held <= (IF tpc' \in {"idle", "address"} THEN N ELSE N + 1)
      PROVE  RoomInv'
  BY <1>3 DEF RoomInv
<1> HIDE DEF held
<1>4. CASE isr = "off" /\ TxEnter
  <2>1. Held' = Held
    BY <1>4, SameHeld DEF TxEnter
  <2>2. QED
    BY <1>1, <1>2, <1>3, <1>4, <2>1 DEF TxEnter
<1>5. CASE TaskStep
  <2>1. CASE TxAddress
    <3>1. tx_ready' = tx_ready /\ tpc = "address" /\ tpc' = "status"
      BY <2>1 DEF TxAddress
    <3>2. Held' \in SUBSET (Held \cup {cur})
      BY <2>1 DEF TxAddress, TypeOK, Held
    <3>3. /\ IsFiniteSet(Held \cup {cur})
          /\ Cardinality(Held \cup {cur}) \in {held, held + 1}
      BY HeldBounded, FS_AddElement DEF held
    <3>4. /\ IsFiniteSet(Held')
          /\ Cardinality(Held') <= Cardinality(Held \cup {cur})
      BY <3>2, <3>3, FS_Subset
    <3>5. Cardinality(Held') \in Nat
      BY <3>4, FS_CardinalityType
    <3> DEFINE held2 == Cardinality(Held')
    <3>6. held2 \in Nat /\ held2 <= held + 1
      BY <1>1, <3>3, <3>4, <3>5
    <3> HIDE DEF held2
    <3>7. tx_ready' + held2 <= N + 1
      BY <1>1, <1>2, <3>1, <3>6
    <3>8. QED
      BY <3>1, <3>7 DEF RoomInv, held2
  <2>2. CASE TxStatus
    <3>1. Held' = Held
      BY <2>2, SameHeld DEF TxStatus, TypeOK
    <3>2. QED
      BY <1>1, <1>2, <1>3, <2>2, <3>1 DEF TxStatus
  <2>3. CASE TxAdvance
    <3>1. Held' = Held
      BY <2>3, SameHeld DEF TxAdvance
    <3>2. QED
      BY <1>1, <1>2, <1>3, <2>3, <3>1 DEF TxAdvance
  <2>4. CASE TxStart
    <3>1. Held' = Held
      BY <2>4, SameHeld DEF TxStart
    <3>2. QED
      BY <1>1, <1>2, <1>3, <2>4, <3>1 DEF TxStart
  <2>5. CASE PendTake
    <3>1. Held' = Held
      BY <2>5, SameHeld DEF PendTake
    <3>2. QED
      BY <1>1, <1>2, <1>3, <2>5, <3>1 DEF PendTake
  <2>6. CASE PendTimeout
    <3>1. Held' = Held
      BY <2>6, SameHeld DEF PendTimeout
    <3>2. QED
      BY <1>1, <1>2, <1>3, <2>6, <3>1 DEF PendTimeout
  <2>7. QED
    BY <1>5, <2>1, <2>2, <2>3, <2>4, <2>5, <2>6 DEF TaskStep
<1>6. CASE IsrStep
  <2>1. CASE IsrEnter
    <3>1. Held' = Held
      BY <2>1, SameHeld DEF IsrEnter
    <3>2. QED
      BY <1>2, <1>3, <2>1, <3>1 DEF IsrEnter, taskVars
  <2>2. CASE IsrReclaim
    <3>1. tx_ready' = tx_ready + 1 /\ tpc' = tpc
      BY <2>2 DEF IsrReclaim, taskVars
    <3>2. comp \in Held
      BY <2>2 DEF IsrReclaim, Reclaimable, TypeOK, Held
    <3>3. Held' = Held \ {comp}
      BY <2>2 DEF IsrReclaim, TypeOK, Held
    <3>4. Cardinality(Held \ {comp}) = held - 1
      BY <3>2, HeldBounded, FS_RemoveElement DEF held
    <3> DEFINE held2 == Cardinality(Held')
    <3>5. held2 = held - 1
      BY <3>3, <3>4
    <3> HIDE DEF held2
    <3>6. tx_ready' + held2 = tx_ready + held
      BY <1>1, <3>1, <3>5
    <3>7. QED
      BY <1>2, <3>1, <3>6 DEF RoomInv, held2
  <2>3. CASE IsrLoopEnd
    <3>1. Held' = Held
      BY <2>3, SameHeld DEF IsrLoopEnd
    <3>2. QED
      BY <1>2, <1>3, <2>3, <3>1 DEF IsrLoopEnd, taskVars
  <2>4. CASE IsrClear
    <3>1. Held' = Held
      BY <2>4, SameHeld DEF IsrClear
    <3>2. QED
      BY <1>2, <1>3, <2>4, <3>1 DEF IsrClear, taskVars
  <2>5. QED
    BY <1>6, <2>1, <2>2, <2>3, <2>4 DEF IsrStep
<1>7. CASE MacStep
  <2>1. CASE MacSend
    <3>1. Held' = Held
      BY <2>1, SameHeld DEF MacSend, TypeOK
    <3>2. QED
      BY <1>2, <1>3, <2>1, <3>1 DEF MacSend, taskVars
  <2>2. CASE MacHalt
    <3>1. Held' = Held
      BY <2>2, SameHeld DEF MacHalt
    <3>2. QED
      BY <1>2, <1>3, <2>2, <3>1 DEF MacHalt, taskVars
  <2>3. QED
    BY <1>7, <2>1, <2>2 DEF MacStep
<1>8. CASE UNCHANGED vars
  <2>1. Held' = Held
    BY <1>8, SameHeld DEF vars
  <2>2. QED
    BY <1>2, <1>3, <1>8, <2>1 DEF vars, taskVars
<1>9. QED
  BY <1>4, <1>5, <1>6, <1>7, <1>8 DEF Next

-----------------------------------------------------------------------------
(* The data areas in the ring and those posted. *)

\* Steps that write no data area and post none, and forget no frame.
LEMMA AreasKept ==
  ASSUME TypeOK, HeldInv, PostedInv,
         \A k \in Ring : desc'[k].addr = desc[k].addr,
         posted' = posted,
         Latest' \in Int, Latest \in Int, Latest <= Latest'
  PROVE  HeldInv' /\ PostedInv'
<1>1. Held' = Held
  BY SameHeld
<1>2. \A k \in Held : k \in Ring /\ desc[k].addr \in Nat
  BY TxAssumption DEF Held, TypeOK, Frames, Null
<1>3. \A i \in DOMAIN posted : posted[i] \in Nat
  BY TxAssumption DEF TypeOK, Frames
<1>4. \A k \in Held : desc[k].addr <= Latest'
  BY <1>2 DEF HeldInv
<1>5. \A i \in DOMAIN posted : posted[i] <= Latest'
  BY <1>3 DEF PostedInv
<1>6. HeldInv'
  BY <1>1, <1>2, <1>4 DEF HeldInv
<1>7. PostedInv'
  BY <1>5 DEF PostedInv, PostedOnce
<1>8. QED
  BY <1>6, <1>7

\* The frame that is written is newer than every data area in sight.
LEMMA AreasAddress ==
  ASSUME TypeOK, HeldInv, PostedInv, TxAddress
  PROVE  HeldInv' /\ PostedInv'
<1>1. /\ frame \in Nat /\ Latest = frame - 1 /\ Latest' = frame
      /\ posted' = posted /\ cur \in Ring
  BY TxAssumption DEF TxAddress, TypeOK, Latest, isrVars
<1>2. /\ desc'[cur].addr = frame
      /\ \A k \in Ring \ {cur} : desc'[k].addr = desc[k].addr
  BY DEF TxAddress, TypeOK
<1>3. \A k \in Held : k \in Ring /\ desc[k].addr \in Nat /\ desc[k].addr < frame
  <2>1. \A k \in Held : k \in Ring /\ desc[k].addr \in Nat
    BY TxAssumption DEF Held, TypeOK, Frames, Null
  <2>2. QED
    BY <1>1, <2>1 DEF HeldInv
<1>4. \A i \in DOMAIN posted : posted[i] \in Nat /\ posted[i] < frame
  <2>1. \A i \in DOMAIN posted : posted[i] \in Nat
    BY TxAssumption DEF TypeOK, Frames
  <2>2. QED
    BY <1>1, <2>1 DEF PostedInv
<1>5. \A k \in Held' : k \in Ring /\ (k # cur => k \in Held)
  BY <1>2 DEF Held
<1>6. ASSUME NEW k \in Held'
      PROVE  /\ \A l \in Held' : desc'[k].addr = desc'[l].addr => k = l
             /\ \A i \in DOMAIN posted : posted[i] # desc'[k].addr
             /\ desc'[k].addr <= frame
  <2>1. CASE k = cur
    BY <1>1, <1>2, <1>3, <1>4, <1>5, <2>1
  <2>2. CASE k # cur
    <3>1. k \in Held /\ desc'[k].addr = desc[k].addr
      BY <1>2, <1>5, <2>2
    <3>2. \A l \in Held' : desc'[k].addr = desc'[l].addr => k = l
      BY <1>1, <1>2, <1>3, <1>5, <3>1 DEF HeldInv
    <3>3. QED
      BY <1>1, <1>3, <3>1, <3>2 DEF HeldInv
  <2>3. QED
    BY <2>1, <2>2
<1>7. HeldInv'
  BY <1>1, <1>6 DEF HeldInv
<1>8. PostedInv'
  BY <1>1, <1>4 DEF PostedInv, PostedOnce
<1>9. QED
  BY <1>7, <1>8

\* The data area that is posted leaves the ring, and no other was equal to it.
LEMMA AreasReclaim ==
  ASSUME TypeOK, HeldInv, PostedInv, IsrReclaim
  PROVE  HeldInv' /\ PostedInv'
<1> DEFINE area == desc[comp].addr
<1>1. comp \in Held /\ comp \in Ring
  BY DEF IsrReclaim, Reclaimable, TypeOK, Held
<1>2. Latest' = Latest
  BY DEF IsrReclaim, taskVars, Latest
<1>3. Held' = Held \ {comp}
  BY DEF IsrReclaim, TypeOK, Held
<1>4. \A k \in Held' : k \in Held /\ k # comp /\ desc'[k].addr = desc[k].addr
  BY <1>3 DEF IsrReclaim, TypeOK, Held
<1>5. /\ Len(posted) \in Nat
      /\ DOMAIN posted = 1 .. Len(posted)
      /\ DOMAIN posted' = 1 .. Len(posted) + 1
      /\ \A i \in 1 .. Len(posted) : posted'[i] = posted[i]
      /\ posted'[Len(posted) + 1] = area
  BY DEF IsrReclaim, TypeOK
<1>6. /\ \A i \in DOMAIN posted : posted[i] # area
      /\ area <= Latest
      /\ \A k \in Held : desc[k].addr = area => k = comp
  BY <1>1 DEF HeldInv
<1>7. \A k \in Held' : desc[k].addr # area
  BY <1>4, <1>6
<1> HIDE DEF area
<1>8. \A i \in DOMAIN posted' : i \in DOMAIN posted \/ i = Len(posted) + 1
  BY <1>5
<1>9. HeldInv'
  <2>1. ASSUME NEW k \in Held'
        PROVE  /\ \A l \in Held' : desc'[k].addr = desc'[l].addr => k = l
               /\ \A i \in DOMAIN posted' : posted'[i] # desc'[k].addr
               /\ desc'[k].addr <= Latest
    <3>1. \A l \in Held' : desc'[k].addr = desc'[l].addr => k = l
      BY <1>4 DEF HeldInv
    <3>2. \A i \in DOMAIN posted' : posted'[i] # desc'[k].addr
      BY <1>4, <1>5, <1>7, <1>8 DEF HeldInv
    <3>3. desc'[k].addr <= Latest
      BY <1>4 DEF HeldInv
    <3>4. QED
      BY <3>1, <3>2, <3>3
  <2>2. QED
    BY <1>2, <2>1 DEF HeldInv
<1>10. PostedInv'
  <2>1. \A i, j \in DOMAIN posted' : posted'[i] = posted'[j] => i = j
    BY <1>5, <1>6, <1>8 DEF PostedInv, PostedOnce
  <2>2. \A i \in DOMAIN posted' : posted'[i] <= Latest
    BY <1>5, <1>6, <1>8 DEF PostedInv
  <2>3. QED
    BY <1>2, <2>1, <2>2 DEF PostedInv, PostedOnce
<1>11. QED
  BY <1>9, <1>10

LEMMA AreasStep ==
  TypeOK /\ HeldInv /\ PostedInv /\ [Next]_vars => HeldInv' /\ PostedInv'
<1> SUFFICES ASSUME TypeOK, HeldInv, PostedInv, [Next]_vars
             PROVE  HeldInv' /\ PostedInv'
  OBVIOUS
<1>1. frame \in Nat /\ Latest \in Int
  BY TxAssumption DEF TypeOK, Latest
<1>2. CASE isr = "off" /\ TxEnter
  <2>1. posted' = posted /\ \A k \in Ring : desc'[k].addr = desc[k].addr
    BY <1>2 DEF TxEnter, isrVars
  <2>2. Latest' \in Int /\ Latest <= Latest'
    BY <1>1, <1>2 DEF TxEnter, Latest
  <2>3. QED
    BY <1>1, <2>1, <2>2, AreasKept
<1>3. CASE TaskStep
  <2>1. CASE TxAddress
    BY <2>1, AreasAddress
  <2>2. CASE TxStatus
    <3>1. posted' = posted /\ \A k \in Ring : desc'[k].addr = desc[k].addr
      BY <2>2 DEF TxStatus, TypeOK, isrVars
    <3>2. Latest' = Latest
      BY <2>2 DEF TxStatus, Latest
    <3>3. QED
      BY <1>1, <3>1, <3>2, AreasKept
  <2>3. CASE TxAdvance \/ TxStart \/ PendTake \/ PendTimeout
    <3>1. posted' = posted /\ \A k \in Ring : desc'[k].addr = desc[k].addr
      BY <2>3 DEF TxAdvance, TxStart, PendTake, PendTimeout, isrVars
    <3>2. Latest' = Latest
      BY <2>3 DEF TxAdvance, TxStart, PendTake, PendTimeout, Latest
    <3>3. QED
      BY <1>1, <3>1, <3>2, AreasKept
  <2>4. QED
    BY <1>3, <2>1, <2>2, <2>3 DEF TaskStep
<1>4. CASE IsrStep
  <2>1. CASE IsrReclaim
    BY <2>1, AreasReclaim
  <2>2. CASE IsrEnter \/ IsrLoopEnd \/ IsrClear
    <3>1. posted' = posted /\ \A k \in Ring : desc'[k].addr = desc[k].addr
      BY <2>2 DEF IsrEnter, IsrLoopEnd, IsrClear
    <3>2. Latest' = Latest
      BY <2>2 DEF IsrEnter, IsrLoopEnd, IsrClear, taskVars, Latest
    <3>3. QED
      BY <1>1, <3>1, <3>2, AreasKept
  <2>3. QED
    BY <1>4, <2>1, <2>2 DEF IsrStep
<1>5. CASE MacStep
  <2>1. posted' = posted /\ \A k \in Ring : desc'[k].addr = desc[k].addr
    BY <1>5 DEF MacStep, MacSend, MacHalt, TypeOK, isrVars
  <2>2. Latest' = Latest
    BY <1>5 DEF MacStep, MacSend, MacHalt, taskVars, Latest
  <2>3. QED
    BY <1>1, <2>1, <2>2, AreasKept
<1>6. CASE UNCHANGED vars
  <2>1. posted' = posted /\ \A k \in Ring : desc'[k].addr = desc[k].addr
    BY <1>6 DEF vars, isrVars
  <2>2. Latest' = Latest
    BY <1>6 DEF vars, taskVars, Latest
  <2>3. QED
    BY <1>1, <2>1, <2>2, AreasKept
<1>7. QED
  BY <1>2, <1>3, <1>4, <1>5, <1>6 DEF Next

-----------------------------------------------------------------------------
(* The inductive invariant. *)

LEMMA IInvInit == Init => IInv
<1> SUFFICES ASSUME Init PROVE IInv
  OBVIOUS
<1>1. Held = {}
  BY DEF Init, Held
<1>2. Cardinality(Held) = 0
  BY <1>1, FS_EmptySet
<1>3. RoomInv
  BY <1>2, TxAssumption DEF Init, RoomInv
<1>4. HeldInv
  BY <1>1 DEF HeldInv
<1>5. PostedInv
  BY DEF Init, PostedInv, PostedOnce
<1>6. QED
  BY <1>3, <1>4, <1>5, TypeInit DEF IInv

\* The inductive invariant of the transmit ring, for any number of descriptors.
THEOREM IInvInvariant == Spec => []IInv
<1>1. Init => IInv
  BY IInvInit
<1>2. IInv /\ [Next]_vars => IInv'
  BY TypeStep, RoomStep, AreasStep DEF IInv
<1>3. QED
  BY <1>1, <1>2, PTL DEF Spec

\* DevTxRdySignalObj never promises more than the ring can take, although frames are
\* refused and waits time out (net_dev_efm32_ether_bridge.c 770, 1134, 1378).
THEOREM ReadyIsBounded == Spec => []ReadyIsRoom
<1>1. IInv => ReadyIsRoom
  BY DEF IInv, RoomInv, ReadyIsRoom
<1>2. QED
  BY <1>1, IInvInvariant, PTL

\* No data area is posted for deallocation twice (1136-1152 against 1374-1386).
THEOREM AreaPostedOnce == Spec => []PostedOnce
<1>1. IInv => PostedOnce
  BY DEF IInv, PostedInv
<1>2. QED
  BY <1>1, IInvInvariant, PTL
-----------------------------------------------------------------------------
(* The order of the frames. *)

LEMMA NextFreeInRing == TypeOK => NextFree \in Ring
BY SuccInRing DEF TypeOK, NextFree

\* Steps that move neither end and give no descriptor leave GivenInv alone.
LEMMA GivenKept ==
  ASSUME GivenInv, NextFree' = NextFree, mac' = mac,
         \A k \in Ring : desc'[k].used = desc[k].used
  PROVE  GivenInv'
BY DEF GivenInv, Offset

\* The MAC is done with the first of its descriptors.
LEMMA GivenSend ==
  ASSUME TypeOK, GivenInv, MacSend
  PROVE  GivenInv'
<1>0. N \in Nat /\ N > 0 /\ mac \in Ring /\ NextFree \in Ring
  BY TxAssumption, NextFreeInRing DEF TypeOK
<1>1. mac' = Succ(mac) /\ NextFree' = NextFree /\ ~desc[mac].used
  BY DEF MacSend, NextFree, taskVars
<1>2. desc'[mac].used /\ \A k \in Ring : k # mac => desc'[k].used = desc[k].used
  BY DEF MacSend, TypeOK
<1>3. CASE mac = NextFree /\ (\A k \in Ring : ~desc[k].used)
  <2>1. \A k \in Ring : Offset(k)' < Offset(NextFree)' <=> k # mac
    BY <1>0, <1>1, <1>3 DEF Offset, Ring, Succ
  <2>2. QED
    BY <1>0, <1>2, <1>3, <2>1 DEF GivenInv
<1>4. CASE \A k \in Ring : ~desc[k].used <=> Offset(k) < Offset(NextFree)
  <2>1. Offset(mac) < Offset(NextFree)
    BY <1>0, <1>1, <1>4
  <2>2. \A k \in Ring : k # mac => (Offset(k)' < Offset(NextFree)' <=> Offset(k) < Offset(NextFree))
    BY <1>0, <1>1, <2>1 DEF Offset, Ring, Succ
  <2>3. \A k \in Ring : k = mac => ~(Offset(k)' < Offset(NextFree)')
    BY <1>0, <1>1, <2>1 DEF Offset, Ring, Succ
  <2>4. \A k \in Ring : ~desc'[k].used <=> Offset(k)' < Offset(NextFree)'
    BY <1>2, <1>4, <2>2, <2>3
  <2>5. QED
    BY <2>4 DEF GivenInv
<1>5. QED
  BY <1>3, <1>4 DEF GivenInv

\* The task gives the MAC the descriptor behind the last of its own.
LEMMA GivenWritten ==
  ASSUME TypeOK, GivenInv, WritingInv, TxStatus
  PROVE  /\ GivenInv'
         /\ \A k \in Ring : ~desc[k].used => Offset(k) < Offset(cur)
<1>0. N \in Nat /\ N > 0 /\ cur \in Ring /\ mac \in Ring
  BY TxAssumption DEF TypeOK
<1>1. desc[cur].used /\ NextFree = cur /\ NextFree' = Succ(cur) /\ mac' = mac /\ cur' = cur
  BY DEF TxStatus, WritingInv, Writing, NextFree, macVars, Succ
<1>2. ~desc'[cur].used /\ \A k \in Ring : k # cur => desc'[k].used = desc[k].used
  BY DEF TxStatus, TypeOK
<1>3. \A k \in Ring : ~desc[k].used <=> Offset(k) < Offset(cur)
  BY <1>0, <1>1 DEF GivenInv
<1>4. \A k \in Ring : Offset(k)' = Offset(k)
  BY <1>1 DEF Offset
<1>5. Offset(Succ(cur)) = IF Offset(cur) = N - 1 THEN 0 ELSE Offset(cur) + 1
  BY <1>0 DEF Offset, Ring, Succ
<1>6. CASE Offset(cur) = N - 1
  <2>1. mac' = NextFree'
    BY <1>0, <1>1, <1>6 DEF Offset, Ring, Succ
  <2>2. \A k \in Ring : k # cur => Offset(k) < Offset(cur)
    BY <1>0, <1>6 DEF Offset, Ring
  <2>3. GivenInv'
    BY <1>2, <1>3, <2>1, <2>2 DEF GivenInv
  <2>4. QED
    BY <1>3, <2>3
<1>7. CASE Offset(cur) # N - 1
  <2>1. \A k \in Ring : k # cur => (Offset(k) < Offset(cur) + 1 <=> Offset(k) < Offset(cur))
    BY <1>0 DEF Offset, Ring
  <2>2. Offset(cur) < Offset(cur) + 1
    BY <1>0 DEF Offset, Ring
  <2>3. \A k \in Ring : ~desc'[k].used <=> Offset(k) < Offset(Succ(cur))
    BY <1>2, <1>3, <1>5, <1>7, <2>1, <2>2
  <2>4. \A k \in Ring : ~desc'[k].used <=> Offset(k)' < Offset(NextFree)'
    BY <1>1, <2>3 DEF Offset
  <2>5. GivenInv'
    BY <2>4 DEF GivenInv
  <2>6. QED
    BY <1>3, <2>5
<1>8. QED
  BY <1>6, <1>7

LEMMA GivenStep == TypeOK /\ WritingInv /\ GivenInv /\ [Next]_vars => GivenInv'
<1> SUFFICES ASSUME TypeOK, WritingInv, GivenInv, [Next]_vars PROVE GivenInv'
  OBVIOUS
<1>1. CASE TxEnter \/ TxStart \/ PendTake \/ PendTimeout
  BY <1>1, GivenKept DEF TxEnter, TxStart, PendTake, PendTimeout, NextFree, macVars
<1>2. CASE TxAddress
  <2>1. \A k \in Ring : desc'[k].used = desc[k].used
    BY <1>2 DEF TxAddress, TypeOK
  <2>2. QED
    BY <1>2, <2>1, GivenKept DEF TxAddress, NextFree, macVars
<1>3. CASE TxStatus
  BY <1>3, GivenWritten
<1>4. CASE TxAdvance
  BY <1>4, GivenKept DEF TxAdvance, NextFree, macVars
<1>5. CASE IsrReclaim
  <2>1. \A k \in Ring : desc'[k].used = desc[k].used
    BY <1>5 DEF IsrReclaim, TypeOK
  <2>2. QED
    BY <1>5, <2>1, GivenKept DEF IsrReclaim, NextFree, taskVars, macVars
<1>6. CASE IsrEnter \/ IsrLoopEnd \/ IsrClear
  BY <1>6, GivenKept DEF IsrEnter, IsrLoopEnd, IsrClear, NextFree, taskVars, macVars
<1>7. CASE MacSend
  BY <1>7, GivenSend
<1>8. CASE MacHalt
  BY <1>8, GivenKept DEF MacHalt, NextFree, taskVars
<1>9. CASE UNCHANGED vars
  BY <1>9, GivenKept DEF vars, NextFree, taskVars, macVars
<1>10. QED
  BY <1>1, <1>2, <1>3, <1>4, <1>5, <1>6, <1>7, <1>8, <1>9
     DEF Next, TaskStep, IsrStep, MacStep

\* Between TxEnter and TxStatus nobody else gives the current descriptor away.
LEMMA WritingStep == TypeOK /\ WritingInv /\ [Next]_vars => WritingInv'
<1> SUFFICES ASSUME TypeOK, WritingInv, [Next]_vars PROVE WritingInv'
  OBVIOUS
<1>0. cur \in Ring
  BY DEF TypeOK
<1>1. CASE TxEnter
  BY <1>1 DEF TxEnter, WritingInv, Writing
<1>2. CASE TxAddress
  BY <1>0, <1>2 DEF TxAddress, WritingInv, Writing, TypeOK
<1>3. CASE TxStatus \/ TxAdvance \/ TxStart \/ PendTake \/ PendTimeout
  BY <1>3 DEF TxStatus, TxAdvance, TxStart, PendTake, PendTimeout, WritingInv, Writing
<1>4. CASE IsrReclaim
  BY <1>0, <1>4 DEF IsrReclaim, WritingInv, Writing, TypeOK, taskVars
<1>5. CASE IsrEnter \/ IsrLoopEnd \/ IsrClear
  BY <1>5 DEF IsrEnter, IsrLoopEnd, IsrClear, WritingInv, Writing, taskVars
<1>6. CASE MacSend
  BY <1>0, <1>6 DEF MacSend, WritingInv, Writing, TypeOK, taskVars
<1>7. CASE MacHalt \/ UNCHANGED vars
  BY <1>7 DEF MacHalt, vars, WritingInv, Writing, taskVars
<1>8. QED
  BY <1>1, <1>2, <1>3, <1>4, <1>5, <1>6, <1>7 DEF Next, TaskStep, IsrStep, MacStep

\* Steps that give the MAC nothing, send nothing and forget no frame.
LEMMA OrderKept ==
  ASSUME TypeOK, OrderInv, sent' = sent, mac' = mac,
         \A k \in Ring : Given(k)' => Given(k) /\ desc'[k].addr = desc[k].addr,
         Newest \in Int, Newest' \in Int, Newest <= Newest'
  PROVE  OrderInv'
<1>1. \A k \in Ring : Offset(k)' = Offset(k)
  BY DEF Offset
<1>2. \A k \in Ring : desc[k].addr \in Int
  BY TxAssumption DEF TypeOK, Frames, Null
<1>3. \A i \in DOMAIN sent : sent[i] \in Int
  BY TxAssumption DEF TypeOK, Frames, Null
<1>4. \A k, l \in Ring :
        Given(k)' /\ Given(l)' /\ Offset(k)' < Offset(l)' => desc'[k].addr < desc'[l].addr
  BY <1>1 DEF OrderInv
<1>5. \A k \in Ring : Given(k)' => desc'[k].addr <= Newest'
  BY <1>2 DEF OrderInv
<1>6. \A i \in DOMAIN sent : sent[i] # Null => sent[i] <= Newest'
  BY <1>3 DEF OrderInv
<1>7. \A i \in DOMAIN sent : sent[i] # Null => \A k \in Ring : Given(k)' => sent[i] < desc'[k].addr
  BY DEF OrderInv
<1>8. QED
  BY <1>4, <1>5, <1>6, <1>7 DEF OrderInv

\* The frame that is given to the MAC is newer than those it has and those it sent.
LEMMA OrderWritten ==
  ASSUME TypeOK, GivenInv, WritingInv, OrderInv, TxStatus
  PROVE  OrderInv'
<1>0. frame \in Int /\ cur \in Ring /\ mac \in Ring /\ N \in Nat
  BY TxAssumption DEF TypeOK
<1>1. /\ Newest = frame - 1 /\ Newest' = frame
      /\ sent' = sent /\ mac' = mac /\ desc[cur].addr \in {Null, frame}
  BY DEF TxStatus, Newest, Writing, WritingInv, macVars
<1>2. /\ \A k \in Ring : desc'[k].addr = desc[k].addr
      /\ \A k \in Ring : Given(k)' => k = cur \/ Given(k)
  BY DEF TxStatus, TypeOK, Given
<1>3. \A k \in Ring : Offset(k)' = Offset(k)
  BY <1>1 DEF Offset
<1>4. \A k \in Ring : Given(k) => k # cur /\ Offset(k) < Offset(cur)
  BY GivenWritten DEF Given, WritingInv, Writing, TxStatus
<1>5. \A k \in Ring : desc[k].addr \in Int /\ Offset(k) \in Int
  <2>1. \A k \in Ring : desc[k].addr \in Int
    BY TxAssumption DEF TypeOK, Frames, Null
  <2>2. \A k \in Ring : Offset(k) \in Int
    BY <1>0 DEF Offset, Ring
  <2>3. QED
    BY <2>1, <2>2
<1>6. \A i \in DOMAIN sent : sent[i] \in Int
  BY TxAssumption DEF TypeOK, Frames, Null
<1>7. \A k \in Ring : k = cur /\ Given(k)' => desc[k].addr = frame
  BY <1>0, <1>1, <1>2 DEF Given
<1>8. \A k \in Ring : Given(k) => desc[k].addr < frame
  BY <1>0, <1>1, <1>5 DEF OrderInv
<1>9. \A i \in DOMAIN sent : sent[i] # Null => sent[i] < frame
  BY <1>0, <1>1, <1>6 DEF OrderInv
<1>10. ASSUME NEW k \in Ring, NEW l \in Ring, Given(k)', Given(l)', Offset(k) < Offset(l)
       PROVE  desc[k].addr < desc[l].addr
  <2>1. k # cur
    <3>1. SUFFICES ASSUME k = cur PROVE FALSE
      OBVIOUS
    <3>2. Given(l)
      BY <1>2, <1>5, <1>10, <3>1
    <3>3. Offset(l) < Offset(cur)
      BY <1>4, <3>2
    <3>4. QED
      BY <1>5, <1>10, <3>1, <3>3
  <2>2. Given(k)
    BY <1>2, <1>10, <2>1
  <2>3. CASE l = cur
    BY <1>7, <1>8, <1>10, <2>2, <2>3
  <2>4. CASE l # cur
    BY <1>2, <1>10, <2>2, <2>4 DEF OrderInv
  <2>5. QED
    BY <2>3, <2>4
<1>11. \A k \in Ring : Given(k)' => desc[k].addr <= frame
  BY <1>0, <1>2, <1>5, <1>7, <1>8
<1>12. \A i \in DOMAIN sent : sent[i] # Null =>
         sent[i] <= frame /\ \A k \in Ring : Given(k)' => sent[i] < desc[k].addr
  <2>1. \A i \in DOMAIN sent : sent[i] # Null => sent[i] <= frame
    BY <1>0, <1>6, <1>9
  <2>2. \A i \in DOMAIN sent : sent[i] # Null => \A k \in Ring : Given(k) => sent[i] < desc[k].addr
    BY DEF OrderInv
  <2>3. \A i \in DOMAIN sent : sent[i] # Null => \A k \in Ring : Given(k)' => sent[i] < desc[k].addr
    BY <1>2, <1>7, <1>9, <2>2
  <2>4. QED
    BY <2>1, <2>3
<1>13. QED
  BY <1>1, <1>2, <1>3, <1>10, <1>11, <1>12 DEF OrderInv

\* The MAC sends the oldest of its frames.
LEMMA OrderSent ==
  ASSUME TypeOK, GivenInv, OrderInv, SentInOrder, MacSend
  PROVE  OrderInv' /\ SentInOrder'
<1> DEFINE area == desc[mac].addr
<1>0. N \in Nat /\ N > 0 /\ mac \in Ring /\ Newest \in Int
  BY TxAssumption DEF TypeOK, Newest
<1>1. /\ ~desc[mac].used /\ mac' = Succ(mac) /\ Newest' = Newest
      /\ area \in Int /\ (area # Null => Given(mac))
  BY TxAssumption DEF MacSend, Newest, Writing, taskVars, TypeOK, Frames, Null, Given
<1>2. /\ \A k \in Ring : desc'[k].addr = desc[k].addr
      /\ \A k \in Ring : Given(k)' => k # mac /\ Given(k)
  BY DEF MacSend, TypeOK, Given
<1>3. \A k, l \in Ring :
        k # mac /\ l # mac /\ Offset(k)' < Offset(l)' => Offset(k) < Offset(l)
  BY <1>0, <1>1 DEF Offset, Ring, Succ
<1>4. \A k \in Ring : k # mac => Offset(mac) < Offset(k)
  BY <1>0 DEF Offset, Ring
<1>5. /\ Len(sent) \in Nat
      /\ DOMAIN sent = 1 .. Len(sent)
      /\ DOMAIN sent' = 1 .. Len(sent) + 1
      /\ \A i \in 1 .. Len(sent) : sent'[i] = sent[i]
      /\ sent'[Len(sent) + 1] = area
  BY DEF MacSend, TypeOK
<1>6. \A k \in Ring : area # Null /\ Given(k)' => area < desc[k].addr
  BY <1>0, <1>1, <1>2, <1>4 DEF OrderInv
<1>7. area # Null => area <= Newest
  BY <1>0, <1>1 DEF OrderInv
<1>8. \A i \in DOMAIN sent : sent[i] # Null /\ area # Null => sent[i] < area
  BY <1>0, <1>1 DEF OrderInv
<1> HIDE DEF area
<1>9. \A i \in DOMAIN sent' : i \in DOMAIN sent \/ i = Len(sent) + 1
  BY <1>5
<1>10. OrderInv'
  <2>1. \A k, l \in Ring :
          Given(k)' /\ Given(l)' /\ Offset(k)' < Offset(l)' => desc'[k].addr < desc'[l].addr
    BY <1>2, <1>3 DEF OrderInv
  <2>2. \A k \in Ring : Given(k)' => desc'[k].addr <= Newest'
    BY <1>1, <1>2 DEF OrderInv
  <2>3. \A i \in DOMAIN sent' : sent'[i] # Null => sent'[i] <= Newest'
    BY <1>1, <1>5, <1>7, <1>9 DEF OrderInv
  <2>4. \A i \in DOMAIN sent' : sent'[i] # Null =>
          \A k \in Ring : Given(k)' => sent'[i] < desc'[k].addr
    BY <1>2, <1>5, <1>6, <1>9 DEF OrderInv
  <2>5. QED
    BY <2>1, <2>2, <2>3, <2>4 DEF OrderInv
<1>11. SentInOrder'
  <2>1. SUFFICES ASSUME NEW i \in DOMAIN sent', NEW j \in DOMAIN sent',
                        i < j, sent'[i] # Null, sent'[j] # Null
                 PROVE  sent'[i] < sent'[j]
    BY DEF SentInOrder
  <2>2. i \in DOMAIN sent
    BY <1>5, <2>1
  <2>3. CASE j \in DOMAIN sent
    BY <1>5, <2>1, <2>2, <2>3 DEF SentInOrder
  <2>4. CASE j = Len(sent) + 1
    BY <1>5, <1>8, <2>1, <2>2, <2>4
  <2>5. QED
    BY <1>9, <2>1, <2>3, <2>4
<1>12. QED
  BY <1>10, <1>11

LEMMA OrderStep ==
  TypeOK /\ GivenInv /\ WritingInv /\ OrderInv /\ SentInOrder /\ [Next]_vars
    => OrderInv' /\ SentInOrder'
<1> SUFFICES ASSUME TypeOK, GivenInv, WritingInv, OrderInv, SentInOrder, [Next]_vars
             PROVE  OrderInv' /\ SentInOrder'
  OBVIOUS
<1>0. frame \in Int /\ Newest \in Int /\ cur \in Ring
  BY TxAssumption DEF TypeOK, Newest
<1>1. ASSUME sent' = sent PROVE SentInOrder'
  BY <1>1 DEF SentInOrder
<1>2. CASE TxEnter
  <2>1. sent' = sent /\ mac' = mac /\ desc' = desc /\ Newest' \in Int /\ Newest <= Newest'
    BY <1>0, <1>2 DEF TxEnter, Newest, Writing, macVars
  <2>2. QED
    BY <1>0, <1>1, <2>1, OrderKept DEF Given
<1>3. CASE TxAddress
  <2>1. sent' = sent /\ mac' = mac /\ Newest' = Newest
    BY <1>3 DEF TxAddress, Newest, Writing, macVars
  <2>2. \A k \in Ring : Given(k)' => Given(k) /\ desc'[k].addr = desc[k].addr
    BY <1>0, <1>3 DEF TxAddress, TypeOK, Given, WritingInv, Writing
  <2>3. QED
    BY <1>0, <1>1, <2>1, <2>2, OrderKept
<1>4. CASE TxStatus
  BY <1>1, <1>4, OrderWritten DEF TxStatus, macVars
<1>5. CASE TxAdvance \/ TxStart \/ PendTake \/ PendTimeout
  <2>1. sent' = sent /\ mac' = mac /\ desc' = desc /\ Newest' = Newest
    BY <1>5 DEF TxAdvance, TxStart, PendTake, PendTimeout, Newest, Writing, macVars
  <2>2. QED
    BY <1>0, <1>1, <2>1, OrderKept DEF Given
<1>6. CASE IsrReclaim
  <2>1. sent' = sent /\ mac' = mac /\ Newest' = Newest
    BY <1>6 DEF IsrReclaim, Newest, Writing, taskVars, macVars
  <2>2. \A k \in Ring : Given(k)' => Given(k) /\ desc'[k].addr = desc[k].addr
    BY <1>6 DEF IsrReclaim, TypeOK, Given
  <2>3. QED
    BY <1>0, <1>1, <2>1, <2>2, OrderKept
<1>7. CASE IsrEnter \/ IsrLoopEnd \/ IsrClear \/ MacHalt \/ UNCHANGED vars
  <2>1. sent' = sent /\ mac' = mac /\ desc' = desc /\ Newest' = Newest
    BY <1>7 DEF IsrEnter, IsrLoopEnd, IsrClear, MacHalt, vars, Newest, Writing, taskVars, macVars
  <2>2. QED
    BY <1>0, <1>1, <2>1, OrderKept DEF Given
<1>8. CASE MacSend
  BY <1>8, OrderSent
<1>9. QED
  BY <1>2, <1>3, <1>4, <1>5, <1>6, <1>7, <1>8 DEF Next, TaskStep, IsrStep, MacStep

LEMMA OrderedInit == Init => OrderedInv
<1> SUFFICES ASSUME Init PROVE OrderedInv
  OBVIOUS
<1>1. \A k \in Ring : desc[k].used /\ ~(Offset(k) < Offset(NextFree))
  BY TxAssumption DEF Init, Offset, NextFree, Ring
<1>2. GivenInv
  BY <1>1 DEF GivenInv
<1>3. WritingInv /\ OrderInv /\ SentInOrder
  BY <1>1 DEF Init, WritingInv, Writing, OrderInv, SentInOrder, Given
<1>4. QED
  BY <1>2, <1>3, TypeInit DEF OrderedInv

\* The invariant of the order of the frames, for any number of descriptors and frames.
THEOREM OrderedInvariant == Spec => []OrderedInv
<1>1. Init => OrderedInv
  BY OrderedInit
<1>2. OrderedInv /\ [Next]_vars => OrderedInv'
  BY TypeStep, GivenStep, WritingStep, OrderStep DEF OrderedInv
<1>3. QED
  BY <1>1, <1>2, PTL DEF Spec

\* The MAC sends the frames in the order of their arrival and none twice, although it
\* stops and starts while the task writes (1130-1156).
THEOREM SentIsOrdered == Spec => []SentInOrder
<1>1. OrderedInv => SentInOrder
  BY DEF OrderedInv
<1>2. QED
  BY <1>1, OrderedInvariant, PTL
=============================================================================
