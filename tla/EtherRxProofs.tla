---------------------------- MODULE EtherRxProofs ----------------------------
(***************************************************************************)
(* Proofs that the receive ring keeps its types, that every data area is   *)
(* at one place, that no frame in the ring is forgotten and that frames    *)
(* are forwarded in order, for any length of the ring and of the queue,    *)
(* any number of data areas and frames, and both kinds of device.          *)
(***************************************************************************)
EXTENDS EtherRx, Integers, TLAPS

-----------------------------------------------------------------------------
(* The ring. *)

LEMMA Constants ==
  /\ N \in Nat /\ N > 0
  /\ Areas \in Nat /\ Areas >= N
  /\ QMax \in Nat /\ QMax > 0
  /\ MaxFrames \in Nat
BY RxAssumption

\* The successor of a descriptor is one.
LEMMA SuccInRing == ASSUME NEW k \in Ring PROVE Succ(k) \in Ring
BY Constants DEF Ring, Succ

-----------------------------------------------------------------------------
(* Types. *)

LEMMA TypeInit == Init => TypeOK
<1> SUFFICES ASSUME Init PROVE TypeOK
  OBVIOUS
<1>1. desc \in [Ring -> [area : Pool, own : BOOLEAN]]
  <2>1. \A k \in Ring : k + 1 \in Pool
    BY Constants DEF Ring, Pool
  <2>2. QED
    BY <2>1 DEF Init
<1>2. free \subseteq Pool
  BY Constants DEF Init, Pool
<1>3. QED
  BY <1>1, <1>2, Constants, RxAssumption DEF Init, TypeOK, Ring, Pool, TaskPcs, Events, Null

LEMMA TypeStep == TypeOK /\ HeldInv /\ [Next]_vars => TypeOK'
<1> SUFFICES ASSUME TypeOK, HeldInv, [Next]_vars PROVE TypeOK'
  OBVIOUS
<1>1. \A q \in 0 .. QMax : (IF q < QMax THEN q + 1 ELSE q) \in 0 .. QMax
  BY Constants
<1>2. CASE TaskStep
  <2>1. CASE RxTake
    <3>1. rxq - 1 \in 0 .. QMax
      BY <2>1, Constants DEF RxTake, TypeOK
    <3>2. QED
      BY <2>1, <3>1 DEF RxTake, TypeOK, TaskPcs, isrVars, macVars
  <2>2. CASE RxNotReady
    BY <2>2 DEF RxNotReady, TypeOK, TaskPcs, isrVars, macVars
  <2>3. CASE RxDiscard
    BY <2>3 DEF RxDiscard, TypeOK, TaskPcs, isrVars, macVars
  <2>4. CASE RxExchange
    <3>1. desc[cur].area \in Pool
      BY DEF TypeOK
    <3>2. desc' \in [Ring -> [area : Pool, own : BOOLEAN]] /\ free' \subseteq Pool
      BY <2>4 DEF RxExchange, TypeOK
    <3>3. QED
      BY <2>4, <3>1, <3>2 DEF RxExchange, TypeOK, TaskPcs, isrVars, macVars
  <2>5. CASE RxRelease
    <3>1. desc' \in [Ring -> [area : Pool, own : BOOLEAN]]
      BY <2>5 DEF RxRelease, TypeOK
    <3>2. QED
      BY <2>5, <3>1 DEF RxRelease, TypeOK, TaskPcs, isrVars, macVars
  <2>6. CASE RxAdvance
    BY <2>6, SuccInRing DEF RxAdvance, TypeOK, TaskPcs, isrVars, macVars
  <2>7. CASE RxLook
    BY <2>7 DEF RxLook, TypeOK, TaskPcs, isrVars, macVars
  <2>8. CASE RxPost
    BY <1>1, <2>8 DEF RxPost, RxQPost, Forward, TypeOK, TaskPcs, isrVars, macVars
  <2>9. CASE RxEnable
    BY <2>9 DEF RxEnable, Forward, TypeOK, TaskPcs, isrVars, macVars
  <2>10. CASE RxOutput
    <3>1. data[held] \in 0 .. MaxFrames
      BY <2>10 DEF RxOutput, HeldInv, TypeOK
    <3>2. out' \in Seq(0 .. MaxFrames)
      <4>1. out \in Seq(0 .. MaxFrames)
        BY DEF TypeOK
      <4>2. Append(out, data[held]) \in Seq(0 .. MaxFrames)
        BY <3>1, <4>1
      <4>3. QED
        BY <2>10, <4>1, <4>2 DEF RxOutput
    <3>3. QED
      BY <2>10, <3>2 DEF RxOutput, TypeOK, TaskPcs, isrVars, macVars
  <2>11. CASE RxFree
    <3>1. free' \subseteq Pool
      BY <2>11 DEF RxFree, HeldInv, TypeOK
    <3>2. QED
      BY <2>11, <3>1 DEF RxFree, TypeOK, TaskPcs, isrVars, macVars
  <2>12. QED
    BY <1>2, <2>1, <2>2, <2>3, <2>4, <2>5, <2>6, <2>7, <2>8, <2>9, <2>10, <2>11
       DEF TaskStep, NetDev_Rx, RxDescPtrCurInc
<1>3. CASE IsrStep
  <2>1. CASE IsrEnter
    BY <2>1 DEF IsrEnter, TypeOK, taskVars, macVars
  <2>2. CASE IsrPost
    BY <1>1, <2>2 DEF IsrPost, RxQPost, TypeOK, taskVars, macVars
  <2>3. CASE IsrDisable
    BY <2>3 DEF IsrDisable, TypeOK, taskVars, macVars
  <2>4. CASE IsrClear
    BY <2>4 DEF IsrClear, TypeOK, taskVars, macVars
  <2>5. QED
    BY <1>3, <2>1, <2>2, <2>3, <2>4 DEF IsrStep
<1>4. CASE MacReceive
  <2>1. got' \in 0 .. MaxFrames
    BY <1>4, Constants DEF MacReceive, TypeOK
  <2>2. data' \in [Pool -> 0 .. MaxFrames]
    BY <1>4, <2>1 DEF MacReceive, TypeOK
  <2>3. desc' \in [Ring -> [area : Pool, own : BOOLEAN]]
    BY <1>4 DEF MacReceive, TypeOK
  <2>4. mac' \in Ring /\ status' \subseteq Events
    BY <1>4, SuccInRing DEF MacReceive, TypeOK, Events
  <2>5. QED
    BY <1>4, <2>1, <2>2, <2>3, <2>4 DEF MacReceive, TypeOK, taskVars, isrVars
<1>5. CASE MacTransmitted
  BY <1>5 DEF MacTransmitted, TypeOK, Events, taskVars, isrVars, macVars
<1>6. CASE UNCHANGED vars
  BY <1>6 DEF vars, TypeOK, taskVars, isrVars, macVars
<1>7. QED
  BY <1>2, <1>3, <1>4, <1>5, <1>6 DEF Next

-----------------------------------------------------------------------------
(* Data areas. *)

\* Steps that leave the data areas and the task's place alone leave HeldInv alone,
\* as long as they take no frame from the task.
LEMMA HeldKept ==
  ASSUME HeldInv, UNCHANGED <<tpc, held, cur>>, desc[cur].own => desc'[cur].own
  PROVE  HeldInv'
BY DEF HeldInv

LEMMA HeldStep == TypeOK /\ HeldInv /\ [Next]_vars => HeldInv'
<1> SUFFICES ASSUME TypeOK, HeldInv, [Next]_vars PROVE HeldInv'
  OBVIOUS
<1>1. CASE TaskStep
  <2>1. CASE RxTake
    BY <2>1 DEF RxTake, HeldInv
  <2>2. CASE RxNotReady
    BY <2>2 DEF RxNotReady, HeldInv
  <2>3. CASE RxDiscard
    BY <2>3 DEF RxDiscard, HeldInv
  <2>4. CASE RxExchange
    <3>1. desc'[cur].own
      BY <2>4 DEF RxExchange, TypeOK
    <3>2. QED
      BY <2>4, <3>1 DEF RxExchange, HeldInv
  <2>5. CASE RxRelease
    BY <2>5 DEF RxRelease, HeldInv
  <2>6. CASE RxAdvance
    BY <2>6 DEF RxAdvance, HeldInv
  <2>7. CASE RxLook
    BY <2>7 DEF RxLook, HeldInv
  <2>8. CASE RxPost
    BY <2>8 DEF RxPost, Forward, HeldInv
  <2>9. CASE RxEnable
    BY <2>9 DEF RxEnable, Forward, HeldInv
  <2>10. CASE RxOutput
    BY <2>10 DEF RxOutput, HeldInv
  <2>11. CASE RxFree
    BY <2>11 DEF RxFree, HeldInv
  <2>12. QED
    BY <1>1, <2>1, <2>2, <2>3, <2>4, <2>5, <2>6, <2>7, <2>8, <2>9, <2>10, <2>11
       DEF TaskStep, NetDev_Rx, RxDescPtrCurInc
<1>2. CASE IsrStep
  BY <1>2, HeldKept DEF IsrStep, IsrEnter, IsrPost, IsrDisable, IsrClear, taskVars
<1>3. CASE MacReceive
  <2>1. desc[cur].own => desc'[cur].own
    BY <1>3 DEF MacReceive, TypeOK
  <2>2. QED
    BY <1>3, <2>1, HeldKept DEF MacReceive, taskVars
<1>4. CASE MacTransmitted
  BY <1>4, HeldKept DEF MacTransmitted, taskVars
<1>5. CASE UNCHANGED vars
  BY <1>5, HeldKept DEF vars, taskVars
<1>6. QED
  BY <1>1, <1>2, <1>3, <1>4, <1>5 DEF Next

\* Steps that move no data area leave AreasApart alone.
LEMMA AreasKept ==
  ASSUME AreasApart, UNCHANGED <<held, free>>,
         \A k \in Ring : desc'[k].area = desc[k].area
  PROVE  AreasApart'
<1>1. {desc'[k].area : k \in Ring} = {desc[k].area : k \in Ring}
  OBVIOUS
<1>2. QED
  BY <1>1 DEF AreasApart

LEMMA AreasStep == TypeOK /\ HeldInv /\ AreasApart /\ [Next]_vars => AreasApart'
<1> SUFFICES ASSUME TypeOK, HeldInv, AreasApart, [Next]_vars PROVE AreasApart'
  OBVIOUS
<1>1. CASE RxExchange
  <2>1. held = Null /\ cur \in Ring
    BY <1>1 DEF RxExchange, HeldInv, TypeOK
  <2>2. PICK a \in free : desc' = [desc EXCEPT ![cur].area = a] /\ free' = free \ {a}
    BY <1>1 DEF RxExchange
  <2>3. held' = desc[cur].area
    BY <1>1 DEF RxExchange
  <2>4. desc'[cur].area = a /\ \A k \in Ring : k # cur => desc'[k].area = desc[k].area
    BY <2>1, <2>2 DEF TypeOK
  <2>5. \A k, l \in Ring : desc'[k].area = desc'[l].area => k = l
    BY <2>2, <2>4 DEF AreasApart
  <2>6. \A k \in Ring : desc'[k].area # held' /\ desc'[k].area \notin free'
    BY <2>1, <2>2, <2>3, <2>4 DEF AreasApart
  <2>7. held' \notin free'
    BY <2>1, <2>2, <2>3 DEF AreasApart
  <2>8. ASSUME NEW p \in Pool PROVE p \in {desc'[k].area : k \in Ring} \cup free' \cup {held'}
    <3>1. CASE \E k \in Ring : desc[k].area = p
      BY <2>3, <2>4, <3>1
    <3>2. CASE p \in free
      BY <2>1, <2>2, <2>4, <3>2
    <3>3. CASE p = held
      BY <2>1, <3>3, Constants DEF Pool, Null
    <3>4. QED
      BY <3>1, <3>2, <3>3 DEF AreasApart
  <2>9. QED
    BY <2>5, <2>6, <2>7, <2>8 DEF AreasApart
<1>2. CASE RxFree
  <2>1. Null \notin Pool
    BY Constants DEF Pool, Null
  <2>2. held \in Pool
    BY <1>2 DEF RxFree, HeldInv, TypeOK
  <2>3. desc' = desc /\ free' = free \cup {held} /\ held' = Null
    BY <1>2 DEF RxFree
  <2>4. \A k \in Ring : desc[k].area # Null
    BY <2>1 DEF TypeOK
  <2>5. Null \notin free'
    BY <2>1, <2>2, <2>3 DEF TypeOK
  <2>6. Pool \subseteq {desc'[k].area : k \in Ring} \cup free' \cup {held'}
    BY <2>3 DEF AreasApart
  <2>7. QED
    BY <2>3, <2>4, <2>5, <2>6 DEF AreasApart
<1>3. CASE RxRelease
  <2>1. \A k \in Ring : desc'[k].area = desc[k].area
    BY <1>3 DEF RxRelease, TypeOK
  <2>2. QED
    BY <1>3, <2>1, AreasKept DEF RxRelease
<1>4. CASE RxTake \/ RxNotReady \/ RxDiscard
  BY <1>4, AreasKept DEF RxTake, RxNotReady, RxDiscard
<1>5. CASE RxAdvance \/ RxLook \/ RxPost \/ RxEnable \/ RxOutput
  BY <1>5, AreasKept DEF RxAdvance, RxLook, RxPost, RxEnable, RxOutput
<1>6. CASE IsrStep
  BY <1>6, AreasKept DEF IsrStep, IsrEnter, IsrPost, IsrDisable, IsrClear, taskVars
<1>7. CASE MacReceive
  <2>1. \A k \in Ring : desc'[k].area = desc[k].area
    BY <1>7 DEF MacReceive, TypeOK
  <2>2. QED
    BY <1>7, <2>1, AreasKept DEF MacReceive, taskVars
<1>8. CASE MacTransmitted
  BY <1>8, AreasKept DEF MacTransmitted, taskVars
<1>9. CASE UNCHANGED vars
  BY <1>9, AreasKept DEF vars, taskVars
<1>10. QED
  BY <1>1, <1>2, <1>3, <1>4, <1>5, <1>6, <1>7, <1>8, <1>9
     DEF Next, TaskStep, NetDev_Rx, RxDescPtrCurInc

-----------------------------------------------------------------------------
(* The full descriptors. *)

LEMMA OldestInRing == TypeOK => Oldest \in Ring
BY SuccInRing DEF TypeOK, Oldest

\* Steps that move neither end and change no owner leave RingInv alone.
LEMMA RingKept ==
  ASSUME RingInv, Oldest' = Oldest, mac' = mac,
         \A k \in Ring : desc'[k].own = desc[k].own
  PROVE  RingInv'
BY DEF RingInv, Offset

LEMMA RingStep == TypeOK /\ HeldInv /\ RingInv /\ [Next]_vars => RingInv'
<1> SUFFICES ASSUME TypeOK, HeldInv, RingInv, [Next]_vars PROVE RingInv'
  OBVIOUS
<1>0. N \in Nat /\ N > 0 /\ cur \in Ring /\ mac \in Ring /\ Oldest \in Ring
  BY Constants, OldestInRing DEF TypeOK
<1>1. CASE RxRelease
  <2>1. Oldest = cur /\ Oldest' = Succ(cur) /\ cur' = cur /\ mac' = mac /\ desc[cur].own
    BY <1>1 DEF RxRelease, Oldest, HeldInv, Succ, macVars
  <2>2. ~desc'[cur].own /\ \A k \in Ring : k # cur => desc'[k].own = desc[k].own
    BY <1>1 DEF RxRelease, TypeOK
  <2>3. CASE mac = Oldest /\ (\A k \in Ring : desc[k].own)
    <3>1. \A k \in Ring : Offset(k)' < Offset(mac)' <=> k # cur
      BY <1>0, <2>1, <2>3 DEF Offset, Ring, Succ
    <3>2. QED
      BY <2>2, <2>3, <3>1, <1>0 DEF RingInv
  <2>4. CASE \A k \in Ring : desc[k].own <=> Offset(k) < Offset(mac)
    <3>1. Offset(cur) < Offset(mac)
      BY <1>0, <2>1, <2>4
    <3>2. \A k \in Ring : k # cur => (Offset(k)' < Offset(mac)' <=> Offset(k) < Offset(mac))
      BY <1>0, <2>1, <3>1 DEF Offset, Ring, Succ
    <3>3. \A k \in Ring : k = cur => ~(Offset(k)' < Offset(mac)')
      BY <1>0, <2>1, <3>1 DEF Offset, Ring, Succ
    <3>4. \A k \in Ring : desc'[k].own <=> Offset(k)' < Offset(mac)'
      BY <2>2, <2>4, <3>2, <3>3
    <3>5. QED
      BY <3>4 DEF RingInv
  <2>5. QED
    BY <2>3, <2>4 DEF RingInv
<1>2. CASE RxAdvance
  BY <1>2, RingKept DEF RxAdvance, Oldest, macVars
<1>3. CASE RxExchange
  <2>1. \A k \in Ring : desc'[k].own = desc[k].own
    BY <1>3 DEF RxExchange, TypeOK
  <2>2. QED
    BY <1>3, <2>1, RingKept DEF RxExchange, Oldest, macVars
<1>4. CASE RxTake \/ RxNotReady \/ RxDiscard \/ RxLook
  BY <1>4, RingKept DEF RxTake, RxNotReady, RxDiscard, RxLook, Oldest, macVars
<1>5. CASE RxPost \/ RxEnable \/ RxOutput \/ RxFree
  BY <1>5, RingKept DEF RxPost, RxEnable, RxOutput, RxFree, Forward, Oldest, macVars
<1>6. CASE IsrStep
  BY <1>6, RingKept DEF IsrStep, IsrEnter, IsrPost, IsrDisable, IsrClear, Oldest, taskVars, macVars
<1>7. CASE MacReceive
  <2>1. ~desc[mac].own /\ mac' = Succ(mac) /\ Oldest' = Oldest
    BY <1>7 DEF MacReceive, Oldest, taskVars
  <2>2. desc'[mac].own /\ \A k \in Ring : k # mac => desc'[k].own = desc[k].own
    BY <1>7 DEF MacReceive, TypeOK
  <2>3. \A k \in Ring : desc[k].own <=> Offset(k) < Offset(mac)
    BY <1>0, <2>1 DEF RingInv
  <2>4. \A k \in Ring : Offset(k)' = Offset(k)
    BY <2>1 DEF Offset
  <2>5. Offset(mac') = IF Offset(mac) = N - 1 THEN 0 ELSE Offset(mac) + 1
    BY <1>0, <2>1 DEF Offset, Ring, Succ
  <2>6. CASE Offset(mac) = N - 1
    <3>1. mac' = Oldest'
      BY <1>0, <2>1, <2>6 DEF Offset, Ring, Succ
    <3>2. \A k \in Ring : k # mac => Offset(k) < Offset(mac)
      BY <1>0, <2>6 DEF Offset, Ring
    <3>3. QED
      BY <2>2, <2>3, <3>1, <3>2 DEF RingInv
  <2>7. CASE Offset(mac) # N - 1
    <3>1. \A k \in Ring : k # mac => (Offset(k) < Offset(mac) + 1 <=> Offset(k) < Offset(mac))
      BY <1>0 DEF Offset, Ring
    <3>2. Offset(mac) < Offset(mac) + 1
      BY <1>0 DEF Offset, Ring
    <3>3. \A k \in Ring : desc'[k].own <=> Offset(k) < Offset(mac')
      BY <2>2, <2>3, <2>5, <2>7, <3>1, <3>2
    <3>4. \A k \in Ring : desc'[k].own <=> Offset(k)' < Offset(mac)'
      BY <2>1, <3>3 DEF Offset
    <3>5. QED
      BY <3>4 DEF RingInv
  <2>8. QED
    BY <2>6, <2>7
<1>8. CASE MacTransmitted
  BY <1>8, RingKept DEF MacTransmitted, Oldest, taskVars, macVars
<1>9. CASE UNCHANGED vars
  BY <1>9, RingKept DEF vars, Oldest, taskVars, macVars
<1>10. QED
  BY <1>1, <1>2, <1>3, <1>4, <1>5, <1>6, <1>7, <1>8, <1>9
     DEF Next, TaskStep, NetDev_Rx, RxDescPtrCurInc

-----------------------------------------------------------------------------
(* Waking the task. *)

LEMMA IsrStepInv == TypeOK /\ IsrInv /\ [Next]_vars => IsrInv'
<1> SUFFICES ASSUME TypeOK, IsrInv, [Next]_vars PROVE IsrInv'
  OBVIOUS
<1>1. CASE TaskStep
  <2>1. isr = "off" /\ isr' = isr
    BY <1>1 DEF TaskStep, NetDev_Rx, RxDescPtrCurInc, RxTake, RxNotReady, RxDiscard, RxExchange,
                RxRelease, RxAdvance, RxLook, RxPost, RxEnable, RxOutput, RxFree, isrVars
  <2>2. QED
    BY <2>1 DEF IsrInv
<1>2. CASE IsrEnter
  BY <1>2 DEF IsrEnter, IsrInv
<1>3. CASE IsrPost
  <2>1. rxq' > 0
    BY <1>3, Constants DEF IsrPost, RxQPost, TypeOK
  <2>2. QED
    BY <1>3, <2>1 DEF IsrPost, IsrInv
<1>4. CASE IsrDisable
  BY <1>4 DEF IsrDisable, IsrInv
<1>5. CASE IsrClear
  BY <1>5 DEF IsrClear, IsrInv
<1>6. CASE MacReceive
  BY <1>6 DEF MacReceive, IsrInv, isrVars
<1>7. CASE MacTransmitted
  BY <1>7 DEF MacTransmitted, IsrInv, isrVars
<1>8. CASE UNCHANGED vars
  BY <1>8 DEF vars, IsrInv, isrVars
<1>9. QED
  BY <1>1, <1>2, <1>3, <1>4, <1>5, <1>6, <1>7, <1>8 DEF Next, IsrStep

LEMMA RecordedStep ==
  TypeOK /\ HeldInv /\ IsrInv /\ RecordedInv /\ [Next]_vars => RecordedInv'
<1> SUFFICES ASSUME TypeOK, HeldInv, IsrInv, RecordedInv, [Next]_vars,
                    latches', desc'[cur'].own
             PROVE  \/ rxq' > 0
                    \/ tpc' \in {"rx", "release", "advance", "look", "post"}
                    \/ "rx" \in status'
  BY DEF RecordedInv
<1>0. rxq \in Nat /\ QMax \in Nat /\ QMax > 0 /\ cur \in Ring
  BY Constants DEF TypeOK
<1>1. CASE TaskStep
  <2>1. CASE RxTake \/ RxDiscard \/ RxExchange \/ RxRelease \/ RxAdvance
    BY <2>1 DEF RxTake, RxDiscard, RxExchange, RxRelease, RxAdvance
  <2>2. CASE RxNotReady
    BY <2>2 DEF RxNotReady
  <2>3. CASE RxLook
    BY <2>3 DEF RxLook
  <2>4. CASE RxPost
    BY <1>0, <2>4 DEF RxPost, RxQPost
  <2>5. CASE RxEnable \/ RxOutput \/ RxFree
    BY <2>5 DEF RxEnable, RxOutput, RxFree, RecordedInv, macVars
  <2>6. QED
    BY <1>1, <2>1, <2>2, <2>3, <2>4, <2>5 DEF TaskStep, NetDev_Rx, RxDescPtrCurInc
<1>2. CASE IsrEnter \/ IsrDisable
  BY <1>2 DEF IsrEnter, IsrDisable, RecordedInv, taskVars, macVars
<1>3. CASE IsrPost
  BY <1>0, <1>3 DEF IsrPost, RxQPost
<1>4. CASE IsrClear
  BY <1>4 DEF IsrClear, IsrInv, RecordedInv, taskVars, macVars
<1>5. CASE MacReceive
  BY <1>5 DEF MacReceive
<1>6. CASE MacTransmitted
  BY <1>6 DEF MacTransmitted, RecordedInv, taskVars, macVars
<1>7. CASE UNCHANGED vars
  BY <1>7 DEF vars, RecordedInv, taskVars, macVars
<1>8. QED
  BY <1>1, <1>2, <1>3, <1>4, <1>5, <1>6, <1>7 DEF Next, IsrStep

\* While the task rests, a full ring has its oldest frame at the current descriptor.
LEMMA CurrentFilled ==
  ASSUME TypeOK, RingInv, tpc # "advance", MacReceive
  PROVE  desc'[cur].own
<1>1. cur \in Ring /\ mac \in Ring /\ N \in Nat /\ N > 0
  BY Constants DEF TypeOK
<1>2. Oldest = cur /\ ~desc[mac].own
  BY DEF Oldest, MacReceive
<1>3. \A k \in Ring : desc[k].own <=> Offset(k) < Offset(mac)
  BY <1>1, <1>2 DEF RingInv
<1>4. desc'[mac].own /\ \A k \in Ring : k # mac => desc'[k].own = desc[k].own
  BY DEF MacReceive, TypeOK
<1>5. cur # mac => Offset(cur) < Offset(mac)
  BY <1>1, <1>2 DEF Offset, Ring
<1>6. QED
  BY <1>1, <1>3, <1>4, <1>5

LEMMA UnrecordedStep ==
  TypeOK /\ HeldInv /\ RingInv /\ IsrInv /\ UnrecordedInv /\ [Next]_vars => UnrecordedInv'
<1> SUFFICES ASSUME TypeOK, HeldInv, RingInv, IsrInv, UnrecordedInv, [Next]_vars, ~latches'
             PROVE  UnrecordedInv'
  BY DEF UnrecordedInv
<1>0. rxq \in 0 .. QMax /\ QMax \in Nat /\ QMax > 0 /\ cur \in Ring
  BY Constants DEF TypeOK
<1>1. CASE isr = "off" /\ RxTake
  BY <1>0, <1>1 DEF RxTake, UnrecordedInv, Working, isrVars, macVars
<1>2. CASE RxNotReady
  BY <1>2 DEF RxNotReady, UnrecordedInv, Working, isrVars, macVars
<1>3. CASE RxDiscard
  BY <1>3 DEF RxDiscard, UnrecordedInv, Working, isrVars, macVars
<1>4. CASE RxExchange
  <2>1. desc'[cur].own = desc[cur].own
    BY <1>4 DEF RxExchange, TypeOK
  <2>2. QED
    BY <1>4, <2>1 DEF RxExchange, UnrecordedInv, Working, isrVars, macVars
<1>5. CASE isr = "off" /\ RxRelease
  BY <1>0, <1>5 DEF RxRelease, UnrecordedInv, Working, isrVars, macVars
<1>6. CASE isr = "off" /\ RxAdvance
  BY <1>0, <1>6 DEF RxAdvance, UnrecordedInv, Working, isrVars, macVars
<1>7. CASE RxLook
  BY <1>0, <1>7 DEF RxLook, UnrecordedInv, Working, isrVars, macVars
<1>8. CASE isr = "off" /\ RxPost
  BY <1>0, <1>8 DEF RxPost, RxQPost, Forward, HeldInv, UnrecordedInv, Working, isrVars, macVars
<1>9. CASE isr = "off" /\ RxEnable
  BY <1>0, <1>9 DEF RxEnable, Forward, UnrecordedInv, Working, isrVars, macVars
<1>10. CASE RxOutput \/ RxFree
  BY <1>0, <1>10 DEF RxOutput, RxFree, UnrecordedInv, Working, isrVars, macVars
<1>11. CASE IsrEnter
  BY <1>0, <1>11 DEF IsrEnter, IrqPending, UnrecordedInv, Working, taskVars, macVars
<1>12. CASE IsrPost
  BY <1>0, <1>12 DEF IsrPost, RxQPost, IsrInv, UnrecordedInv, Working, taskVars, macVars
<1>13. CASE IsrDisable
  BY <1>0, <1>13 DEF IsrDisable, IsrInv, UnrecordedInv, Working, taskVars, macVars
<1>14. CASE IsrClear
  BY <1>0, <1>14 DEF IsrClear, IsrInv, UnrecordedInv, Working, taskVars, macVars
<1>15. CASE MacReceive
  <2>1. tpc # "advance" => desc'[cur].own
    BY <1>15, CurrentFilled
  <2>2. desc[cur].own => desc'[cur].own
    BY <1>15 DEF MacReceive, TypeOK
  <2>3. ~latches /\ UNCHANGED <<tpc, cur, rxq, rx_en, isr, seen>>
    BY <1>15 DEF MacReceive, taskVars, isrVars
  <2>4. status' = IF rx_en THEN status \cup {"rx"} ELSE status
    BY <1>15, <2>3 DEF MacReceive
  <2>5. rx_en => tpc # "advance"
    BY <2>3 DEF UnrecordedInv, Working
  <2>6. QED
    BY <2>1, <2>2, <2>3, <2>4, <2>5 DEF UnrecordedInv, Working
<1>16. CASE MacTransmitted
  BY <1>0, <1>16 DEF MacTransmitted, UnrecordedInv, Working, taskVars, isrVars, macVars
<1>17. CASE UNCHANGED vars
  BY <1>17 DEF vars, UnrecordedInv, Working, taskVars, isrVars, macVars
<1>18. QED
  BY <1>1, <1>2, <1>3, <1>4, <1>5, <1>6, <1>7, <1>8, <1>9, <1>10, <1>11, <1>12, <1>13, <1>14,
     <1>15, <1>16, <1>17
     DEF Next, TaskStep, NetDev_Rx, RxDescPtrCurInc, IsrStep

-----------------------------------------------------------------------------
(* The order of the frames. *)

\* Steps that receive and forward no frame and keep the order of the descriptors
\* leave OrderInv alone.
LEMMA OrderKept ==
  ASSUME OrderInv, UNCHANGED <<data, got, out>>,
         InHand' => InHand /\ held' = held,
         \A k \in Ring : Waiting(k)' => Waiting(k) /\ desc'[k].area = desc[k].area,
         \A k, l \in Ring :
           Waiting(k)' /\ Waiting(l)' /\ Offset(k)' < Offset(l)' => Offset(k) < Offset(l)
  PROVE  OrderInv'
<1>1. \A k \in Ring : Waiting(k)' => Frame(k)' = Frame(k)
  BY DEF Frame
<1>2. (\A k, l \in Ring :
         Waiting(k) /\ Waiting(l) /\ Offset(k) < Offset(l) => Frame(k) < Frame(l))'
  BY <1>1 DEF OrderInv
<1>3. (\A k \in Ring : Waiting(k) /\ InHand => data[held] < Frame(k))'
  BY <1>1 DEF OrderInv
<1>4. (\A i \in DOMAIN out :
         /\ out[i] <= got
         /\ InHand => out[i] < data[held]
         /\ \A k \in Ring : Waiting(k) => out[i] < Frame(k))'
  BY <1>1 DEF OrderInv
<1>5. (\A a \in Pool : data[a] <= got)'
  BY DEF OrderInv
<1>6. QED
  BY <1>2, <1>3, <1>4, <1>5 DEF OrderInv

\* The oldest frame leaves the ring: it is now the frame in hand, or dropped.
LEMMA OrderTaken ==
  ASSUME TypeOK, HeldInv, OrderInv, tpc = "rx", desc[cur].own, tpc' = "release",
         UNCHANGED <<cur, data, got, out>>,
         held' = Null \/ held' = desc[cur].area,
         \A k \in Ring : desc'[k].own = desc[k].own,
         \A k \in Ring : k # cur => desc'[k].area = desc[k].area
  PROVE  OrderInv'
<1>0. N \in Nat /\ N > 0 /\ cur \in Ring
  BY Constants DEF TypeOK
<1>1. \A k \in Ring : Waiting(k)' => k # cur /\ Waiting(k) /\ Frame(k)' = Frame(k)
  BY DEF Waiting, Frame
<1>2. \A k \in Ring : Offset(k)' = Offset(k)
  BY DEF Offset, Oldest
<1>3. Waiting(cur) /\ \A k \in Ring : k # cur => Offset(cur) < Offset(k)
  BY <1>0 DEF Waiting, Offset, Oldest, Ring
<1>4. \A k \in Ring : Waiting(k)' => Frame(cur) < Frame(k)
  BY <1>0, <1>1, <1>3 DEF OrderInv
<1>5. InHand' => data'[held'] = Frame(cur)
  BY DEF InHand, Frame
<1>6. (\A k, l \in Ring :
         Waiting(k) /\ Waiting(l) /\ Offset(k) < Offset(l) => Frame(k) < Frame(l))'
  BY <1>1, <1>2 DEF OrderInv
<1>7. (\A k \in Ring : Waiting(k) /\ InHand => data[held] < Frame(k))'
  BY <1>1, <1>4, <1>5
<1>8. (\A i \in DOMAIN out :
         /\ out[i] <= got
         /\ InHand => out[i] < data[held]
         /\ \A k \in Ring : Waiting(k) => out[i] < Frame(k))'
  BY <1>0, <1>1, <1>3, <1>5 DEF OrderInv
<1>9. QED
  BY <1>6, <1>7, <1>8 DEF OrderInv

\* A frame arrives: it is behind all the others.
LEMMA OrderReceived ==
  ASSUME TypeOK, HeldInv, AreasApart, RingInv, OrderInv, MacReceive
  PROVE  OrderInv'
<1>0. N \in Nat /\ N > 0 /\ cur \in Ring /\ mac \in Ring /\ got \in Nat
  BY Constants DEF TypeOK
<1>1. ~desc[mac].own /\ UNCHANGED <<out, held, tpc, cur>> /\ got' = got + 1
  BY DEF MacReceive, taskVars
<1>2. \A k \in Ring : k # mac => desc'[k] = desc[k]
  BY DEF MacReceive, TypeOK
<1>3. desc'[mac].area = desc[mac].area /\ desc[mac].area \in Pool
  BY <1>0 DEF MacReceive, TypeOK
<1>4. data'[desc[mac].area] = got + 1
      /\ \A a \in Pool : a # desc[mac].area => data'[a] = data[a]
  BY <1>3 DEF MacReceive, TypeOK
<1>5. \A k \in Ring : k = mac => Frame(k)' = got + 1
  BY <1>1, <1>3, <1>4 DEF MacReceive, Frame
<1>6. \A k \in Ring : k # mac => Frame(k)' = Frame(k)
  BY <1>0, <1>2, <1>4 DEF Frame, AreasApart, TypeOK
<1>7. \A k \in Ring : k # mac => (Waiting(k)' <=> Waiting(k))
  BY <1>1, <1>2 DEF Waiting
<1>8. \A k \in Ring : Waiting(k) => k # mac /\ Offset(k) < Offset(mac)
  BY <1>0, <1>1 DEF Waiting, RingInv
<1>9. \A k \in Ring : Frame(k) <= got /\ Frame(k) \in Nat /\ Offset(k) \in Int
  <2>1. \A k \in Ring : desc[k].area \in Pool /\ data[desc[k].area] \in Nat
    BY Constants DEF TypeOK
  <2>2. \A k \in Ring : Offset(k) \in Int
    BY <1>0, OldestInRing DEF Offset, Ring
  <2>3. QED
    BY <2>1, <2>2 DEF Frame, OrderInv
<1>10. \A k \in Ring : Offset(k)' = Offset(k)
  BY <1>1 DEF Offset, Oldest
<1>11. InHand' = InHand /\ (InHand => data'[held'] = data[held])
  <2>1. InHand => held \in Pool /\ held # desc[mac].area
    BY <1>0 DEF InHand, TypeOK, AreasApart
  <2>2. QED
    BY <1>1, <1>4, <2>1 DEF InHand
<1>12. InHand => data[held] \in Nat /\ data[held] <= got
  BY Constants DEF InHand, TypeOK, OrderInv
<1>13. \A i \in DOMAIN out : out[i] \in Nat
  BY Constants DEF TypeOK
<1>14. ASSUME NEW k \in Ring, NEW l \in Ring, Waiting(k)', Waiting(l)', Offset(k)' < Offset(l)'
       PROVE  Frame(k)' < Frame(l)'
  <2>1. CASE k = mac
    <3>1. l # mac
      BY <1>9, <1>10, <1>14, <2>1
    <3>2. Offset(l) < Offset(mac)
      BY <1>7, <1>8, <1>14, <3>1
    <3>3. QED
      BY <1>0, <1>9, <1>10, <1>14, <2>1, <3>2
  <2>2. CASE k # mac /\ l = mac
    BY <1>0, <1>5, <1>6, <1>9, <2>2
  <2>3. CASE k # mac /\ l # mac
    BY <1>6, <1>7, <1>10, <1>14, <2>3 DEF OrderInv
  <2>4. QED
    BY <2>1, <2>2, <2>3
<1>15. ASSUME NEW k \in Ring, Waiting(k)', InHand' PROVE data'[held'] < Frame(k)'
  <2>1. CASE k = mac
    BY <1>0, <1>5, <1>11, <1>12, <1>15, <2>1
  <2>2. CASE k # mac
    BY <1>6, <1>7, <1>11, <1>15, <2>2 DEF OrderInv
  <2>3. QED
    BY <2>1, <2>2
<1>16. ASSUME NEW i \in DOMAIN out, NEW k \in Ring, Waiting(k)' PROVE out[i] < Frame(k)'
  <2>1. CASE k = mac
    BY <1>0, <1>5, <1>13, <2>1 DEF OrderInv
  <2>2. CASE k # mac
    BY <1>6, <1>7, <1>16, <2>2 DEF OrderInv
  <2>3. QED
    BY <2>1, <2>2
<1>17. (\A i \in DOMAIN out :
          /\ out[i] <= got
          /\ InHand => out[i] < data[held]
          /\ \A k \in Ring : Waiting(k) => out[i] < Frame(k))'
  <2>1. \A i \in DOMAIN out : out[i] <= got + 1
    BY <1>0, <1>13 DEF OrderInv
  <2>2. InHand => \A i \in DOMAIN out : out[i] < data[held]
    BY DEF OrderInv
  <2>3. QED
    BY <1>1, <1>11, <1>16, <2>1, <2>2
<1>18. \A a \in Pool : data'[a] <= got'
  <2>1. \A a \in Pool : data[a] \in Nat /\ data[a] <= got
    BY Constants DEF TypeOK, OrderInv
  <2>2. QED
    BY <1>0, <1>1, <1>4, <2>1
<1>19. QED
  BY <1>14, <1>15, <1>17, <1>18 DEF OrderInv

\* Steps that leave the ring, its ends and the frame in hand alone leave OrderInv alone.
LEMMA OrderSame ==
  ASSUME OrderInv, UNCHANGED <<desc, data, got, out, held, cur>>,
         InHand' => InHand,
         tpc' = "release" <=> tpc = "release",
         tpc' = "advance" <=> tpc = "advance"
  PROVE  OrderInv'
<1>1. \A k \in Ring : Waiting(k)' <=> Waiting(k)
  BY DEF Waiting
<1>2. \A k \in Ring : Offset(k)' = Offset(k)
  BY DEF Offset, Oldest
<1>3. QED
  BY <1>1, <1>2, OrderKept

LEMMA OrderStep ==
  TypeOK /\ HeldInv /\ AreasApart /\ RingInv /\ OrderInv /\ [Next]_vars => OrderInv'
<1> SUFFICES ASSUME TypeOK, HeldInv, AreasApart, RingInv, OrderInv, [Next]_vars
             PROVE  OrderInv'
  OBVIOUS
<1>0. N \in Nat /\ N > 0 /\ cur \in Ring
  BY Constants DEF TypeOK
<1>1. CASE RxTake \/ RxNotReady \/ RxLook \/ RxPost \/ RxEnable
  <2>1. UNCHANGED <<desc, data, got, out, held, cur>>
    BY <1>1 DEF RxTake, RxNotReady, RxLook, RxPost, RxEnable, macVars
  <2>2. tpc # "release" /\ tpc' # "release" /\ tpc # "advance" /\ tpc' # "advance" /\ tpc # "free"
    BY <1>1 DEF RxTake, RxNotReady, RxLook, RxPost, RxEnable, Forward
  <2>3. QED
    BY <2>1, <2>2, OrderSame DEF InHand
<1>2. CASE RxDiscard
  BY <1>2, OrderTaken DEF RxDiscard, HeldInv, macVars
<1>3. CASE RxExchange
  <2>1. \A k \in Ring : desc'[k].own = desc[k].own /\ (k # cur => desc'[k].area = desc[k].area)
    BY <1>3 DEF RxExchange, TypeOK
  <2>2. QED
    BY <1>3, <2>1, OrderTaken DEF RxExchange, macVars
<1>4. CASE RxRelease
  <2>1. UNCHANGED <<data, got, out, held, cur>> /\ tpc = "release" /\ tpc' = "advance"
    BY <1>4 DEF RxRelease, macVars
  <2>2. \A k \in Ring : desc'[k].area = desc[k].area /\ (k # cur => desc'[k].own = desc[k].own)
    BY <1>4 DEF RxRelease, TypeOK
  <2>3. ~desc'[cur].own
    BY <1>4 DEF RxRelease, TypeOK
  <2>4. \A k \in Ring : Waiting(k)' => k # cur /\ Waiting(k) /\ desc'[k].area = desc[k].area
    BY <2>1, <2>2, <2>3 DEF Waiting
  <2>5. \A k, l \in Ring :
          k # cur /\ l # cur /\ Offset(k)' < Offset(l)' => Offset(k) < Offset(l)
    BY <1>0, <2>1 DEF Offset, Oldest, Ring, Succ
  <2>6. InHand' => InHand /\ held' = held
    BY <2>1 DEF InHand
  <2>7. QED
    BY <2>1, <2>4, <2>5, <2>6, OrderKept
<1>5. CASE RxAdvance
  <2>1. UNCHANGED <<desc, data, got, out, held>> /\ Oldest' = Oldest
        /\ tpc = "advance" /\ tpc' = "look"
    BY <1>5 DEF RxAdvance, Oldest, macVars
  <2>2. \A k \in Ring : (Waiting(k)' => Waiting(k)) /\ Offset(k)' = Offset(k)
    BY <2>1 DEF Waiting, Offset
  <2>3. InHand' => InHand /\ held' = held
    BY <2>1 DEF InHand
  <2>4. QED
    BY <2>1, <2>2, <2>3, OrderKept
<1>6. CASE RxOutput
  <2>1. UNCHANGED <<desc, data, got, held, cur>> /\ tpc = "output" /\ tpc' = "free"
    BY <1>6 DEF RxOutput, macVars
  <2>2. ~InHand' /\ InHand /\ held \in Pool
    BY <2>1 DEF InHand, HeldInv, TypeOK
  <2>3. \A k \in Ring : (Waiting(k)' <=> Waiting(k)) /\ Frame(k)' = Frame(k)
    BY <2>1 DEF Waiting, Frame
  <2>4. \A k \in Ring : Offset(k)' = Offset(k)
    BY <2>1 DEF Offset, Oldest
  <2>5. \A i \in DOMAIN out' :
          \/ i \in DOMAIN out /\ out'[i] = out[i]
          \/ out'[i] = data[held]
    <3>1. out \in Seq(0 .. MaxFrames) /\ (out' = out \/ out' = Append(out, data[held]))
      BY <1>6 DEF RxOutput, TypeOK
    <3>2. QED
      BY <3>1
  <2>6. \A i \in DOMAIN out' :
          out'[i] <= got /\ \A k \in Ring : Waiting(k) => out'[i] < Frame(k)
    BY <2>2, <2>5 DEF OrderInv
  <2>7. (\A i \in DOMAIN out :
           /\ out[i] <= got
           /\ InHand => out[i] < data[held]
           /\ \A k \in Ring : Waiting(k) => out[i] < Frame(k))'
    BY <2>1, <2>2, <2>3, <2>6
  <2>8. QED
    BY <2>1, <2>2, <2>3, <2>4, <2>7 DEF OrderInv
<1>7. CASE RxFree
  BY <1>7, OrderKept DEF RxFree, InHand, Waiting, Offset, Oldest, macVars
<1>8. CASE IsrStep
  BY <1>8, OrderSame DEF IsrStep, IsrEnter, IsrPost, IsrDisable, IsrClear, InHand, taskVars, macVars
<1>9. CASE MacReceive
  BY <1>9, OrderReceived
<1>10. CASE MacTransmitted
  BY <1>10, OrderSame DEF MacTransmitted, InHand, taskVars, macVars
<1>11. CASE UNCHANGED vars
  BY <1>11, OrderSame DEF vars, InHand, taskVars, macVars
<1>12. QED
  BY <1>1, <1>2, <1>3, <1>4, <1>5, <1>6, <1>7, <1>8, <1>9, <1>10, <1>11
     DEF Next, TaskStep, NetDev_Rx, RxDescPtrCurInc

LEMMA OutStep == TypeOK /\ HeldInv /\ OrderInv /\ OutInOrder /\ [Next]_vars => OutInOrder'
<1> SUFFICES ASSUME TypeOK, HeldInv, OrderInv, OutInOrder, [Next]_vars PROVE OutInOrder'
  OBVIOUS
<1>1. CASE RxOutput
  <2>1. out \in Seq(0 .. MaxFrames) /\ (out' = out \/ out' = Append(out, data[held]))
    BY <1>1 DEF RxOutput, TypeOK
  <2>2. \A i \in DOMAIN out : out[i] < data[held]
    BY <1>1 DEF RxOutput, HeldInv, InHand, OrderInv
  <2>3. CASE out' = Append(out, data[held])
    <3>1. \A i \in DOMAIN out : out'[i] = out[i]
      BY <2>1, <2>3
    <3>2. DOMAIN out' = 1 .. Len(out) + 1 /\ DOMAIN out = 1 .. Len(out) /\ Len(out) \in Nat
      BY <2>1, <2>3
    <3>3. out'[Len(out) + 1] = data[held]
      BY <2>1, <2>3
    <3>4. \A i \in DOMAIN out' : i \in DOMAIN out \/ i = Len(out) + 1
      BY <3>2
    <3>5. \A i, j \in DOMAIN out' : i < j => i \in DOMAIN out
      BY <3>2
    <3>6. QED
      BY <2>2, <3>1, <3>3, <3>4, <3>5 DEF OutInOrder
  <2>4. QED
    BY <2>1, <2>3 DEF OutInOrder
<1>2. CASE ~RxOutput
  <2>1. out' = out
    BY <1>2 DEF Next, TaskStep, NetDev_Rx, RxDescPtrCurInc, IsrStep, RxTake, RxNotReady, RxDiscard,
                RxExchange, RxRelease, RxAdvance, RxLook, RxPost, RxEnable, RxFree, IsrEnter,
                IsrPost, IsrDisable, IsrClear, MacReceive, MacTransmitted, vars, taskVars
  <2>2. QED
    BY <2>1 DEF OutInOrder
<1>3. QED
  BY <1>1, <1>2

-----------------------------------------------------------------------------
(* The inductive invariant, and what follows from it. *)

LEMMA InvInit == Init => IInv
<1> SUFFICES ASSUME Init PROVE IInv
  OBVIOUS
<1>1. TypeOK
  BY TypeInit
<1>2. HeldInv /\ IsrInv /\ RecordedInv /\ UnrecordedInv
  BY Constants DEF Init, HeldInv, IsrInv, RecordedInv, UnrecordedInv, Working, Ring
<1>3. AreasApart
  <2>1. \A k \in Ring : desc[k].area = k + 1
    BY DEF Init
  <2>2. \A k \in Ring : k + 1 # Null /\ k + 1 \notin N + 1 .. Areas
    BY Constants DEF Ring, Null
  <2>3. Null \notin N + 1 .. Areas
    BY Constants DEF Null
  <2>4. ASSUME NEW a \in Pool, a \notin free PROVE a \in {desc[k].area : k \in Ring}
    <3>1. a - 1 \in Ring /\ (a - 1) + 1 = a
      BY <2>4, Constants DEF Init, Pool, Ring
    <3>2. QED
      BY <2>1, <3>1
  <2>5. \A k, l \in Ring : desc[k].area = desc[l].area => k = l
    BY <2>1, Constants DEF Ring
  <2>6. QED
    BY <2>1, <2>2, <2>3, <2>4, <2>5 DEF AreasApart, Init
<1>4. RingInv
  <2>1. Offset(mac) = 0 /\ \A k \in Ring : Offset(k) >= 0
    BY Constants DEF Init, Offset, Oldest, Ring
  <2>2. \A k \in Ring : ~desc[k].own /\ ~(Offset(k) < Offset(mac))
    BY <2>1, Constants DEF Init, Offset, Oldest, Ring
  <2>3. QED
    BY <2>2 DEF RingInv
<1>5. OrderInv
  <2>1. out = <<>> /\ ~InHand /\ \A k \in Ring : ~Waiting(k)
    BY DEF Init, InHand, Waiting
  <2>2. \A a \in Pool : data[a] <= got
    BY DEF Init
  <2>3. QED
    BY <2>1, <2>2 DEF OrderInv
<1>6. OutInOrder
  BY DEF Init, OutInOrder
<1>7. QED
  BY <1>1, <1>2, <1>3, <1>4, <1>5, <1>6 DEF IInv

LEMMA InvStep == IInv /\ [Next]_vars => IInv'
BY TypeStep, HeldStep, AreasStep, RingStep, IsrStepInv, RecordedStep, UnrecordedStep, OrderStep,
   OutStep DEF IInv

THEOREM IInvInvariant == Spec => []IInv
<1>1. Init => IInv
  BY InvInit
<1>2. IInv /\ [Next]_vars => IInv'
  BY InvStep
<1>3. QED
  BY <1>1, <1>2, PTL DEF Spec

\* The driver's variables keep their types.
THEOREM TypeCorrect == Spec => []TypeOK
<1>1. IInv => TypeOK
  BY DEF IInv
<1>2. QED
  BY <1>1, IInvInvariant, PTL

\* Every data area is at one place.
THEOREM AreasStayApart == Spec => []AreasApart
<1>1. IInv => AreasApart
  BY DEF IInv
<1>2. QED
  BY <1>1, IInvInvariant, PTL

\* No frame is forwarded out of order, twice, or written over.
THEOREM ForwardsInOrder == Spec => []OutInOrder
<1>1. IInv => OutInOrder
  BY DEF IInv
<1>2. QED
  BY <1>1, IInvInvariant, PTL

\* No frame in the ring is forgotten.
THEOREM FramesStayKnown == Spec => []StillKnown
<1>1. IInv => StillKnown
  BY DEF IInv, TypeOK, RecordedInv, UnrecordedInv, Working, StillKnown, Resting
<1>2. QED
  BY <1>1, IInvInvariant, PTL
=============================================================================
