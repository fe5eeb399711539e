------------------------------- MODULE EtherTx -------------------------------
(***************************************************************************)
(* The Wi-Fi to Ethernet half of the bridge (bridge.c and the driver       *)
(* net_dev_efm32_ether_bridge.c): a ring of transmit descriptors that      *)
(* three parties share without a lock.  The Wi-Fi bus task writes a frame  *)
(* into the descriptor TxBufDescPtrCur and waits at most 15 ms for the     *)
(* "transmitter ready" semaphore; the MAC sends the frames and marks their *)
(* descriptors as used; its interrupt posts the sent frames' data areas    *)
(* for deallocation, from TxBufDescCompPtr on, and signals the semaphore.  *)
(*                                                                         *)
(* The handler runs to its end before the task goes on, but the MAC does   *)
(* not stop for it.  Low power idle is off (EnableLPI, the default).       *)
(***************************************************************************)
EXTENDS Naturals, Sequences, FiniteSets

CONSTANTS
  N,          \* TxDescNbr
  MaxFrames   \* bound on the frames received on the SoftAP

ASSUME TxAssumption ==
  /\ N \in Nat \ {0}
  /\ MaxFrames \in Nat

\* The descriptors, and the data areas: frame f is in data area f, 0 is NULL.
Ring == 0 .. N - 1
Frames == 1 .. MaxFrames
Null == 0

VARIABLES
  desc,     \* the ring: data area and GEM_TXBUF_USED of each descriptor
  cur,      \* TxBufDescPtrCur
  comp,     \* TxBufDescCompPtr
  tx_ready, \* count of DevTxRdySignalObj
  tpc,      \* where the bus task is in NetDev_Tx or in the wait behind it
  frame,    \* the frame it forwards, or forwarded last
  isr,      \* where the handler is
  irq,      \* INTR_STATUS: transmit complete
  tx_on,    \* whether the MAC goes through the ring
  mac,      \* the descriptor it looks at next
  sent,     \* history: the data areas the MAC has sent
  posted    \* history: the data areas posted for deallocation

taskVars == <<cur, tpc, frame>>
isrVars == <<comp, isr, posted>>
macVars == <<tx_on, mac, sent>>
vars == <<desc, tx_ready, irq, taskVars, isrVars, macVars>>

TaskPcs == {"idle", "address", "status", "advance", "start", "pend"}

TypeOK ==
  /\ desc \in [Ring -> [addr : Frames \cup {Null}, used : BOOLEAN]]
  /\ cur \in Ring /\ comp \in Ring /\ mac \in Ring
  /\ tx_ready \in Nat
  /\ tpc \in TaskPcs
  /\ frame \in 0 .. MaxFrames
  /\ isr \in {"off", "loop", "clear"}
  /\ irq \in BOOLEAN /\ tx_on \in BOOLEAN
  /\ sent \in Seq(Frames \cup {Null})
  /\ posted \in Seq(Frames)

Init ==
  /\ desc = [k \in Ring |-> [addr |-> Null, used |-> TRUE]]
  /\ cur = 0 /\ comp = 0 /\ mac = 0
  /\ tx_ready = N
  /\ tpc = "idle"
  /\ frame = 0
  /\ isr = "off"
  /\ irq = FALSE /\ tx_on = FALSE
  /\ sent = <<>> /\ posted = <<>>

\* Mutant: the end of the ring is missed.
SuccTooFar(k) == IF k <= N - 1 THEN k + 1 ELSE 0

\* The descriptor behind k.
Succ(k) == IF k # N - 1 THEN k + 1 ELSE 0

-----------------------------------------------------------------------------
(* The bus task. *)

\* Mutant: a descriptor is written whether the MAC is done with it or not.
TxEnterBlind ==
  /\ tpc = "idle" /\ frame < MaxFrames
  /\ frame' = frame + 1
  /\ tpc' = "address"
  /\ UNCHANGED <<desc, cur, tx_ready, irq, isrVars, macVars>>

\* A frame for the Ethernet: NetDev_Tx looks at the next descriptor.  When the ring
\* is full it returns an error, and the callback waits for the transmitter anyway.
TxEnter ==
  /\ tpc = "idle" /\ frame < MaxFrames
  /\ frame' = frame + 1
  /\ tpc' = IF desc[cur].used THEN "address" ELSE "pend"
  /\ UNCHANGED <<desc, cur, tx_ready, irq, isrVars, macVars>>

TxAddress ==
  /\ tpc = "address"
  /\ desc' = [desc EXCEPT ![cur].addr = frame]
  /\ tpc' = "status"
  /\ UNCHANGED <<cur, frame, tx_ready, irq, isrVars, macVars>>

\* The length of the frame, and USED cleared: the descriptor is the MAC's.
TxStatus ==
  /\ tpc = "status"
  /\ desc' = [desc EXCEPT ![cur].used = FALSE]
  /\ tpc' = "advance"
  /\ UNCHANGED <<cur, frame, tx_ready, irq, isrVars, macVars>>

TxAdvance ==
  /\ tpc = "advance"
  /\ cur' = Succ(cur)
  /\ tpc' = "start"
  /\ UNCHANGED <<desc, frame, tx_ready, irq, isrVars, macVars>>

\* Mutant: the transmitter is started only for the first frame of the ring.
TxStartIfIdle ==
  /\ tpc = "start"
  /\ tx_on' = (tx_on \/ Succ(comp) = cur)
  /\ tpc' = "pend"
  /\ UNCHANGED <<desc, cur, frame, tx_ready, irq, isrVars, mac, sent>>

TxStart ==
  /\ tpc = "start"
  /\ tx_on' = TRUE
  /\ tpc' = "pend"
  /\ UNCHANGED <<desc, cur, frame, tx_ready, irq, isrVars, mac, sent>>

\* wait_net_dev_tx_ready: a token, or the timeout.  The callback returns.
PendTake ==
  /\ tpc = "pend" /\ tx_ready > 0
  /\ tx_ready' = tx_ready - 1
  /\ tpc' = "idle"
  /\ UNCHANGED <<desc, cur, frame, irq, isrVars, macVars>>

PendTimeout ==
  /\ tpc = "pend" /\ tx_ready = 0
  /\ tpc' = "idle"
  /\ UNCHANGED <<desc, cur, frame, tx_ready, irq, isrVars, macVars>>

-----------------------------------------------------------------------------
(* The interrupt handler. *)

IsrEnter ==
  /\ isr = "off" /\ irq
  /\ isr' = "loop"
  /\ UNCHANGED <<desc, tx_ready, irq, taskVars, comp, posted, macVars>>

Reclaimable == desc[comp].addr # Null /\ desc[comp].used

\* Mutant: the data area is left in the descriptor.
IsrReclaimKeep ==
  /\ isr = "loop" /\ Reclaimable
  /\ posted' = Append(posted, desc[comp].addr)
  /\ tx_ready' = tx_ready + 1
  /\ comp' = Succ(comp)
  /\ UNCHANGED <<desc, irq, taskVars, isr, macVars>>

\* One turn of the loop.
IsrReclaim ==
  /\ isr = "loop" /\ Reclaimable
  /\ posted' = Append(posted, desc[comp].addr)
  /\ tx_ready' = tx_ready + 1
  /\ comp' = Succ(comp)
  /\ desc' = [desc EXCEPT ![comp].addr = Null]
  /\ UNCHANGED <<irq, taskVars, isr, macVars>>

\* Mutant: the transmitter is signalled once more for the interrupt itself.
IsrLoopEndSignal ==
  /\ isr = "loop" /\ ~Reclaimable
  /\ isr' = "clear"
  /\ tx_ready' = tx_ready + 1
  /\ UNCHANGED <<desc, irq, taskVars, comp, posted, macVars>>

IsrLoopEnd ==
  /\ isr = "loop" /\ ~Reclaimable
  /\ isr' = "clear"
  /\ UNCHANGED <<desc, tx_ready, irq, taskVars, comp, posted, macVars>>

\* The flag is cleared, a completion since the loop's last look with it.
IsrClear ==
  /\ isr = "clear"
  /\ irq' = FALSE
  /\ isr' = "off"
  /\ UNCHANGED <<desc, tx_ready, taskVars, comp, posted, macVars>>

-----------------------------------------------------------------------------
(* The MAC.  Nobody else touches a descriptor whose USED is clear. *)

MacSend ==
  /\ tx_on /\ ~desc[mac].used
  /\ sent' = Append(sent, desc[mac].addr)
  /\ desc' = [desc EXCEPT ![mac].used = TRUE]
  /\ mac' = Succ(mac)
  /\ irq' = TRUE
  /\ UNCHANGED <<tx_ready, taskVars, isrVars, tx_on>>

MacHalt ==
  /\ tx_on /\ desc[mac].used
  /\ tx_on' = FALSE
  /\ UNCHANGED <<desc, tx_ready, irq, taskVars, isrVars, mac, sent>>

-----------------------------------------------------------------------------
TaskStep ==
  /\ isr = "off"
  /\ TxAddress \/ TxStatus \/ TxAdvance \/ TxStart \/ PendTake \/ PendTimeout

IsrStep == IsrEnter \/ IsrReclaim \/ IsrLoopEnd \/ IsrClear

MacStep == MacSend \/ MacHalt

Next == (isr = "off" /\ TxEnter) \/ TaskStep \/ IsrStep \/ MacStep

Spec == Init /\ [][Next]_vars

\* The task and the handler run when they can, the MAC works by itself.  Frames
\* come when they like.
FairSpec ==
  /\ Spec
  /\ WF_vars(TaskStep)
  /\ WF_vars(IsrStep)
  /\ WF_vars(MacStep)

-----------------------------------------------------------------------------
(* Properties. *)

\* The MAC sends the frames in the order of their arrival and none twice, although
\* it stops and starts while the task writes (1130-1156).  A data area that was posted
\* between the two stores of NetDev_Tx is sent as address 0, which has no number.
SentInOrder ==
  \A i, j \in DOMAIN sent :
    i < j /\ sent[i] # Null /\ sent[j] # Null => sent[i] < sent[j]

\* No data area is posted for deallocation twice, although a descriptor is written
\* again while the handler goes through the ring (1136-1152 against 1374-1386).
PostedOnce == \A i, j \in DOMAIN posted : posted[i] = posted[j] => i = j

\* The semaphore never promises more than the ring holds: the tokens and the
\* descriptors whose data area is still to be posted are at most N together,
\* although timeouts and refused frames unbalance them (lines 770, 1134, 1378).
Held == {k \in Ring : desc[k].addr # Null}
ReadyIsRoom == tpc = "idle" => tx_ready + Cardinality(Held) <= N

\* The inductive invariant behind both: a frame that has been written and whose token
\* has not been taken yet counts for one more, and the data areas in the ring are
\* those of different frames, none of them posted.
Latest == IF tpc = "address" THEN frame - 1 ELSE frame
RoomInv ==
  tx_ready + Cardinality(Held) <= (IF tpc \in {"idle", "address"} THEN N ELSE N + 1)
HeldInv ==
  \A k \in Held :
    /\ \A l \in Held : desc[k].addr = desc[l].addr => k = l
    /\ \A i \in DOMAIN posted : posted[i] # desc[k].addr
    /\ desc[k].addr <= Latest
PostedInv == PostedOnce /\ \A i \in DOMAIN posted : posted[i] <= Latest

IInv == TypeOK /\ RoomInv /\ HeldInv /\ PostedInv

\* The inductive invariant behind SentInOrder: the descriptors of the MAC are those from
\* the one it looks at next to the last one written, their frames are in order, newer
\* than those sent and older than the one being written.
NextFree == IF tpc = "advance" THEN Succ(cur) ELSE cur
Offset(k) == IF k >= mac THEN k - mac ELSE k - mac + N
GivenInv ==
  \/ mac = NextFree /\ (\A k \in Ring : ~desc[k].used)
  \/ \A k \in Ring : ~desc[k].used <=> Offset(k) < Offset(NextFree)

Writing == tpc \in {"address", "status"}
WritingInv ==
  /\ Writing => desc[cur].used
  /\ tpc = "status" => desc[cur].addr \in {Null, frame}

Given(k) == ~desc[k].used /\ desc[k].addr # Null
Newest == IF Writing THEN frame - 1 ELSE frame
OrderInv ==
  /\ \A k, l \in Ring :
       Given(k) /\ Given(l) /\ Offset(k) < Offset(l) => desc[k].addr < desc[l].addr
  /\ \A k \in Ring : Given(k) => desc[k].addr <= Newest
  /\ \A i \in DOMAIN sent : sent[i] # Null =>
       sent[i] <= Newest /\ \A k \in Ring : Given(k) => sent[i] < desc[k].addr

OrderedInv == TypeOK /\ GivenInv /\ WritingInv /\ OrderInv /\ SentInOrder

\* A descriptor given to the MAC comes back: the start of line 1156 is never lost
\* to a MAC that stops at the end of its work at the same time.
FramesLeave == \A k \in Ring : ~desc[k].used ~> desc[k].used
=============================================================================
