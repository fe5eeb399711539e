------------------------------- MODULE EtherRx -------------------------------
(***************************************************************************)
(* The Ethernet to Wi-Fi half of the bridge (the driver                    *)
(* net_dev_efm32_ether_bridge.c and bridge.c).  The MAC fills the data     *)
(* areas of a ring of receive descriptors and raises an interrupt; the     *)
(* handler wakes the network task with a post and switches the interrupt   *)
(* off; the task exchanges the data area of the descriptor RxBufDescPtrCur *)
(* for a free one, gives the descriptor back to the MAC and copies the     *)
(* frame to the queue of the Wi-Fi driver.  It wakes itself while the next *)
(* descriptor is full and switches the interrupt on when it is not.        *)
(*                                                                         *)
(* The handler is also entered for a transmitted frame, and acts on every  *)
(* event it reads in INTR_STATUS.  It runs to its end before the task goes *)
(* on; the MAC does not stop for it.                                       *)
(***************************************************************************)
EXTENDS Naturals, Sequences, FiniteSets

CONSTANTS
  N,          \* RxDescNbr
  Areas,      \* RxBufLargeNbr receive data areas
  QMax,       \* the length of the network task's queue
  Devices,    \* which devices are considered: see latches
  MaxFrames   \* bound on the frames from the Ethernet

ASSUME RxAssumption ==
  /\ N \in Nat \ {0}
  /\ Areas \in Nat /\ Areas >= N
  /\ QMax \in Nat \ {0}
  /\ Devices \subseteq BOOLEAN
  /\ MaxFrames \in Nat

Ring == 0 .. N - 1
Pool == 1 .. Areas
Null == 0
Events == {"rx", "tx"}

VARIABLES
  desc,     \* the ring: data area, and GEM_RXBUF_ADDR_OWN: the frame is the task's
  data,     \* the frame in each data area, 0 before the first
  free,     \* the data areas in the pool
  cur,      \* RxBufDescPtrCur
  tpc,      \* where the network task is
  held,     \* the data area NetDev_Rx forwards
  rxq,      \* the posts in the network task's queue
  isr,      \* where the handler is
  seen,     \* reg_val: the events it read
  status,   \* INTR_STATUS
  rx_en,    \* whether the receive interrupt is enabled
  mac,      \* the descriptor the MAC fills next
  got,      \* number of frames received
  latches,  \* whether INTR_STATUS records an event whose interrupt is disabled
  out       \* history: the frames in the queue of the Wi-Fi driver

taskVars == <<cur, tpc, held, free, out>>
isrVars == <<isr, seen>>
macVars == <<mac, got, data, latches>>
vars == <<desc, rxq, status, rx_en, taskVars, isrVars, macVars>>

TaskPcs == {"idle", "rx", "release", "advance", "look", "post", "enable", "output", "free"}

TypeOK ==
  /\ desc \in [Ring -> [area : Pool, own : BOOLEAN]]
  /\ data \in [Pool -> 0 .. MaxFrames]
  /\ free \subseteq Pool
  /\ cur \in Ring /\ mac \in Ring
  /\ tpc \in TaskPcs
  /\ held \in Pool \cup {Null}
  /\ rxq \in 0 .. QMax
  /\ isr \in {"off", "post", "disable", "clear"}
  /\ seen \subseteq Events /\ status \subseteq Events
  /\ rx_en \in BOOLEAN /\ latches \in BOOLEAN
  /\ got \in 0 .. MaxFrames
  /\ out \in Seq(0 .. MaxFrames)

\* After NetDev_Start.
Init ==
  /\ desc = [k \in Ring |-> [area |-> k + 1, own |-> FALSE]]
  /\ data = [a \in Pool |-> 0]
  /\ free = N + 1 .. Areas
  /\ cur = 0 /\ mac = 0
  /\ tpc = "idle" /\ held = Null
  /\ rxq = 0
  /\ isr = "off" /\ seen = {}
  /\ status = {} /\ rx_en = TRUE
  /\ got = 0 /\ out = <<>>
  /\ latches \in Devices

Succ(k) == IF k # N - 1 THEN k + 1 ELSE 0

\* Mutant: the queue has no end.
RxQPostAlways == rxq' = rxq + 1

\* NetIF_RxQPost, whose error nobody looks at: a post to the full queue is lost.
RxQPost == rxq' = IF rxq < QMax THEN rxq + 1 ELSE rxq

-----------------------------------------------------------------------------
(* The network task. *)

RxTake ==
  /\ tpc = "idle" /\ rxq > 0
  /\ rxq' = rxq - 1
  /\ tpc' = "rx"
  /\ UNCHANGED <<desc, status, rx_en, cur, held, free, out, isrVars, macVars>>

\* NetDev_Rx finds the descriptor empty and returns an error.
RxNotReady ==
  /\ tpc = "rx" /\ ~desc[cur].own
  /\ tpc' = "idle"
  /\ UNCHANGED <<desc, rxq, status, rx_en, cur, held, free, out, isrVars, macVars>>

\* A runt, or no data area to be had: the frame is dropped and its area used again.
RxDiscard ==
  /\ tpc = "rx" /\ desc[cur].own
  /\ tpc' = "release"
  /\ UNCHANGED <<desc, rxq, status, rx_en, cur, held, free, out, isrVars, macVars>>

\* Mutant: the new data area is taken from the pool behind its back.
RxExchangeKeep ==
  /\ tpc = "rx" /\ desc[cur].own
  /\ \E a \in free : desc' = [desc EXCEPT ![cur].area = a]
  /\ held' = desc[cur].area
  /\ tpc' = "release"
  /\ UNCHANGED <<rxq, status, rx_en, cur, free, out, isrVars, macVars>>

\* Mutant: the frame is forwarded from the descriptor's own data area.
RxExchangeNone ==
  /\ tpc = "rx" /\ desc[cur].own /\ free # {}
  /\ held' = desc[cur].area
  /\ tpc' = "release"
  /\ UNCHANGED <<desc, free, rxq, status, rx_en, cur, out, isrVars, macVars>>

\* The frame's data area is exchanged for a free one.
RxExchange ==
  /\ tpc = "rx" /\ desc[cur].own
  /\ \E a \in free :
       /\ desc' = [desc EXCEPT ![cur].area = a]
       /\ free' = free \ {a}
  /\ held' = desc[cur].area
  /\ tpc' = "release"
  /\ UNCHANGED <<rxq, status, rx_en, cur, out, isrVars, macVars>>

\* NetDev_RxDescPtrCurInc, in four steps: the descriptor is given to the MAC...
RxRelease ==
  /\ tpc = "release"
  /\ desc' = [desc EXCEPT ![cur].own = FALSE]
  /\ tpc' = "advance"
  /\ UNCHANGED <<rxq, status, rx_en, cur, held, free, out, isrVars, macVars>>

\* ... the next one is the current one...
RxAdvance ==
  /\ tpc = "advance"
  /\ cur' = Succ(cur)
  /\ tpc' = "look"
  /\ UNCHANGED <<desc, rxq, status, rx_en, held, free, out, isrVars, macVars>>

\* ... it is full or not...
RxLook ==
  /\ tpc = "look"
  /\ tpc' = IF desc[cur].own THEN "post" ELSE "enable"
  /\ UNCHANGED <<desc, rxq, status, rx_en, cur, held, free, out, isrVars, macVars>>

Forward == IF held = Null THEN "idle" ELSE "output"

\* ... and the task wakes itself...
RxPost ==
  /\ tpc = "post"
  /\ RxQPost
  /\ tpc' = Forward
  /\ UNCHANGED <<desc, status, rx_en, cur, held, free, out, isrVars, macVars>>

\* ... or waits for the interrupt.
RxEnable ==
  /\ tpc = "enable"
  /\ rx_en' = TRUE
  /\ tpc' = Forward
  /\ UNCHANGED <<desc, rxq, status, cur, held, free, out, isrVars, macVars>>

\* low_level_output_ethernet: the frame is copied to the end of the Wi-Fi driver's
\* queue, or dropped when the Wi-Fi has not started or has no buffer.
RxOutput ==
  /\ tpc = "output"
  /\ out' \in {out, Append(out, data[held])}
  /\ tpc' = "free"
  /\ UNCHANGED <<desc, rxq, status, rx_en, cur, held, free, isrVars, macVars>>

RxFree ==
  /\ tpc = "free"
  /\ free' = free \cup {held}
  /\ held' = Null
  /\ tpc' = "idle"
  /\ UNCHANGED <<desc, rxq, status, rx_en, cur, out, isrVars, macVars>>

-----------------------------------------------------------------------------
(* NetDev_ISR_Handler. *)

IrqPending == "tx" \in status \/ ("rx" \in status /\ rx_en)

\* Mutant: the handler heeds the enabled events only.
IsrEnterMasked ==
  /\ isr = "off" /\ IrqPending
  /\ seen' = IF rx_en THEN status ELSE status \ {"rx"}
  /\ isr' = IF "rx" \in status /\ rx_en THEN "post" ELSE "clear"
  /\ UNCHANGED <<desc, rxq, status, rx_en, taskVars, macVars>>

IsrEnter ==
  /\ isr = "off" /\ IrqPending
  /\ seen' = status
  /\ isr' = IF "rx" \in status THEN "post" ELSE "clear"
  /\ UNCHANGED <<desc, rxq, status, rx_en, taskVars, macVars>>

IsrPost ==
  /\ isr = "post"
  /\ RxQPost
  /\ isr' = "disable"
  /\ UNCHANGED <<desc, status, rx_en, seen, taskVars, macVars>>

IsrDisable ==
  /\ isr = "disable"
  /\ rx_en' = FALSE
  /\ isr' = "clear"
  /\ UNCHANGED <<desc, rxq, status, seen, taskVars, macVars>>

\* Mutant: every event is cleared, read or not.
IsrClearAll ==
  /\ isr = "clear"
  /\ status' = {}
  /\ isr' = "off" /\ seen' = {}
  /\ UNCHANGED <<desc, rxq, rx_en, taskVars, macVars>>

\* The events that were read are cleared, and frames that came since with them.
IsrClear ==
  /\ isr = "clear"
  /\ status' = status \ seen
  /\ isr' = "off" /\ seen' = {}
  /\ UNCHANGED <<desc, rxq, rx_en, taskVars, macVars>>

-----------------------------------------------------------------------------
(* The MAC.  A frame for which the next descriptor is not free is lost. *)

MacReceive ==
  /\ got < MaxFrames /\ ~desc[mac].own
  /\ got' = got + 1
  /\ data' = [data EXCEPT ![desc[mac].area] = got + 1]
  /\ desc' = [desc EXCEPT ![mac].own = TRUE]
  /\ mac' = Succ(mac)
  /\ status' = IF latches \/ rx_en THEN status \cup {"rx"} ELSE status
  /\ UNCHANGED <<rxq, rx_en, latches, taskVars, isrVars>>

\* A frame for the Ethernet has been sent: the other half of the bridge.
MacTransmitted ==
  /\ "tx" \notin status
  /\ status' = status \cup {"tx"}
  /\ UNCHANGED <<desc, rxq, rx_en, taskVars, isrVars, macVars>>

-----------------------------------------------------------------------------
NetDev_Rx == RxNotReady \/ RxDiscard \/ RxExchange
RxDescPtrCurInc == RxRelease \/ RxAdvance \/ RxLook \/ RxPost \/ RxEnable

TaskStep ==
  /\ isr = "off"
  /\ RxTake \/ NetDev_Rx \/ RxDescPtrCurInc \/ RxOutput \/ RxFree

IsrStep == IsrEnter \/ IsrPost \/ IsrDisable \/ IsrClear

Next == TaskStep \/ IsrStep \/ MacReceive \/ MacTransmitted

Spec == Init /\ [][Next]_vars

\* The handler runs when it can.  The task, too: the frames whose interrupts delay it
\* take far longer on the wire than the handler.
FairSpec == Spec /\ SF_vars(TaskStep) /\ WF_vars(IsrStep)

-----------------------------------------------------------------------------
(* Properties. *)

\* Frames reach the Wi-Fi driver in the order of their arrival, none twice and none
\* written over while it is forwarded (1063-1071: the descriptor is the MAC's again
\* before the frame is copied).
OutInOrder == \A i, j \in DOMAIN out : i < j => out[i] < out[j]

\* Every data area is at one place: in one descriptor, with the task or in the pool
\* (1042-1072), whichever way NetDev_Rx returns.
AreasApart ==
  /\ \A k, l \in Ring : desc[k].area = desc[l].area => k = l
  /\ \A k \in Ring : desc[k].area # held /\ desc[k].area \notin free
  /\ held \notin free
  /\ Pool \subseteq {desc[k].area : k \in Ring} \cup free \cup {held}

\* A frame in the ring is not forgotten: when the task rests and nothing will wake it,
\* INTR_STATUS still knows of the frame; or, on the device that does not record an
\* event whose interrupt is disabled, the next frame interrupts (1361-1366 and 1401
\* against 1810-1814).
Resting == tpc = "idle" /\ isr = "off" /\ rxq = 0
StillKnown ==
  Resting /\ desc[cur].own => IF latches THEN "rx" \in status ELSE rx_en

(* The inductive invariant behind the three safety properties. *)

\* A frame is with the task between the exchange and the return of its data area.
HeldInv ==
  /\ tpc \in {"idle", "rx"} => held = Null
  /\ tpc \in {"output", "free"} => held # Null
  /\ tpc \in {"release", "post"} => desc[cur].own

\* The full descriptors are those from the oldest one to where the MAC is.
Oldest == IF tpc = "advance" THEN Succ(cur) ELSE cur
Offset(k) == IF k >= Oldest THEN k - Oldest ELSE k - Oldest + N
RingInv ==
  \/ mac = Oldest /\ (\A k \in Ring : desc[k].own)
  \/ \A k \in Ring : desc[k].own <=> Offset(k) < Offset(mac)

\* What the handler has read, and posted.
IsrInv ==
  /\ isr # "off" => seen \subseteq status
  /\ isr \in {"post", "disable"} => "rx" \in seen
  /\ isr \in {"disable", "clear"} /\ "rx" \in seen => rxq > 0

\* The device that records every event.
RecordedInv ==
  latches /\ desc[cur].own =>
    rxq > 0 \/ tpc \in {"rx", "release", "advance", "look", "post"} \/ "rx" \in status

\* The device that does not: the task works with the interrupt switched off, and
\* there is at most one post.
Working == tpc \in {"rx", "release", "advance", "look", "post", "enable"}
UnrecordedInv ==
  ~latches =>
    /\ Working => rxq = 0 /\ ~rx_en
    /\ tpc = "rx" => desc[cur].own
    /\ rxq > 0 => rxq = 1 /\ desc[cur].own /\ (rx_en => isr = "disable")
    /\ isr \in {"post", "disable"} => rx_en
    /\ ~rx_en => rxq > 0 \/ Working
    /\ "rx" \in status => IF rx_en THEN desc[cur].own ELSE isr = "clear" /\ "rx" \in seen

\* The frames on their way are in order, from the Wi-Fi driver's queue back to the MAC.
Waiting(k) == desc[k].own /\ ~(tpc = "release" /\ k = cur)
InHand == held # Null /\ tpc # "free"
Frame(k) == data[desc[k].area]
OrderInv ==
  /\ \A k, l \in Ring :
       Waiting(k) /\ Waiting(l) /\ Offset(k) < Offset(l) => Frame(k) < Frame(l)
  /\ \A k \in Ring : Waiting(k) /\ InHand => data[held] < Frame(k)
  /\ \A i \in DOMAIN out :
       /\ out[i] <= got
       /\ InHand => out[i] < data[held]
       /\ \A k \in Ring : Waiting(k) => out[i] < Frame(k)
  /\ \A a \in Pool : data[a] <= got

IInv ==
  /\ TypeOK /\ HeldInv /\ AreasApart /\ RingInv /\ IsrInv
  /\ RecordedInv /\ UnrecordedInv
  /\ OrderInv /\ OutInOrder

\* While frames go the other way, too, every full descriptor is emptied: their
\* interrupts find what the receive interrupt has missed.
RingEmpties ==
  latches /\ []<><<MacTransmitted>>_vars =>
    \A k \in Ring : desc[k].own ~> ~desc[k].own
=============================================================================
