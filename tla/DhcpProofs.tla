----------------------------- MODULE DhcpProofs -----------------------------
(***************************************************************************)
(* The theorems about DHCP, in four parts.                                 *)
(*                                                                         *)
(* DhcpServer for every pool and every set of clients: the table lists a   *)
(* MAC once whatever the bus task does during a walk, an answer never      *)
(* carries another client's slot, the table is a lease table, it has room  *)
(* for as many clients as it has slots, and the ARP entry of a listed      *)
(* client is not another client's.                                         *)
(*                                                                         *)
(* DhcpSwitch for every mailbox and queue: what the flag of the server     *)
(* says as long as no two stores of it have overlapped.                    *)
(*                                                                         *)
(* DhcpClient for every number of tries and of queued indications: the     *)
(* state never contradicts the engine, and a client that has given up      *)
(* holds no lease.                                                         *)
(***************************************************************************)
EXTENDS DhcpServer, DhcpSwitch, DhcpClient, FiniteSetTheorems, TLAPS

\* The server starts in the states the invariant describes.
LEMMA InitIInv == Init => IInv
<1> SUFFICES ASSUME Init PROVE IInv
  OBVIOUS
<1>1. TypeOK
  BY DEF Init, TypeOK, NoMacs
<1>2. th.pc = "idle"
  BY DEF Init, Idle
<1>3. NoDuplicateMac /\ AnswersOwnSlot /\ WalkInv
  BY <1>2 DEF Init, NoDuplicateMac, AnswersOwnSlot, WalkInv, NoMacs
<1>4. QED
  BY <1>1, <1>3 DEF IInv

\* The handler is idle exactly when its program counter says so; otherwise it walks.
LEMMA IdlePc ==
  ASSUME TypeOK
  PROVE  /\ th = Idle <=> th.pc = "idle"
         /\ th # Idle => th \in Walks /\ th.mac \in Macs /\ th.i \in Slots
  BY DEF TypeOK, Idle, Walks, HandlerPcs

\* The record of a handler that starts its next loop.
LEMMA NextLoop ==
  ASSUME NEW t \in Walks, NEW next \in HandlerPcs
  PROVE  LET u == [t EXCEPT !.pc = next, !.i = 0]
         IN u \in Walks /\ u.pc = next /\ u.mac = t.mac /\ u.i = 0
<1>1. 0 \in Slots
  BY ServerAssumption DEF Slots
<1> DEFINE v == [t EXCEPT !.pc = next]
<1>2. v \in Walks /\ v.pc = next /\ v.mac = t.mac
  BY DEF Walks
<1>3. [t EXCEPT !.pc = next, !.i = 0] = [v EXCEPT !.i = 0]
  BY DEF Walks
<1> HIDE DEF v
<1>4. QED
  BY <1>1, <1>2, <1>3 DEF Walks

\* One step of a loop over the table: the next slot, the next loop or the end.
LEMMA AdvanceKeeps ==
  ASSUME th \in Walks, NEW next \in HandlerPcs \cup {"end"}, Advance(next)
  PROVE  \/ th' = Idle /\ next = "end" /\ th.i >= N - 1
         \/ /\ th' \in Walks /\ th'.mac = th.mac
            /\ \/ th.i < N - 1 /\ th'.pc = th.pc /\ th'.i = th.i + 1
               \/ th.i >= N - 1 /\ th'.pc = next /\ th'.i = 0
<1> USE ServerAssumption
<1>0. th.i \in Slots
  BY DEF Walks
<1>1. CASE th.i < N - 1
  <2>1. th' = [th EXCEPT !.i = th.i + 1]
    BY <1>1 DEF Advance
  <2>2. th.i + 1 \in Slots
    BY <1>0, <1>1 DEF Slots
  <2>3. QED
    BY <1>1, <2>1, <2>2 DEF Walks
<1>2. CASE th.i >= N - 1
  <2>1. CASE next = "end"
    BY <1>0, <1>2, <2>1 DEF Advance, Slots
  <2>2. CASE next # "end"
    <3>1. th' = [th EXCEPT !.pc = next, !.i = 0]
      BY <1>0, <1>2, <2>2 DEF Advance, Slots
    <3>2. next \in HandlerPcs
      BY <2>2
    <3>3. th' \in Walks /\ th'.pc = next /\ th'.mac = th.mac /\ th'.i = 0
      BY <3>1, <3>2, NextLoop
    <3>4. QED
      BY <1>2, <3>3
  <2>3. QED
    BY <2>1, <2>2
<1>3. QED
  BY <1>0, <1>1, <1>2 DEF Slots

\* Receiving a message and each step of the walk keep the invariant.
LEMMA HandlerIInv ==
  ASSUME IInv, WalkStep \/ \E m \in Macs : Receive(m)
  PROVE  IInv'
<1> USE ServerAssumption DEF IInv
<1>1. ASSUME NEW m \in Macs, Receive(m) PROVE IInv'
  <2>1. th' \in Walks /\ th'.pc = "remove" /\ th'.i = 0
    BY <1>1 DEF Receive, Slots, HandlerPcs, Walks
  <2>2. QED
    BY <1>1, <2>1 DEF Receive, TypeOK, NoDuplicateMac, AnswersOwnSlot, WalkInv
<1>2. CASE RemoveStep
  <2>1. th \in Walks /\ th.mac \in Macs /\ th.i \in Slots
    BY <1>2, IdlePc DEF RemoveStep, Idle
  <2>2. /\ th' \in Walks /\ th'.mac = th.mac
        /\ \/ th'.pc = "remove" /\ th'.i = th.i + 1
           \/ th'.pc = "store" /\ th.i = N - 1
    BY <1>2, <2>1, AdvanceKeeps DEF RemoveStep, HandlerPcs, Slots
  <2>3. \A s \in Slots : saved_mac'[s] = IF s = th.i /\ saved_mac[s] = th.mac
                                         THEN NoMac ELSE saved_mac[s]
    BY <1>2, <2>1 DEF RemoveStep, TypeOK
  <2>4. TypeOK'
    BY <1>2, <2>1, <2>2 DEF RemoveStep, TypeOK
  <2>5. NoDuplicateMac'
    BY <2>3 DEF NoDuplicateMac
  <2>6. \A s \in 0 .. th.i : saved_mac'[s] # th.mac
    <3>1. 0 .. th.i \subseteq Slots
      BY <2>1 DEF Slots
    <3>2. \A s \in 0 .. th.i : s = th.i \/ saved_mac[s] # th.mac
      BY <1>2, <2>1 DEF RemoveStep, WalkInv, Slots
    <3>3. QED
      BY <2>1, <2>3, <3>1, <3>2
  <2>7. dhcp_pcb'
    BY <1>2 DEF RemoveStep, WalkInv, Idle
  <2>8. \A s \in 0 .. th'.i - 1 : th'.pc = "remove" => saved_mac'[s] # th'.mac
    BY <2>1, <2>2, <2>6 DEF Slots
  <2>9. th'.pc = "store" => \A s \in Slots : saved_mac'[s] # th'.mac
    BY <2>2, <2>6 DEF Slots
  <2>10. QED
    BY <2>2, <2>4, <2>5, <2>7, <2>8, <2>9 DEF AnswersOwnSlot, WalkInv
<1>3. CASE StoreStep
  <2>1. th \in Walks /\ th.mac \in Macs /\ th.i \in Slots
    BY <1>3, IdlePc DEF StoreStep, Idle
  <2>2. th' \in Walks /\ th'.pc \in {"store", "lookup"} /\ th'.mac = th.mac
    <3>1. CASE saved_mac[th.i] = NoMac
      <4>1. th' = [th EXCEPT !.pc = "lookup", !.i = 0]
        BY <1>3, <3>1 DEF StoreStep
      <4>2. QED
        BY <2>1, <4>1, NextLoop DEF HandlerPcs
    <3>2. CASE saved_mac[th.i] # NoMac
      BY <1>3, <2>1, <3>2, AdvanceKeeps DEF StoreStep, HandlerPcs
    <3>3. QED
      BY <3>1, <3>2
  <2>3. \/ saved_mac' = saved_mac
        \/ saved_mac' = [saved_mac EXCEPT ![th.i] = th.mac] /\ th'.pc = "lookup"
    <3>1. th' = [th EXCEPT !.pc = "lookup", !.i = 0] => th'.pc = "lookup"
      BY <2>1 DEF Walks
    <3>2. QED
      BY <1>3, <3>1 DEF StoreStep
  <2>4. TypeOK'
    BY <1>3, <2>1, <2>2, <2>3 DEF StoreStep, TypeOK
  <2>5. NoDuplicateMac'
    BY <1>3, <2>1, <2>3 DEF StoreStep, NoDuplicateMac, WalkInv, TypeOK
  <2>6. dhcp_pcb'
    BY <1>3 DEF StoreStep, WalkInv, Idle
  <2>7. QED
    BY <1>3, <2>2, <2>3, <2>4, <2>5, <2>6 DEF StoreStep, AnswersOwnSlot, WalkInv
<1>4. CASE LookupStep
  <2>1. th \in Walks
    BY <1>4, IdlePc DEF LookupStep, Idle
  <2>2. \/ th' = Idle
        \/ th' \in Walks /\ th'.pc = "lookup"
        \/ /\ th' \in Walks /\ th'.pc = "reply"
           /\ th'.ip \in Slots /\ saved_mac[th'.ip] = th'.mac
    <3>1. CASE saved_mac[th.i] = th.mac
      BY <1>4, <2>1, <3>1 DEF LookupStep, HandlerPcs, Walks
    <3>2. CASE saved_mac[th.i] # th.mac
      <4>1. Advance("end") /\ th.pc = "lookup"
        BY <1>4, <3>2 DEF LookupStep
      <4>2. ~(th.i >= N - 1 /\ th'.pc = "end" /\ th'.i = 0 /\ th' \in Walks)
        BY DEF Walks, HandlerPcs
      <4>3. QED
        BY <2>1, <4>1, <4>2, AdvanceKeeps
    <3>3. QED
      BY <3>1, <3>2
  <2>3. TypeOK'
    BY <1>4, <2>2 DEF LookupStep, TypeOK
  <2>4. dhcp_pcb'
    BY <1>4 DEF LookupStep, WalkInv, Idle
  <2>5. th'.pc \in {"idle", "lookup", "reply"}
    BY <2>2 DEF Idle
  <2>6. QED
    BY <1>4, <2>2, <2>3, <2>4, <2>5
       DEF LookupStep, NoDuplicateMac, AnswersOwnSlot, WalkInv, Idle
<1>5. CASE Reply
  <2>1. th \in Walks /\ th.mac \in Macs
    BY <1>5, IdlePc DEF Reply, Idle
  <2>2. arp' \in [Slots -> Macs \cup {NoMac}]
    BY <1>5, <2>1 DEF Reply, TypeOK
  <2>3. th'.pc = "idle"
    BY <1>5 DEF Reply, Idle
  <2>4. QED
    BY <1>5, <2>2, <2>3 DEF Reply, TypeOK, NoDuplicateMac, AnswersOwnSlot, WalkInv
<1>6. QED
  BY <1>1, <1>2, <1>3, <1>4, <1>5 DEF WalkStep

\* So does a callback, which runs between two messages.
LEMMA CallbackIInv ==
  ASSUME IInv, CallbackStep
  PROVE  IInv'
<1> USE ServerAssumption DEF IInv
<1>1. TypeOK'
  BY DEF CallbackStep, StartPrv, StopPrv, ArpCleared, TypeOK, NoMacs
<1>2. th' = Idle /\ (saved_mac' = NoMacs \/ UNCHANGED <<saved_mac, dhcp_pcb>>)
  BY DEF CallbackStep, StartPrv, StopPrv, ArpCleared, WalkInv, TypeOK
<1>3. ~dhcp_pcb' => saved_mac' = NoMacs
  BY DEF CallbackStep, StartPrv, StopPrv, ArpCleared, WalkInv, TypeOK
<1>4. QED
  BY <1>1, <1>2, <1>3 DEF NoDuplicateMac, AnswersOwnSlot, WalkInv, NoMacs, Idle

\* What a step of the bus task does to the table: addresses only ever leave it, one
\* slot at a time.
Removed ==
  \/ UNCHANGED saved_mac
  \/ \E s \in Slots : saved_mac' = [saved_mac EXCEPT ![s] = NoMac]

LEMMA BusFacts ==
  ASSUME IInv, BusStep \/ \E m \in Macs : ClientGone(m)
  PROVE  TypeOK' /\ Removed /\ UNCHANGED <<th, dhcp_pcb, arp>>
<1> USE ServerAssumption DEF IInv, Removed
<1>0. 0 \in Slots
  BY DEF Slots
<1>1. CASE ApGone \/ \E m \in Macs : ClientGone(m)
  BY <1>0, <1>1 DEF ApGone, ClientGone, TypeOK, BusWalks
<1>2. ASSUME bus.pc # "rest"
      PROVE  /\ bus \in BusWalks /\ bus.i \in Slots
             /\ bus.mac \in IF bus.pc = "clear" THEN {NoMac} ELSE Macs
  BY <1>2 DEF TypeOK, BusWalks, Rest
<1>3. ASSUME NEW pc, BusAdvance(pc), bus.pc # "rest",
             pc = IF bus.pc = "clear" THEN "clear" ELSE "test"
      PROVE  bus' = Rest \/ bus' \in BusWalks
  <2>1. bus.i < N - 1 => bus.i + 1 \in Slots
    BY <1>2, <1>3 DEF Slots
  <2>2. CASE bus.i < N - 1
    <3>1. bus' = [bus EXCEPT !.pc = pc, !.i = bus.i + 1]
      BY <1>3, <2>2 DEF BusAdvance
    <3>2. bus' = [pc |-> pc, i |-> bus.i + 1, mac |-> bus.mac]
      BY <1>2, <1>3, <3>1 DEF BusWalks
    <3>3. QED
      BY <1>2, <1>3, <2>1, <2>2, <3>2 DEF BusWalks
  <2>3. CASE ~(bus.i < N - 1)
    BY <1>3, <2>3 DEF BusAdvance
  <2>4. QED
    BY <2>2, <2>3
<1>4. CASE BusTest
  <2>1. bus.pc = "test"
    BY <1>4 DEF BusTest
  <2>2. bus' = Rest \/ bus' \in BusWalks
    <3>1. CASE bus' = [bus EXCEPT !.pc = "erase"]
      BY <1>2, <2>1, <3>1 DEF BusWalks
    <3>2. CASE BusAdvance("test")
      BY <1>3, <2>1, <3>2
    <3>3. QED
      BY <1>4, <3>1, <3>2 DEF BusTest
  <2>3. QED
    BY <1>4, <2>2 DEF BusTest, TypeOK
<1>5. CASE BusErase \/ BusClear
  <2>1. bus' = Rest \/ bus' \in BusWalks
    BY <1>3, <1>5 DEF BusErase, BusClear, BusFree
  <2>2. bus.i \in Slots
    BY <1>2, <1>5 DEF BusErase, BusClear, BusFree
  <2>3. saved_mac' \in [Slots -> Macs \cup {NoMac}]
    BY <1>5, <2>2 DEF BusErase, BusClear, BusFree, TypeOK
  <2>4. QED
    BY <1>5, <2>1, <2>2, <2>3 DEF BusErase, BusClear, BusFree, TypeOK
<1>6. QED
  BY <1>1, <1>4, <1>5 DEF BusStep

\* A step of the bus task keeps the invariant, wherever the handler is in its walk.
LEMMA BusIInv ==
  ASSUME IInv, BusStep \/ \E m \in Macs : ClientGone(m)
  PROVE  IInv'
<1> USE ServerAssumption DEF IInv
<1>1. TypeOK' /\ UNCHANGED <<th, dhcp_pcb>>
  BY BusFacts
<1>2. \A s \in Slots : saved_mac'[s] \in {saved_mac[s], NoMac}
  BY BusFacts DEF Removed, TypeOK
<1>3. saved_mac = NoMacs => saved_mac' = NoMacs
  BY <1>1, <1>2 DEF NoMacs, TypeOK
<1>4. NoDuplicateMac'
  BY <1>2 DEF NoDuplicateMac
<1>5. CASE th = Idle
  BY <1>1, <1>3, <1>4, <1>5 DEF AnswersOwnSlot, WalkInv, Idle
<1>6. CASE th # Idle
  <2>1. th \in Walks /\ th.mac \in Macs /\ th.i \in Slots
    BY <1>6, IdlePc
  <2>2. 0 .. th.i - 1 \subseteq Slots
    BY <2>1 DEF Slots
  <2>3. WalkInv'
    BY <1>1, <1>2, <1>6, <2>1, <2>2 DEF WalkInv
  <2>4. AnswersOwnSlot'
    BY <1>1, <1>2 DEF AnswersOwnSlot, WalkInv
  <2>5. QED
    BY <1>1, <1>4, <2>3, <2>4
<1>7. QED
  BY <1>5, <1>6

\* IInv is an invariant of the server, for all pools, clients and schedules.
THEOREM IInvInvariant == Spec => []IInv
<1>1. IInv /\ UNCHANGED vars => IInv'
  BY DEF vars, IInv, TypeOK, NoDuplicateMac, AnswersOwnSlot, WalkInv
<1>2. IInv /\ [Next]_vars => IInv'
  BY <1>1, HandlerIInv, CallbackIInv, BusIInv DEF Next
<1>3. QED
  BY <1>2, InitIInv, PTL DEF Spec

\* The variables keep their types.
THEOREM TypeCorrect == Spec => []TypeOK
<1>1. IInv => TypeOK
  BY DEF IInv
<1>2. QED
  BY <1>1, IInvInvariant, PTL

\* A MAC address is listed at most once, whatever runs between two steps of a walk.
THEOREM MacListedOnce == Spec => []NoDuplicateMac
<1>1. IInv => NoDuplicateMac
  BY DEF IInv
<1>2. QED
  BY <1>1, IInvInvariant, PTL

\* No answer carries an address the table gives to another client.
THEOREM AnswerIsOwn == Spec => []AnswersOwnSlot
<1>1. IInv => AnswersOwnSlot
  BY DEF IInv
<1>2. QED
  BY <1>1, IInvInvariant, PTL

-----------------------------------------------------------------------------
(* The table is a lease table. *)

\* The lease read from a table f: the slot of a listed client, none otherwise.
LEMMA LeaseRead ==
  ASSUME NEW f, NEW m,
         \A s, t \in Slots : f[s] = m /\ f[t] = m => s = t
  PROVE  LET lease == IF \E s \in Slots : f[s] = m
                      THEN CHOOSE s \in Slots : f[s] = m ELSE NoAddr
         IN /\ \A s \in Slots : f[s] = m => lease = s
            /\ (\A s \in Slots : f[s] # m) => lease = NoAddr
<1>1. CASE \E s \in Slots : f[s] = m
  <2>1. PICK s \in Slots : f[s] = m
    BY <1>1
  <2>2. QED
    BY <2>1
<1>2. CASE \A s \in Slots : f[s] # m
  BY <1>2
<1>3. QED
  BY <1>1, <1>2

LEMMA LeaseNow ==
  ASSUME IInv, NEW m \in Macs
  PROVE  /\ \A s \in Slots : saved_mac[s] = m => LeaseOf(m) = s
         /\ (\A s \in Slots : saved_mac[s] # m) => LeaseOf(m) = NoAddr
<1>1. \A s, t \in Slots : saved_mac[s] = m /\ saved_mac[t] = m => s = t
  BY ServerAssumption DEF IInv, NoDuplicateMac
<1>2. QED
  BY <1>1, LeaseRead DEF LeaseOf

LEMMA LeaseAfter ==
  ASSUME IInv', NEW m \in Macs
  PROVE  /\ \A s \in Slots : saved_mac'[s] = m => LeaseOf(m)' = s
         /\ (\A s \in Slots : saved_mac'[s] # m) => LeaseOf(m)' = NoAddr
<1>1. \A s, t \in Slots : saved_mac'[s] = m /\ saved_mac'[t] = m => s = t
  BY ServerAssumption DEF IInv, NoDuplicateMac
<1>2. QED
  BY <1>1, LeaseRead DEF LeaseOf

\* Taking the clients of S out of the table revokes their leases and no other.
LEMMA RemovalRevokes ==
  ASSUME IInv, IInv', NEW S \in SUBSET Macs,
         saved_mac' = [s \in Slots |-> IF saved_mac[s] \in S THEN NoMac ELSE saved_mac[s]]
  PROVE  Lease!Revoke(S)
<1>1. ASSUME NEW m \in S PROVE LeaseOf(m)' = NoAddr
  BY LeaseAfter, ServerAssumption
<1>2. ASSUME NEW m \in Macs \ S PROVE LeaseOf(m)' = LeaseOf(m)
  <2>1. \A s \in Slots : saved_mac'[s] = m <=> saved_mac[s] = m
    BY ServerAssumption
  <2>2. QED
    BY <2>1, LeaseNow, LeaseAfter
<1>3. QED
  BY <1>1, <1>2 DEF Lease!Revoke

\* Saving an unlisted client in a free slot assigns the lease.
LEMMA SavingAssigns ==
  ASSUME IInv, IInv', NEW m \in Macs, NEW i \in Slots, saved_mac[i] = NoMac,
         \A s \in Slots : saved_mac[s] # m,
         saved_mac' = [saved_mac EXCEPT ![i] = m]
  PROVE  Lease!Assign(m, i)
<1>1. LeaseOf(m) = NoAddr
  BY LeaseNow
<1>2. LeaseOf(m)' = i
  BY LeaseAfter DEF IInv, TypeOK
<1>3. ASSUME NEW n \in Macs PROVE LeaseOf(n) # i
  BY LeaseNow, ServerAssumption
<1>4. ASSUME NEW n \in Macs \ {m} PROVE LeaseOf(n)' = LeaseOf(n)
  <2>1. \A s \in Slots : saved_mac'[s] = n <=> saved_mac[s] = n
    BY ServerAssumption DEF IInv, TypeOK
  <2>2. QED
    BY <2>1, LeaseNow, LeaseAfter
<1>5. QED
  BY <1>1, <1>2, <1>3, <1>4 DEF Lease!Assign

\* Every step of the server assigns a lease, revokes one or all, or leaves them alone.
LEMMA StepSimulation ==
  ASSUME IInv, IInv', [Next]_vars
  PROVE  [Lease!LeaseNext]_([m \in Macs |-> LeaseOf(m)])
<1> USE ServerAssumption
<1>1. \A S \in SUBSET Macs : Lease!Revoke(S) => Lease!LeaseNext
  BY DEF Lease!LeaseNext
<1>2. CASE saved_mac' = NoMacs
  <2>1. saved_mac' = [s \in Slots |-> IF saved_mac[s] \in Macs THEN NoMac ELSE saved_mac[s]]
    BY <1>2 DEF NoMacs, IInv, TypeOK
  <2>2. Lease!Revoke(Macs)
    BY <2>1, RemovalRevokes
  <2>3. QED
    BY <1>1, <2>2
<1>3. CASE UNCHANGED saved_mac
  BY <1>3 DEF LeaseOf
<1>4. CASE \E i \in Slots : saved_mac' = [saved_mac EXCEPT ![i] = NoMac]
  <2>1. PICK i \in Slots : saved_mac' = [saved_mac EXCEPT ![i] = NoMac]
    BY <1>4
  <2>2. CASE saved_mac[i] = NoMac
    BY <1>3, <2>1, <2>2 DEF IInv, TypeOK
  <2>3. CASE saved_mac[i] # NoMac
    <3>1. saved_mac[i] \in Macs
      BY <2>3 DEF IInv, TypeOK
    <3>2. \A s \in Slots : saved_mac[s] = saved_mac[i] => s = i
      BY <2>3 DEF IInv, NoDuplicateMac
    <3>3. saved_mac' = [s \in Slots |-> IF saved_mac[s] \in {saved_mac[i]}
                                        THEN NoMac ELSE saved_mac[s]]
      BY <2>1, <3>2 DEF IInv, TypeOK
    <3>4. Lease!Revoke({saved_mac[i]})
      BY <3>1, <3>3, RemovalRevokes
    <3>5. QED
      BY <1>1, <3>1, <3>4
  <2>4. QED
    BY <2>2, <2>3
<1>5. CASE RemoveStep
  <2>1. th.i \in Slots
    BY <1>5, IdlePc DEF RemoveStep, IInv, Idle
  <2>2. QED
    BY <1>3, <1>4, <1>5, <2>1 DEF RemoveStep
<1>6. CASE StoreStep
  <2>1. th.mac \in Macs /\ th.i \in Slots
    BY <1>6, IdlePc DEF StoreStep, IInv, Idle
  <2>2. \A s \in Slots : saved_mac[s] # th.mac
    BY <1>6 DEF StoreStep, IInv, WalkInv
  <2>3. CASE saved_mac[th.i] = NoMac
    <3>1. Lease!Assign(th.mac, th.i)
      BY <1>6, <2>1, <2>2, <2>3, SavingAssigns DEF StoreStep
    <3>2. QED
      BY <2>1, <3>1 DEF Lease!LeaseNext
  <2>4. CASE saved_mac[th.i] # NoMac
    BY <1>3, <1>6, <2>4 DEF StoreStep
  <2>5. QED
    BY <2>3, <2>4
<1>7. CASE BusStep \/ \E m \in Macs : ClientGone(m)
  BY <1>3, <1>4, <1>7, BusFacts DEF Removed
<1>8. CASE CallbackStep
  BY <1>2, <1>3, <1>8 DEF CallbackStep, StartPrv, StopPrv, ArpCleared
<1>9. CASE LookupStep \/ Reply \/ UNCHANGED vars \/ \E m \in Macs : Receive(m)
  BY <1>3, <1>9 DEF LookupStep, Reply, vars, Receive
<1>10. QED
  BY <1>5, <1>6, <1>7, <1>8, <1>9 DEF Next, WalkStep

\* The server, with a bus task that removes and clears without a lock, implements
\* the lease table: a lease changes hands only after it was revoked.
THEOREM Implementation == Spec => ImplementsLease
<1>1. Init => Lease!LeaseInit
  <2> SUFFICES ASSUME Init, NEW m \in Macs PROVE LeaseOf(m) = NoAddr
    BY DEF Lease!LeaseInit
  <2>1. \A s \in Slots : saved_mac[s] # m
    BY ServerAssumption DEF Init, NoMacs
  <2>2. QED
    BY <2>1 DEF LeaseOf
<1>2. IInv /\ IInv' /\ [Next]_vars => [Lease!LeaseNext]_([m \in Macs |-> LeaseOf(m)])
  BY StepSimulation
<1>3. QED
  BY <1>1, <1>2, IInvInvariant, PTL DEF Spec, ImplementsLease, Lease!LeaseSpec

-----------------------------------------------------------------------------
(* Room for every client. *)

\* The pool is finite.
LEMMA SlotsFinite == IsFiniteSet(Slots) /\ Cardinality(Slots) = N
  BY FS_Interval, ServerAssumption DEF Slots

\* While a client that is listed nowhere is handled, the others fill fewer slots
\* than there are clients.
LEMMA OthersCount ==
  ASSUME IsFiniteSet(Macs), NEW m \in Macs, NEW f \in [Slots -> Macs \cup {NoMac}],
         \A s \in Slots : f[s] # m,
         \A s, t \in Slots : f[s] # NoMac /\ f[s] = f[t] => s = t
  PROVE  Cardinality({s \in Slots : f[s] # NoMac}) < Cardinality(Macs)
<1> DEFINE Taken == {s \in Slots : f[s] # NoMac}
           g == [s \in Taken |-> f[s]]
<1>1. /\ IsFiniteSet(Macs \ {m})
      /\ Cardinality(Macs \ {m}) = Cardinality(Macs) - 1
      /\ Cardinality(Macs) \in Nat
  BY FS_RemoveElement, FS_CardinalityType
<1>2. g \in Injection(Taken, Macs \ {m})
  BY DEF Injection, IsInjective
<1>3. IsFiniteSet(Taken) /\ Cardinality(Taken) <= Cardinality(Macs \ {m})
  BY <1>1, <1>2, FS_Injection
<1>4. Cardinality(Taken) \in Nat
  BY <1>3, FS_CardinalityType
<1>5. QED
  BY <1>1, <1>3, <1>4

\* The counting of RoomInv holds as the handler walks and the bus task frees slots.
LEMMA RoomInvKept ==
  ASSUME IsFiniteSet(Macs), IInv, IInv', RoomInv, [Next]_vars
  PROVE  RoomInv'
<1> USE ServerAssumption
<1> SUFFICES ASSUME th'.pc = "store"
             PROVE  Cardinality(Ahead') + th'.i < Cardinality(Macs)
  BY DEF RoomInv
<1>0. /\ IsFiniteSet(Ahead) /\ Cardinality(Ahead) \in Nat
      /\ IsFiniteSet(Ahead') /\ Cardinality(Ahead') \in Nat
      /\ Cardinality(Macs) \in Nat
  <2>1. Ahead \subseteq Slots /\ Ahead' \subseteq Slots
    BY DEF Ahead
  <2>2. QED
    BY <2>1, SlotsFinite, FS_Subset, FS_CardinalityType
<1>1. th' \in Walks /\ th'.i \in Nat /\ th'.mac \in Macs
  BY DEF IInv, TypeOK, Idle, Slots, Walks
<1>2. CASE th'.i = 0
  <2>1. /\ saved_mac' \in [Slots -> Macs \cup {NoMac}]
        /\ \A s \in Slots : saved_mac'[s] # th'.mac
        /\ \A s, t \in Slots : saved_mac'[s] # NoMac /\ saved_mac'[s] = saved_mac'[t] => s = t
    BY DEF IInv, TypeOK, WalkInv, NoDuplicateMac
  <2>2. Ahead' = {s \in Slots : saved_mac'[s] # NoMac}
    BY <1>2 DEF Ahead, Slots
  <2>3. Cardinality(Ahead') < Cardinality(Macs)
    BY <1>1, <2>1, <2>2, OthersCount
  <2>4. QED
    BY <1>0, <1>2, <2>3
<1>3. CASE StoreStep
  <2>1. th \in Walks /\ th.i \in Slots /\ th.pc = "store"
    BY <1>3, IdlePc DEF StoreStep, IInv, Idle
  <2>2. saved_mac[th.i] # NoMac /\ Advance("lookup") /\ saved_mac' = saved_mac
    <3>1. th' # [th EXCEPT !.pc = "lookup", !.i = 0]
      BY <2>1, NextLoop DEF HandlerPcs
    <3>2. QED
      BY <1>3, <3>1 DEF StoreStep
  <2>3. th'.i = th.i + 1
    BY <2>1, <2>2, AdvanceKeeps DEF HandlerPcs, Idle
  <2>4. Ahead' = Ahead \ {th.i} /\ th.i \in Ahead
    BY <2>1, <2>2, <2>3 DEF Ahead, Slots
  <2>5. Cardinality(Ahead') = Cardinality(Ahead) - 1
    BY <1>0, <2>4, FS_RemoveElement
  <2>6. Cardinality(Ahead) + th.i < Cardinality(Macs) /\ th.i \in Nat
    BY <2>1 DEF RoomInv, Slots
  <2>7. QED
    BY <1>0, <2>3, <2>5, <2>6
<1>4. CASE th' = th /\ Removed
  <2>1. Ahead' \subseteq Ahead
    BY <1>4 DEF Ahead, Removed, IInv, TypeOK
  <2>2. Cardinality(Ahead') <= Cardinality(Ahead)
    BY <1>0, <2>1, FS_Subset
  <2>3. Cardinality(Ahead) + th.i < Cardinality(Macs)
    BY <1>4 DEF RoomInv
  <2>4. QED
    BY <1>0, <1>1, <1>4, <2>2, <2>3
<1>5. CASE RemoveStep
  <2>1. th \in Walks /\ th.pc = "remove"
    BY <1>5, IdlePc DEF RemoveStep, IInv, Idle
  <2>2. th'.i = 0
    BY <1>5, <2>1, AdvanceKeeps DEF RemoveStep, HandlerPcs, Idle
  <2>3. QED
    BY <1>2, <2>2
<1>6. CASE LookupStep
  <2>1. th \in Walks /\ th.pc = "lookup"
    BY <1>6, IdlePc DEF LookupStep, IInv, Idle
  <2>2. Advance("end") => th'.pc \in {"lookup", "idle", "end"}
    BY <2>1, AdvanceKeeps DEF Idle
  <2>3. th' = [th EXCEPT !.pc = "reply", !.ip = th.i] => th'.pc = "reply"
    BY <2>1 DEF Walks
  <2>4. QED
    BY <1>6, <2>2, <2>3 DEF LookupStep
<1>7. CASE Reply \/ \E m \in Macs : Receive(m)
  BY <1>7 DEF Receive, Reply, Idle
<1>8. CASE CallbackStep
  <2>1. th' = Idle
    BY <1>8 DEF CallbackStep, StartPrv, StopPrv, ArpCleared
  <2>2. QED
    BY <2>1 DEF Idle
<1>9. CASE UNCHANGED vars \/ BusStep \/ \E m \in Macs : ClientGone(m)
  BY <1>4, <1>9, BusFacts DEF vars, Removed
<1>10. QED
  BY <1>3, <1>5, <1>6, <1>7, <1>8, <1>9 DEF Next, WalkStep

\* With no more clients than addresses the save loop always has a free slot ahead,
\* whatever the bus task frees behind it.
THEOREM RoomForEveryClient ==
  ASSUME IsFiniteSet(Macs), Cardinality(Macs) <= N
  PROVE  Spec => []RoomForAll
<1>1. Init => RoomInv
  BY DEF Init, RoomInv, Idle
<1>2. IInv /\ IInv' /\ RoomInv /\ [Next]_vars => RoomInv'
  BY RoomInvKept
<1>3. IInv /\ RoomInv => RoomForAll
  <2> SUFFICES ASSUME IInv, RoomInv, th.pc = "store",
                      \A s \in th.i .. N - 1 : saved_mac[s] # NoMac
               PROVE  FALSE
    BY DEF RoomForAll
  <2>1. th.i \in Slots
    BY DEF IInv, TypeOK, Idle, Walks
  <2>2. Ahead = th.i .. N - 1
    BY <2>1, ServerAssumption DEF Ahead, Slots
  <2>3. Cardinality(Ahead) = N - th.i
    BY <2>1, <2>2, FS_Interval, ServerAssumption DEF Slots
  <2>4. Cardinality(Macs) \in Nat
    BY FS_CardinalityType
  <2>5. QED
    BY <2>1, <2>3, <2>4, ServerAssumption DEF RoomInv, Slots
<1>4. QED
  BY <1>1, <1>2, <1>3, IInvInvariant, PTL DEF Spec

-----------------------------------------------------------------------------
(* The ARP entries of the listed clients. *)

\* A step of a walk keeps what is known of the search and of the entries.
LEMMA WalkArp ==
  ASSUME IInv, IInv', ArpInv, WalkStep
  PROVE  ArpInv'
<1> USE ServerAssumption DEF IInv, ArpInv
<1>0. th \in Walks /\ th.mac \in Macs /\ th.i \in Slots
  BY IdlePc DEF WalkStep, RemoveStep, StoreStep, LookupStep, Reply, Idle
<1>1. CASE RemoveStep
  <2>1. th'.mac = th.mac /\ th'.pc \in {"remove", "store"}
    BY <1>0, <1>1, AdvanceKeeps DEF RemoveStep, HandlerPcs
  <2>2. \A s \in Slots : saved_mac'[s] \in {saved_mac[s], NoMac}
    BY <1>0, <1>1 DEF RemoveStep, TypeOK
  <2>3. QED
    BY <1>1, <2>1, <2>2 DEF RemoveStep, SearchInv, ArpAgrees
<1>2. CASE StoreStep
  <2>1. /\ th'.mac = th.mac
        /\ th'.pc = "store" \/ (th'.pc = "lookup" /\ th'.i = 0)
    <3>1. CASE th' = [th EXCEPT !.pc = "lookup", !.i = 0]
      <4>1. "lookup" \in HandlerPcs
        BY DEF HandlerPcs
      <4>2. QED
        BY <1>0, <3>1, <4>1, NextLoop
    <3>2. CASE Advance("lookup")
      BY <1>0, <1>2, <3>2, AdvanceKeeps DEF StoreStep, HandlerPcs, Idle
    <3>3. QED
      BY <1>2, <3>1, <3>2 DEF StoreStep
  <2>2. \A s \in Slots : saved_mac'[s] \in {saved_mac[s], th.mac}
    BY <1>0, <1>2 DEF StoreStep, TypeOK
  <2>3. QED
    BY <1>2, <2>1, <2>2 DEF StoreStep, SearchInv, ArpAgrees
<1>3. CASE LookupStep
  <2>1. CASE saved_mac[th.i] = th.mac
    <3>1. th'.pc = "reply" /\ th'.ip = th.i /\ th'.mac = th.mac
      BY <1>0, <1>3, <2>1 DEF LookupStep, Walks
    <3>2. \A s \in Slots \ {th.i} : saved_mac[s] # th.mac
      BY <1>0, <2>1 DEF NoDuplicateMac
    <3>3. QED
      BY <1>3, <3>1, <3>2 DEF LookupStep, SearchInv, ArpAgrees
  <2>2. CASE saved_mac[th.i] # th.mac
    <3>1. Advance("end") /\ th.pc = "lookup" /\ UNCHANGED <<saved_mac, arp>>
      BY <1>3, <2>2 DEF LookupStep
    <3>2. \A s \in 0 .. th.i : saved_mac[s] # th.mac
      BY <1>0, <2>2, <3>1 DEF SearchInv, Slots
    <3>3. CASE th' = Idle /\ th.i >= N - 1
      <4>1. \A s \in Slots : saved_mac[s] # th.mac
        BY <1>0, <3>2, <3>3 DEF Slots
      <4>2. QED
        BY <3>1, <3>3, <4>1 DEF SearchInv, ArpAgrees, Idle
    <3>4. CASE th'.pc = "lookup" /\ th'.i = th.i + 1 /\ th'.mac = th.mac
      <4>1. 0 .. th'.i - 1 = 0 .. th.i
        BY <1>0, <3>4 DEF Slots
      <4>2. QED
        BY <3>1, <3>2, <3>4, <4>1 DEF SearchInv, ArpAgrees
    <3>5. ~(th' \in Walks /\ th'.pc = "end")
      BY DEF Walks, HandlerPcs
    <3>6. QED
      BY <1>0, <3>1, <3>3, <3>4, <3>5, AdvanceKeeps
  <2>3. QED
    BY <2>1, <2>2
<1>4. CASE Reply
  <2>1. th.pc = "reply" /\ th.ip \in Slots /\ th' = Idle /\ saved_mac' = saved_mac
    BY <1>4 DEF Reply, WalkInv
  <2>2. \A s \in Slots : arp'[s] = IF s = th.ip THEN th.mac ELSE arp[s]
    BY <1>4, <2>1 DEF Reply, TypeOK
  <2>3. \A s \in Slots : saved_mac[s] # th.mac \/ s = th.ip
    BY <2>1 DEF SearchInv
  <2>4. saved_mac[th.ip] \in {th.mac, NoMac}
    BY <2>1 DEF AnswersOwnSlot
  <2>5. QED
    BY <2>1, <2>2, <2>3, <2>4 DEF SearchInv, ArpAgrees, Idle
<1>5. QED
  BY <1>1, <1>2, <1>3, <1>4 DEF WalkStep

\* So does every step of the server.
LEMMA StepArp ==
  ASSUME IInv, IInv', ArpInv, [Next]_vars
  PROVE  ArpInv'
<1> USE ServerAssumption DEF ArpInv
<1>1. CASE \E m \in Macs : Receive(m)
  BY <1>1 DEF Receive, SearchInv, ArpAgrees, Idle
<1>2. CASE CallbackStep
  <2>1. /\ th = Idle /\ th' = Idle
        /\ saved_mac' = NoMacs \/ UNCHANGED saved_mac
        /\ arp' = NoMacs \/ UNCHANGED arp
    BY <1>2 DEF CallbackStep, StartPrv, StopPrv, ArpCleared
  <2>2. QED
    BY <2>1 DEF SearchInv, ArpAgrees, NoMacs, Idle
<1>3. CASE BusStep \/ \E m \in Macs : ClientGone(m)
  <2>1. \A s \in Slots : saved_mac'[s] \in {saved_mac[s], NoMac}
    BY <1>3, BusFacts DEF Removed, IInv, TypeOK
  <2>2. UNCHANGED <<th, arp>>
    BY <1>3, BusFacts
  <2>3. th # Idle => th.mac \in Macs /\ 0 .. th.i - 1 \subseteq Slots
    BY IdlePc DEF IInv, Slots
  <2>4. QED
    BY <2>1, <2>2, <2>3 DEF SearchInv, ArpAgrees, Idle
<1>4. CASE UNCHANGED vars
  BY <1>4 DEF vars, SearchInv, ArpAgrees
<1>5. QED
  BY <1>1, <1>2, <1>3, <1>4, WalkArp DEF Next

\* The static ARP entry of a listed client is its own, although the server removes
\* none and slots change hands.
THEOREM ArpIsRight == Spec => []ArpAgrees
<1>1. Init => ArpInv
  BY DEF Init, ArpInv, SearchInv, ArpAgrees, Idle, NoMacs
<1>2. IInv /\ IInv' /\ ArpInv /\ [Next]_vars => ArpInv'
  BY StepArp
<1>3. ArpInv => ArpAgrees
  BY DEF ArpInv
<1>4. QED
  BY <1>1, <1>2, <1>3, IInvInvariant, PTL DEF Spec

-----------------------------------------------------------------------------
(* The flag of the server. *)

\* What putting an element at the end of a sequence and taking its head do to its
\* elements, length and last element.
LEMMA SeqFacts ==
  ASSUME NEW S, NEW q \in Seq(S)
  PROVE  /\ \A x \in S : /\ Append(q, x) \in Seq(S) /\ Append(q, x) # <<>>
                         /\ Len(Append(q, x)) = Len(q) + 1
                         /\ Append(q, x)[Len(Append(q, x))] = x
         /\ q # <<>> => /\ Head(q) \in S /\ Tail(q) \in Seq(S)
                        /\ Len(Tail(q)) = Len(q) - 1
                        /\ Tail(q) = <<>> => q[Len(q)] = Head(q)
                        /\ Tail(q) # <<>> => Tail(q)[Len(Tail(q))] = q[Len(q)]
<1>1. ASSUME NEW x \in S
      PROVE  /\ Append(q, x) \in Seq(S) /\ Append(q, x) # <<>>
             /\ Len(Append(q, x)) = Len(q) + 1
             /\ Append(q, x)[Len(Append(q, x))] = x
  OBVIOUS
<1>2. ASSUME q # <<>>
      PROVE  /\ Head(q) \in S /\ Tail(q) \in Seq(S)
             /\ Len(Tail(q)) = Len(q) - 1
             /\ Tail(q) = <<>> => q[Len(q)] = Head(q)
             /\ Tail(q) # <<>> => Tail(q)[Len(Tail(q))] = q[Len(q)]
  <2>1. Len(q) \in Nat \ {0}
    BY <1>2
  <2>2. Head(q) = q[1] /\ Head(q) \in S /\ Tail(q) \in Seq(S) /\ Len(Tail(q)) = Len(q) - 1
    BY <1>2
  <2>3. Tail(q) = <<>> => Len(q) = 1
    <3>1. Len(<<>>) = 0
      OBVIOUS
    <3>2. Len(q) = Len(Tail(q)) + 1
      BY <2>1, <2>2
    <3>3. ASSUME Tail(q) = <<>> PROVE Len(Tail(q)) = 0
      BY ONLY <3>1, <3>3, Zenon
    <3>4. QED
      BY <2>1, <3>2, <3>3
  <2>4. Tail(q) # <<>> => Len(q) > 1
    BY <2>1, <2>2
  <2>5. \A k \in 1 .. Len(q) - 1 : Tail(q)[k] = q[k + 1]
    BY <1>2
  <2>6. Tail(q) # <<>> => Tail(q)[Len(q) - 1] = q[Len(q)]
    BY <2>1, <2>4, <2>5
  <2>7. QED
    BY <2>2, <2>3, <2>6
<1>3. QED
  BY <1>1, <1>2

\* A step of the tasks and the TCP/IP thread keeps the types.
LEMMA SwitchTypeKept ==
  ASSUME SwitchTypeOK, [SwitchNext]_switchVars
  PROVE  SwitchTypeOK'
<1> USE SwitchAssumption DEF SwitchTypeOK, EvPcs, SettingPcs
<1>1. ASSUME NEW event \in {"up", "down"}, NEW up \in BOOLEAN, ApIndication(event, up)
      PROVE  SwitchTypeOK'
  BY <1>1, SeqFacts DEF ApIndication
<1>2. ASSUME NEW type \in {"START", "STOP"}, NEW overlap \in BOOLEAN,
             Queue(type, overlap) \/ Refused
      PROVE  /\ mbox' \in Seq({"START", "STOP"}) /\ Len(mbox') <= MboxMax
             /\ crossed' \in BOOLEAN
  <2>1. CASE Queue(type, overlap)
    <3>1. Len(mbox) \in Nat /\ Len(mbox) < MboxMax /\ mbox' = Append(mbox, type)
      BY <2>1 DEF Queue
    <3>2. mbox' \in Seq({"START", "STOP"}) /\ Len(mbox') = Len(mbox) + 1
      BY <3>1, SeqFacts
    <3>3. crossed' \in BOOLEAN
      BY <2>1 DEF Queue
    <3>4. QED
      BY <3>1, <3>2, <3>3
  <2>2. CASE Refused
    BY <2>2 DEF Refused
  <2>3. QED
    BY <1>2, <2>1, <2>2
<1>3. CASE RunCallback
  <2>1. mbox # <<>> /\ mbox' = Tail(mbox) /\ running' \in BOOLEAN
    BY <1>3 DEF RunCallback
  <2>2. mbox' \in Seq({"START", "STOP"}) /\ Len(mbox') = Len(mbox) - 1 /\ Len(mbox) \in Nat
    BY <2>1, SeqFacts
  <2>3. Len(mbox') <= MboxMax
    BY <2>2
  <2>4. QED
    BY <1>3, <2>1, <2>2, <2>3 DEF RunCallback
<1>4. CASE TakeMessage
  <2>1. ap_events # <<>> /\ ap_events' = Tail(ap_events) /\ ev' = Head(ap_events)
    BY <1>4 DEF TakeMessage
  <2>2. /\ ap_events' \in Seq({"up", "down"}) /\ ev' \in {"up", "down"}
        /\ Len(ap_events') = Len(ap_events) - 1 /\ Len(ap_events) \in Nat
    BY <2>1, SeqFacts
  <2>3. Len(ap_events') <= ApMax
    BY <2>2
  <2>4. QED
    BY <1>4, <2>2, <2>3 DEF TakeMessage
<1>5. CASE TestSetting \/ EventsStore
  BY <1>5 DEF TestSetting, EventsStore
<1>6. CASE EventsCallback
  BY <1>2, <1>6 DEF EventsCallback
<1>7. CASE SettingCallback
  <2>1. /\ mbox' \in Seq({"START", "STOP"}) /\ Len(mbox') <= MboxMax
        /\ crossed' \in BOOLEAN
    <3>1. CASE ev \in {"started", "stopped"}
      BY <1>2, <1>7, <3>1 DEF SettingCallback, Queue, Refused
    <3>2. CASE ev \notin {"started", "stopped"}
      BY <1>2, <1>7, <3>2 DEF SettingCallback, Queue, Refused
    <3>3. QED
      BY <3>1, <3>2
  <2>2. QED
    BY <1>7, <2>1 DEF SettingCallback
<1>8. CASE set_softap_dhcp_server_state \/ SettingWrite \/ SettingAsk \/ SettingStore
  BY <1>8 DEF set_softap_dhcp_server_state, SettingWrite, SettingAsk, SettingStore
<1>9. CASE UNCHANGED switchVars
  BY <1>9 DEF switchVars
<1>10. CASE ApStarted \/ ApStopped
  BY <1>1, <1>10 DEF ApStarted, ApStopped
<1>11. QED
  BY ONLY [SwitchNext]_switchVars, <1>3, <1>4, <1>5, <1>6, <1>7, <1>8, <1>9, <1>10
     DEF SwitchNext, EventsTask, SettingTask

\* The variables keep their types: no mailbox and no queue overflows.
THEOREM SwitchTypeCorrect == SwitchSpec => []SwitchTypeOK
<1>1. SwitchInit => SwitchTypeOK
  <2> SUFFICES ASSUME SwitchInit PROVE SwitchTypeOK
    OBVIOUS
  <2>1. \A n \in Nat : Len(<<>>) <= n
    OBVIOUS
  <2>2. mbox \in Seq({"START", "STOP"}) /\ Len(mbox) <= MboxMax
    BY <2>1, SwitchAssumption DEF SwitchInit
  <2>3. ap_events \in Seq({"up", "down"}) /\ Len(ap_events) <= ApMax
    BY <2>1, SwitchAssumption DEF SwitchInit
  <2>4. QED
    BY <2>2, <2>3 DEF SwitchInit, SwitchTypeOK, EvPcs, SettingPcs
<1>2. SwitchTypeOK /\ [SwitchNext]_switchVars => SwitchTypeOK'
  BY SwitchTypeKept
<1>3. QED
  BY <1>1, <1>2, PTL DEF SwitchSpec

\* The flag, or what is about to be stored in it, follows the last callback.
LEMMA FlagKept ==
  ASSUME SwitchTypeOK, FlagInv, [SwitchNext]_switchVars
  PROVE  FlagInv'
<1> SUFFICES ASSUME ~crossed'
             PROVE  /\ ~(ev' \in {"started", "stopped"} /\ cli' = "stopped")
                    /\ mbox' = <<>> /\ running' => Known'
                    /\ mbox' # <<>> => (mbox'[Len(mbox')] = "START" <=> Known')
  BY DEF FlagInv
<1>0. mbox \in Seq({"START", "STOP"}) /\ dhcp_server_started \in BOOLEAN /\ crossed \in BOOLEAN
  BY DEF SwitchTypeOK
<1>1. ASSUME NEW type \in {"START", "STOP"}, NEW overlap \in BOOLEAN, Queue(type, overlap)
      PROVE  mbox' # <<>> /\ mbox'[Len(mbox')] = type /\ ~overlap /\ ~crossed
  BY <1>0, <1>1, SeqFacts DEF Queue
<1>2. ~crossed
  <2>1. CASE EventsCallback
    BY <1>1, <2>1 DEF EventsCallback, Refused
  <2>2. CASE SettingCallback
    BY <2>2 DEF SettingCallback, Queue, Refused
  <2>3. CASE UNCHANGED crossed
    BY <2>3
  <2>4. QED
    BY <2>1, <2>2, <2>3
       DEF SwitchNext, EventsTask, SettingTask, ApStarted, ApStopped, ApIndication,
          RunCallback, TakeMessage, TestSetting, EventsStore, set_softap_dhcp_server_state,
          SettingWrite, SettingAsk, SettingStore, switchVars
<1>3. /\ ~(ev \in {"started", "stopped"} /\ cli = "stopped")
      /\ mbox = <<>> /\ running => Known
      /\ mbox # <<>> => (mbox[Len(mbox)] = "START" <=> Known)
  BY <1>2 DEF FlagInv
<1>4. CASE RunCallback
  <2>1. Known' = Known
    BY <1>4 DEF RunCallback, Known
  <2>2. mbox # <<>> /\ mbox' = Tail(mbox) /\ UNCHANGED <<ev, cli>>
    BY <1>4 DEF RunCallback
  <2>3. mbox' # <<>> => mbox'[Len(mbox')] = mbox[Len(mbox)]
    BY <1>0, <2>2, SeqFacts
  <2>4. mbox' = <<>> /\ running' => Head(mbox) = "START" /\ mbox[Len(mbox)] = "START"
    BY <1>0, <1>4, <2>2, SeqFacts DEF RunCallback
  <2>5. QED
    BY <1>3, <2>1, <2>2, <2>3, <2>4
<1>5. CASE EventsCallback
  <2>1. CASE Refused
    <3>1. /\ ev \notin {"started", "stopped"} /\ ev' \notin {"started", "stopped"}
          /\ UNCHANGED <<mbox, running, dhcp_server_started, cli>>
      BY <1>5, <2>1, SeqFacts, <1>0 DEF EventsCallback, Refused, Queue
    <3>2. Known' <=> Known
      BY <3>1 DEF Known
    <3>3. QED
      BY <1>3, <3>1, <3>2
  <2>2. CASE ev = "start" /\ Queue("START", cli = "stopped") /\ ev' = "started"
    BY <1>1, <1>5, <2>2 DEF EventsCallback, Known
  <2>3. CASE ev = "stop" /\ Queue("STOP", cli = "stopped") /\ ev' = "stopped"
    BY <1>1, <1>5, <2>3 DEF EventsCallback, Known
  <2>4. QED
    BY <1>3, <1>5, <2>1, <2>2, <2>3 DEF EventsCallback
<1>6. CASE SettingCallback
  <2>1. CASE Refused
    <3>1. /\ cli # "stopped" /\ cli' # "stopped"
          /\ UNCHANGED <<mbox, running, dhcp_server_started, ev>>
      BY <1>6, <2>1, SeqFacts, <1>0 DEF SettingCallback, Refused, Queue
    <3>2. Known' <=> Known
      BY <3>1 DEF Known
    <3>3. QED
      BY <1>3, <3>1, <3>2
  <2>2. CASE Queue("STOP", ev \in {"started", "stopped"}) /\ cli' = "stopped"
    <3>1. mbox' = Append(mbox, "STOP") /\ ev \notin {"started", "stopped"}
      BY <2>2 DEF Queue
    <3>2. mbox' # <<>> /\ mbox'[Len(mbox')] = "STOP"
      BY <1>0, <3>1, SeqFacts
    <3>3. ev' = ev
      BY <1>6 DEF SettingCallback
    <3>4. ~Known'
      BY <2>2, <3>1, <3>3 DEF Known
    <3>5. QED
      BY <3>1, <3>2, <3>3, <3>4
  <2>3. QED
    BY <1>3, <1>6, <2>1, <2>2 DEF SettingCallback
<1>7. CASE EventsStore \/ SettingStore
  <2>1. /\ Known' <=> Known
        /\ ~(ev' \in {"started", "stopped"} /\ cli' = "stopped")
    BY <1>3, <1>7 DEF EventsStore, SettingStore, Known
  <2>2. UNCHANGED <<mbox, running>>
    BY <1>7 DEF EventsStore, SettingStore
  <2>3. QED
    BY <1>3, <2>1, <2>2
<1>8. CASE UNCHANGED <<mbox, running, dhcp_server_started>>
  <2>1. CASE UNCHANGED <<ev, cli>>
    BY <1>3, <1>8, <2>1 DEF Known
  <2>2. CASE TakeMessage \/ TestSetting
    <3>1. ev' \notin {"started", "stopped"}
      <4>1. TakeMessage => ev' \in {"up", "down"}
        BY SeqFacts DEF TakeMessage, SwitchTypeOK
      <4>2. QED
        BY <2>2, <4>1 DEF TestSetting
    <3>2. ev \notin {"started", "stopped"} /\ cli' = cli
      BY <2>2 DEF TakeMessage, TestSetting
    <3>3. QED
      BY <1>3, <1>8, <3>1, <3>2 DEF Known
  <2>3. CASE set_softap_dhcp_server_state \/ SettingWrite \/ SettingAsk
    <3>1. cli # "stopped" /\ cli' # "stopped" /\ ev' = ev
      BY <2>3 DEF set_softap_dhcp_server_state, SettingWrite, SettingAsk
    <3>2. QED
      BY <1>3, <1>8, <3>1 DEF Known
  <2>4. CASE EventsStore \/ SettingStore \/ EventsCallback \/ SettingCallback \/ RunCallback
    BY ONLY <1>4, <1>5, <1>6, <1>7, <2>4
  <2>5. QED
    BY <2>1, <2>2, <2>3, <2>4 DEF SwitchNext, EventsTask, SettingTask, ApStarted, ApStopped,
          ApIndication, switchVars
<1>9. QED
  BY <1>4, <1>5, <1>6, <1>7, <1>8
     DEF SwitchNext, EventsTask, SettingTask, ApStarted, ApStopped, ApIndication, TakeMessage,
         TestSetting, set_softap_dhcp_server_state, SettingWrite, SettingAsk, switchVars

\* The inductive invariant of the flag, for every mailbox and queue.
THEOREM FlagInvariant == SwitchSpec => []FlagInv
<1>1. SwitchInit => FlagInv
  BY DEF SwitchInit, FlagInv, Known
<1>2. SwitchTypeOK /\ FlagInv /\ [SwitchNext]_switchVars => FlagInv'
  BY FlagKept
<1>3. QED
  BY <1>1, <1>2, SwitchTypeCorrect, PTL DEF SwitchSpec

\* A running server is known, but between the callback and the store of the flag.
THEOREM RunningKnown == SwitchSpec => []RunningIsKnown
<1>1. SwitchTypeOK /\ FlagInv => RunningIsKnown
  BY DEF SwitchTypeOK, FlagInv, RunningIsKnown, Known
<1>2. QED
  BY <1>1, SwitchTypeCorrect, FlagInvariant, PTL

-----------------------------------------------------------------------------
(* The client of the station.                                                  *)

\* The task starts in the state OFF with the engine stopped.
LEMMA ClientInitIInv == ClientInit => ClientIInv
<1> SUFFICES ASSUME ClientInit PROVE ClientIInv
  OBVIOUS
<1>1. wifi_events \in Seq({"connect", "disconnect"})
  BY DEF ClientInit
<1>2. ClientTypeOK
  BY <1>1 DEF ClientInit, ClientTypeOK, DhcpStates, TaskPcs, EventsPcs, CliPcs
<1>3. QED
  BY <1>2 DEF ClientInit, ClientIInv, StateMatchesEngine, NoLeaseAfterTimeout

\* A step of the DHCP client task or of lwIP's engine keeps the invariant.
LEMMA TaskStepIInv ==
  ASSUME ClientIInv, TaskStep \/ EngineStep
  PROVE  ClientIInv'
<1> USE ClientAssumption
    DEF ClientIInv, ClientTypeOK, StateMatchesEngine, NoLeaseAfterTimeout, DhcpStates, TaskPcs,
        EventsPcs, CliPcs, wifiVars, engineVars, pcs
<1>1. CASE PollStart \/ PollWait \/ TestTries \/ PollDown
  BY <1>1 DEF PollStart, PollWait, TestTries, PollDown
<1>2. CASE DhcpStart
  BY <1>2 DEF DhcpStart, EngineStart
<1>3. CASE SetWait
  BY <1>3 DEF SetWait, Assign
<1>4. CASE SetAssigned
  BY <1>4 DEF SetAssigned, Assign
<1>5. CASE SetTimeout
  BY <1>5 DEF SetTimeout, Assign
<1>6. CASE SetOff
  BY <1>6 DEF SetOff, Assign
<1>7. CASE StopInHandler
  BY <1>7 DEF StopInHandler, EngineStop
<1>8. CASE TimeoutAddress
  BY <1>8 DEF TimeoutAddress
<1>9. CASE EngineTry
  BY <1>9 DEF EngineTry
<1>10. CASE EngineOffer
  BY <1>10 DEF EngineOffer
<1>11. CASE EngineBind
  BY <1>11 DEF EngineBind
<1>12. QED
  BY <1>1, <1>2, <1>3, <1>4, <1>5, <1>6, <1>7, <1>8, <1>9, <1>10, <1>11
     DEF TaskStep, EngineStep

\* An indication, the events task and the CLI keep the invariant, although they
\* write dhcp_state wherever the task is.
LEMMA ElsewhereIInv ==
  ASSUME ClientIInv, EventsStep \/ CliTest \/ CliStep \/ ConnectInd \/ DisconnectInd
  PROVE  ClientIInv'
<1> USE DEF ClientIInv, wifiVars, engineVars, pcs
<1>1. wifi_events' \in Seq({"connect", "disconnect"})
  <2>1. wifi_events \in Seq({"connect", "disconnect"})
    BY DEF ClientTypeOK
  <2>2. CASE NetifSetUp \/ TestDown
    BY <2>1, <2>2 DEF NetifSetUp, TestDown
  <2>3. CASE \E event \in {"connect", "disconnect"}, c \in BOOLEAN : Indicate(event, c)
    BY <2>1, <2>3 DEF Indicate
  <2>4. CASE UNCHANGED wifi_events
    BY <2>1, <2>4
  <2>5. ConnectInd \/ DisconnectInd =>
          \E event \in {"connect", "disconnect"}, c \in BOOLEAN : Indicate(event, c)
    BY DEF ConnectInd, DisconnectInd
  <2>6. QED
    BY <2>2, <2>3, <2>4, <2>5
       DEF EventsStep, TestUp, SetStart, SetDown, NetifSetDown, CliTest, CliStep,
           CliSetUse, CliSetState, CliSetAddress
<1>2. CASE UNCHANGED <<dhcp_state, engine, tpc, addr, tries>>
  <2>1. ClientTypeOK'
    <3>1. CASE EventsStep
      BY <1>1, <1>2, <3>1 DEF EventsStep, NetifSetUp, TestUp, SetStart, TestDown, SetDown,
                              NetifSetDown, ClientTypeOK, EventsPcs
    <3>2. CASE CliTest \/ CliStep
      BY <1>1, <1>2, <3>2 DEF CliTest, CliStep, CliSetUse, CliSetState, CliSetAddress,
                              ClientTypeOK, CliPcs
    <3>3. CASE ConnectInd \/ DisconnectInd
      BY <1>1, <1>2, <3>3 DEF ConnectInd, DisconnectInd, Indicate, ClientTypeOK
    <3>4. QED
      BY <3>1, <3>2, <3>3
  <2>2. QED
    BY <1>2, <2>1 DEF StateMatchesEngine, NoLeaseAfterTimeout
<1>3. CASE SetStart \/ SetDown \/ CliSetState
  BY <1>1, <1>3 DEF SetStart, SetDown, CliSetState, ClientTypeOK, DhcpStates, EventsPcs, CliPcs,
                    StateMatchesEngine, NoLeaseAfterTimeout
<1>4. CASE CliSetAddress
  BY <1>1, <1>4 DEF CliSetAddress, ClientTypeOK, CliPcs, StateMatchesEngine, NoLeaseAfterTimeout
<1>5. QED
  BY <1>2, <1>3, <1>4
     DEF EventsStep, NetifSetUp, TestUp, TestDown, NetifSetDown, CliTest, CliStep,
         CliSetUse, ConnectInd, DisconnectInd, Indicate

\* ClientIInv is an invariant of the client, for all schedules.
THEOREM ClientIInvInvariant == ClientSpec => []ClientIInv
<1>1. ClientIInv /\ UNCHANGED clientVars => ClientIInv'
  BY DEF ClientIInv, ClientTypeOK, StateMatchesEngine, NoLeaseAfterTimeout, clientVars, wifiVars,
         engineVars, pcs
<1>2. ClientIInv /\ [ClientNext]_clientVars => ClientIInv'
  BY <1>1, TaskStepIInv, ElsewhereIInv DEF ClientNext
<1>3. QED
  BY <1>2, ClientInitIInv, PTL DEF ClientSpec

\* The variables keep their types.
THEOREM ClientTypeCorrect == ClientSpec => []ClientTypeOK
<1>1. ClientIInv => ClientTypeOK
  BY DEF ClientIInv
<1>2. QED
  BY <1>1, ClientIInvInvariant, PTL

\* The state agrees with the engine, whatever notification was overwritten.
THEOREM StateAgrees == ClientSpec => []StateMatchesEngine
<1>1. ClientIInv => StateMatchesEngine
  BY DEF ClientIInv
<1>2. QED
  BY <1>1, ClientIInvInvariant, PTL

\* An answer that races the timeout leaves no lease behind.
THEOREM TimeoutDropsLease == ClientSpec => []NoLeaseAfterTimeout
<1>1. ClientIInv => NoLeaseAfterTimeout
  BY DEF ClientIInv
<1>2. QED
  BY <1>1, ClientIInvInvariant, PTL
=============================================================================
