------------------------------ MODULE DhcpServer ------------------------------
(***************************************************************************)
(* The table of the SoftAP's DHCP server (lwip_host/apps/dhcp_server.c):   *)
(* saved_mac has one slot for each address of the pool.  Two tasks work on *)
(* it with no lock.  The TCP/IP thread runs the packet handler and the     *)
(* callbacks that start and stop the server, one after the other.  The     *)
(* Wi-Fi bus task takes one client or all of them out of the table when    *)
(* the chip indicates that they are gone.  Both walk the table one slot    *)
(* per step, and each may run between any two steps of the other.          *)
(*                                                                         *)
(* Packets, callbacks and indications come in any order.  Who queues the   *)
(* callbacks is the subject of DhcpSwitch, what the clients make of the    *)
(* answers that of DhcpServerHistory.                                      *)
(***************************************************************************)
EXTENDS Integers, FiniteSets

CONSTANTS
  Macs,      \* MAC addresses of the clients
  NoMac,     \* six zero bytes: a free slot
  N,         \* DHCPS_MAX_CLIENT
  NoAddr     \* address 0.0.0.0

\* Slot i is the address whose last byte is 10 + i.
Slots == 0 .. N - 1

ASSUME ServerAssumption ==
  /\ NoMac \notin Macs
  /\ N \in Nat \ {0}
  /\ NoAddr \notin Slots

VARIABLES
  saved_mac,   \* the table: MAC address saved in each slot
  dhcp_pcb,    \* whether the UDP control block exists
  arp,         \* static ARP entries: arp[i] is the MAC of address i
  th,          \* the handler: program counter, loop index, sender, client_ip_addr
  bus          \* the bus task: program counter, loop index, client to remove

vars == <<saved_mac, dhcp_pcb, arp, th, bus>>

Idle == [pc |-> "idle", i |-> 0, mac |-> NoMac, ip |-> NoAddr]
HandlerPcs == {"remove", "store", "lookup", "reply"}
Walks == [pc : HandlerPcs, i : Slots, mac : Macs, ip : Slots \cup {NoAddr}]

Rest == [pc |-> "rest", i |-> 0, mac |-> NoMac]
BusWalks ==
  [pc : {"test", "erase"}, i : Slots, mac : Macs] \cup [pc : {"clear"}, i : Slots, mac : {NoMac}]

TypeOK ==
  /\ saved_mac \in [Slots -> Macs \cup {NoMac}]
  /\ dhcp_pcb \in BOOLEAN
  /\ arp \in [Slots -> Macs \cup {NoMac}]
  /\ th = Idle \/ th \in Walks
  /\ bus = Rest \/ bus \in BusWalks

NoMacs == [s \in Slots |-> NoMac]

Init ==
  /\ saved_mac = NoMacs
  /\ dhcp_pcb = FALSE
  /\ arp = NoMacs
  /\ th = Idle
  /\ bus = Rest

-----------------------------------------------------------------------------
(* The TCP/IP thread: dhcpserver_fn. *)

\* lwIP calls the handler while the control block exists; a handler that gets no
\* buffer for the answer gives up before it touches the table.
Receive(m) ==
  /\ th = Idle
  /\ dhcp_pcb
  /\ th' = [pc |-> "remove", i |-> 0, mac |-> m, ip |-> NoAddr]
  /\ UNCHANGED <<saved_mac, dhcp_pcb, arp, bus>>

\* Mutant: a loop runs one slot too far (<= instead of <).
AdvanceTooFar(next) ==
  th' = IF th.i < N THEN [th EXCEPT !.i = @ + 1]
        ELSE IF next = "end" THEN Idle
        ELSE [th EXCEPT !.pc = next, !.i = 0]

\* The loop index moves on, or the next loop starts, or the handler ends.
Advance(next) ==
  th' = IF th.i < N - 1 THEN [th EXCEPT !.i = @ + 1]
        ELSE IF next = "end" THEN Idle
        ELSE [th EXCEPT !.pc = next, !.i = 0]

\* Mutant: the previous listing is looked for in the first slot only.
RemoveStepFirst ==
  /\ th.pc = "remove"
  /\ saved_mac' = IF saved_mac[th.i] = th.mac
                  THEN [saved_mac EXCEPT ![th.i] = NoMac] ELSE saved_mac
  /\ th' = [th EXCEPT !.pc = "store", !.i = 0]
  /\ UNCHANGED <<dhcp_pcb, arp, bus>>

\* dhcpserver_save_mac first removes the MAC wherever it is listed ...  (The
\* handler's test of a slot and its store are one step: the bus task only frees
\* slots, which between the two changes nothing.)
RemoveStep ==
  /\ th.pc = "remove"
  /\ saved_mac' = IF saved_mac[th.i] = th.mac
                  THEN [saved_mac EXCEPT ![th.i] = NoMac] ELSE saved_mac
  /\ Advance("store")
  /\ UNCHANGED <<dhcp_pcb, arp, bus>>

\* Mutant: the MAC is saved in a slot another client holds.
StoreStepAnywhere ==
  /\ th.pc = "store"
  /\ saved_mac' = [saved_mac EXCEPT ![th.i] = th.mac]
  /\ th' = [th EXCEPT !.pc = "lookup", !.i = 0]
  /\ UNCHANGED <<dhcp_pcb, arp, bus>>

\* Mutant: the break is missing, every free slot is filled.
StoreStepNoBreak ==
  /\ th.pc = "store"
  /\ saved_mac' = IF saved_mac[th.i] = NoMac
                  THEN [saved_mac EXCEPT ![th.i] = th.mac] ELSE saved_mac
  /\ Advance("lookup")
  /\ UNCHANGED <<dhcp_pcb, arp, bus>>

\* ... then saves it in the first free slot; a full table saves it nowhere.
StoreStep ==
  /\ th.pc = "store"
  /\ IF saved_mac[th.i] = NoMac
     THEN /\ saved_mac' = [saved_mac EXCEPT ![th.i] = th.mac]
          /\ th' = [th EXCEPT !.pc = "lookup", !.i = 0]
     ELSE /\ Advance("lookup")
          /\ UNCHANGED saved_mac
  /\ UNCHANGED <<dhcp_pcb, arp, bus>>

\* Mutant: the first listed client is taken for this one.
LookupStepAny ==
  /\ th.pc = "lookup"
  /\ IF saved_mac[th.i] # NoMac
     THEN th' = [th EXCEPT !.pc = "reply", !.ip = th.i]
     ELSE Advance("end")
  /\ UNCHANGED <<saved_mac, dhcp_pcb, arp, bus>>

\* dhcpserver_get_ip: the slot of the MAC is the address; without one, the end.
LookupStep ==
  /\ th.pc = "lookup"
  /\ IF saved_mac[th.i] = th.mac
     THEN th' = [th EXCEPT !.pc = "reply", !.ip = th.i]
     ELSE Advance("end")
  /\ UNCHANGED <<saved_mac, dhcp_pcb, arp, bus>>

\* Mutant: an ARP entry, once made, is not updated.
ReplyKeepArp ==
  /\ th.pc = "reply"
  /\ arp' = IF arp[th.ip] = NoMac THEN [arp EXCEPT ![th.ip] = th.mac] ELSE arp
  /\ th' = Idle
  /\ UNCHANGED <<saved_mac, dhcp_pcb, bus>>

\* The static ARP entry, whatever the message is, then the answer.
Reply ==
  /\ th.pc = "reply"
  /\ arp' = [arp EXCEPT ![th.ip] = th.mac]
  /\ th' = Idle
  /\ UNCHANGED <<saved_mac, dhcp_pcb, bus>>

\* dhcpserver_start_prv; udp_new may find no memory.  (The loops of the two
\* callbacks are one step: the bus task's only free slots, too.)
StartPrv ==
  /\ th = Idle
  /\ saved_mac' = NoMacs
  /\ dhcp_pcb' \in {dhcp_pcb, TRUE}
  /\ UNCHANGED <<arp, th, bus>>

\* dhcpserver_stop_prv.
StopPrv ==
  /\ th = Idle
  /\ saved_mac' = IF dhcp_pcb THEN NoMacs ELSE saved_mac
  /\ dhcp_pcb' = FALSE
  /\ UNCHANGED <<arp, th, bus>>

\* set_ap_link_down takes ap_netif down; lwIP then forgets its ARP entries.
ArpCleared ==
  /\ th = Idle
  /\ arp' = NoMacs
  /\ UNCHANGED <<saved_mac, dhcp_pcb, th, bus>>

-----------------------------------------------------------------------------
(* The bus task: callbacks of the indications about the SoftAP.  No guard but  *)
(* that it runs one callback after the other.                                  *)

\* A client disconnects or is rejected: dhcpserver_remove_mac.
ClientGone(m) ==
  /\ bus = Rest
  /\ bus' = [pc |-> "test", i |-> 0, mac |-> m]
  /\ UNCHANGED <<saved_mac, dhcp_pcb, arp, th>>

\* The SoftAP stops: dhcpserver_clear_stored_mac.
ApGone ==
  /\ bus = Rest
  /\ bus' = [pc |-> "clear", i |-> 0, mac |-> NoMac]
  /\ UNCHANGED <<saved_mac, dhcp_pcb, arp, th>>

BusAdvance(pc) ==
  bus' = IF bus.i < N - 1 THEN [bus EXCEPT !.pc = pc, !.i = @ + 1] ELSE Rest

\* The test of a slot, and the store that relies on it: the handler may have given
\* the slot to another client in between.
BusTest ==
  /\ bus.pc = "test"
  /\ IF saved_mac[bus.i] = bus.mac
     THEN bus' = [bus EXCEPT !.pc = "erase"]
     ELSE BusAdvance("test")
  /\ UNCHANGED <<saved_mac, dhcp_pcb, arp, th>>

BusFree(pc, next) ==
  /\ bus.pc = pc
  /\ saved_mac' = [saved_mac EXCEPT ![bus.i] = NoMac]
  /\ BusAdvance(next)
  /\ UNCHANGED <<dhcp_pcb, arp, th>>

BusErase == BusFree("erase", "test")
BusClear == BusFree("clear", "clear")

-----------------------------------------------------------------------------
WalkStep == RemoveStep \/ StoreStep \/ LookupStep \/ Reply
CallbackStep == StartPrv \/ StopPrv \/ ArpCleared
BusStep == ApGone \/ BusTest \/ BusErase \/ BusClear

Next ==
  \/ WalkStep \/ CallbackStep \/ BusStep
  \/ \E m \in Macs : Receive(m) \/ ClientGone(m)

Spec == Init /\ [][Next]_vars

-----------------------------------------------------------------------------
(* Properties. *)

\* A MAC address is listed once, although the bus task frees slots while the
\* handler walks the table (dhcp_server.c 70-107).
NoDuplicateMac ==
  \A s, t \in Slots : saved_mac[s] # NoMac /\ saved_mac[s] = saved_mac[t] => s = t

\* The address an answer is about to carry is the client's own slot, or a slot
\* the bus task has freed since: never one another client holds (lines 242-246).
AnswersOwnSlot ==
  th.pc = "reply" => saved_mac[th.ip] \in {th.mac, NoMac}

\* With no more clients than slots the save loop always ends on a free slot:
\* nobody is refused an address while it walks (lines 94-106).
RoomForAll ==
  th.pc = "store" => \E s \in th.i .. N - 1 : saved_mac[s] = NoMac

\* A listed client's address never has another client's static ARP entry, although
\* the server removes none (line 250) and slots change hands by renewals,
\* indications and restarts: what the SoftAP sends to an address that
\* softap.client_list shows does not go to another client than the one shown with
\* it.  Only the client the handler is serving has to wait for the end of the walk.
ArpAgrees ==
  \A s \in Slots : saved_mac[s] \notin {NoMac, th.mac} => arp[s] \in {saved_mac[s], NoMac}

\* The inductive invariant of the table: between the two loops of a save the MAC
\* is listed nowhere, behind the index of the first loop neither; an answer has
\* an address; a server without a control block lists nobody and runs no handler.
WalkInv ==
  /\ th.pc = "remove" => \A s \in 0 .. th.i - 1 : saved_mac[s] # th.mac
  /\ th.pc = "store" => \A s \in Slots : saved_mac[s] # th.mac
  /\ th.pc = "reply" => th.ip \in Slots
  /\ ~dhcp_pcb => th = Idle /\ saved_mac = NoMacs

IInv == TypeOK /\ NoDuplicateMac /\ AnswersOwnSlot /\ WalkInv

\* Behind RoomForAll: a slot the save loop has passed was some other client's, so
\* is each occupied slot ahead of it, and no two were the same client's.
Ahead == {s \in Slots : s >= th.i /\ saved_mac[s] # NoMac}
RoomInv == th.pc = "store" => Cardinality(Ahead) + th.i < Cardinality(Macs)

\* Behind ArpAgrees: the search has not passed the client's slot, and the
\* client is listed nowhere but at the address of its answer.
SearchInv ==
  /\ th.pc = "lookup" => \A s \in 0 .. th.i - 1 : saved_mac[s] # th.mac
  /\ th.pc = "reply" => \A s \in Slots \ {th.ip} : saved_mac[s] # th.mac

ArpInv == SearchInv /\ ArpAgrees

\* The table is a lease table, whatever the bus task does during a walk.
LeaseOf(m) ==
  IF \E s \in Slots : saved_mac[s] = m
  THEN CHOOSE s \in Slots : saved_mac[s] = m
  ELSE NoAddr

Lease == INSTANCE LeaseTable
           WITH Addrs <- Slots, lease <- [m \in Macs |-> LeaseOf(m)]
ImplementsLease == Lease!LeaseSpec
=============================================================================
