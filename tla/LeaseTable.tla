------------------------------ MODULE LeaseTable ------------------------------
(***************************************************************************)
(* What a DHCP server promises of its leases: a client has at most one     *)
(* address, an address at most one client, and an address changes hands    *)
(* only by being revoked first.                                            *)
(***************************************************************************)

CONSTANTS
  Macs,    \* the clients
  Addrs,   \* the addresses
  NoAddr   \* "no lease"

VARIABLE
  lease    \* lease[m]: the address of client m, or NoAddr

LeaseType == lease \in [Macs -> Addrs \cup {NoAddr}]

LeaseInit == lease = [m \in Macs |-> NoAddr]

Assign(m, a) ==
  /\ lease[m] = NoAddr
  /\ \A n \in Macs : lease[n] # a
  /\ lease' = [lease EXCEPT ![m] = a]

Revoke(S) == lease' = [m \in Macs |-> IF m \in S THEN NoAddr ELSE lease[m]]

LeaseNext ==
  \/ \E m \in Macs, a \in Addrs : Assign(m, a)
  \/ \E S \in SUBSET Macs : Revoke(S)

LeaseSpec == LeaseInit /\ [][LeaseNext]_lease
=============================================================================
