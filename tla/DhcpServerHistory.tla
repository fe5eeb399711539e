------------------------- MODULE DhcpServerHistory -------------------------
(***************************************************************************)
(* DhcpServer with the answers it sends and a history of the addresses it  *)
(* has promised: what the lease time of an ACK says, as a property.  The   *)
(* clients are the environment.                                            *)
(***************************************************************************)
EXTENDS DhcpServer

VARIABLES
  lease,    \* lease[m]: the address the last ACK promised to client m, or NoAddr
  asking    \* the client that will hear the answer in preparation, or NoMac

history == <<lease, asking>>

NoLeases == [m \in Macs |-> NoAddr]

HistoryInit == Init /\ lease = NoLeases /\ asking = NoMac

\* The messages of a client, req being the content of option 50.  A renewal carries
\* the address elsewhere and has no option 50; RELEASE is of an "OTHER" type.
Messages == [type : {"DISCOVER", "REQUEST", "OTHER"}, req : Slots \cup {NoAddr}]

\* The switch on the message type: what is sent to the client.
Answer(msg, ip) ==
  CASE msg.type = "DISCOVER"                      -> "OFFER"
    [] msg.type = "REQUEST" /\ msg.req = ip       -> "ACK"
    [] msg.type = "REQUEST" /\ msg.req \in Slots \ {ip} -> "NAK"
    [] OTHER                                      -> "none"

\* The client hears the answer: an ACK promises the address for a day, a NAK or
\* the client's own RELEASE ends the promise.
Heard(msg, answer) ==
  lease' = [lease EXCEPT ![th.mac] = CASE answer = "ACK" -> th.ip
                                       [] answer = "NAK" \/ msg.type = "OTHER" -> NoAddr
                                       [] OTHER -> @]

Asks(m) == Receive(m) /\ asking' = m /\ UNCHANGED lease

\* An answer is lost, or its client hears it if it has not left meanwhile.
Answered ==
  /\ Reply
  /\ \/ UNCHANGED lease
     \/ asking = th.mac /\ \E msg \in Messages : Heard(msg, Answer(msg, th.ip))
  /\ asking' = NoMac

\* A promise ends with the client's association ...
Leaves(m) ==
  /\ ClientGone(m)
  /\ lease' = [lease EXCEPT ![m] = NoAddr]
  /\ asking' = IF asking = m THEN NoMac ELSE asking

\* ... with the SoftAP or with this run of the server.
Restart ==
  /\ ApGone \/ StartPrv \/ StopPrv
  /\ lease' = NoLeases /\ asking' = NoMac

\* Here no other task runs while the bus task walks the table: what the property
\* finds needs no race.
HistoryNext ==
  \/ /\ bus = Rest
     /\ \/ Answered \/ Restart
        \/ \E m \in Macs : Asks(m) \/ Leaves(m)
        \/ (RemoveStep \/ StoreStep \/ LookupStep) /\ UNCHANGED history
  \/ (BusTest \/ BusErase \/ BusClear) /\ UNCHANGED history

HistorySpec == HistoryInit /\ [][HistoryNext]_<<vars, history>>

\* An address that was promised to a client for the lease time (LEASE_TIME_1DAY,
\* dhcp_server.c 63 and 415) is not promised to another one while the first is
\* associated, the server runs and no NAK or RELEASE has taken it back.
AddressUnique ==
  \A m, n \in Macs : lease[m] # NoAddr /\ lease[m] = lease[n] => m = n
=============================================================================
