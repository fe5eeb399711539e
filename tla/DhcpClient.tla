------------------------------ MODULE DhcpClient ------------------------------
(***************************************************************************)
(* The DHCP client of the station (lwip_host/apps/dhcp_client.c): a task   *)
(* that polls dhcp_state every 250 ms and drives lwIP's DHCP engine.  The  *)
(* events task (set_sta_link_up and set_sta_link_down, wifi_cli_lwip.c)    *)
(* and the CLI (set_station_dhcp_client_state) notify it by writing the    *)
(* same variable, which nothing protects: the task itself overwrites it at *)
(* the end of a handler that called into the TCP/IP thread.                *)
(*                                                                         *)
(* The engine belongs to lwIP and is modelled from how the task uses it.   *)
(***************************************************************************)
EXTENDS Naturals, Sequences

CONSTANTS
  MaxTries,    \* MAX_DHCP_TRIES
  MaxEvents    \* bound on the indications that wait for the events task

ASSUME ClientAssumption ==
  /\ MaxTries \in Nat
  /\ MaxEvents \in Nat

VARIABLES
  sta_connected,    \* SL_WFX_STA_INTERFACE_CONNECTED of wifi.state
  wifi_events,      \* station indications queued for the events task
  use_dhcp_client,  \* the CLI's setting station.dhcp_client
  netif_up,         \* whether sta_netif and its link are up
  addr,             \* address of sta_netif
  dhcp_state,
  engine,           \* lwIP's DHCP engine
  tries,            \* dhcp->tries
  tpc,              \* where the DHCP client task is
  epc,              \* where the events task is
  cpc               \* where the CLI is

wifiVars == <<sta_connected, wifi_events>>
engineVars == <<engine, tries>>
pcs == <<tpc, epc, cpc>>
clientVars == <<wifiVars, use_dhcp_client, netif_up, addr, dhcp_state, engineVars, pcs>>

DhcpStates == {"OFF", "START", "WAIT_ADDRESS", "ADDRESS_ASSIGNED", "TIMEOUT", "LINK_DOWN"}
TaskPcs == {"poll", "dhcp_start", "set_wait", "set_assigned", "test_tries",
            "set_timeout", "timeout_stop", "timeout_addr", "down_stop", "set_off"}
EventsPcs == {"idle", "test_up", "set_start", "set_down", "netif_down"}
CliPcs == {"idle", "set_use", "off_state", "off_addr", "on_addr"}

ClientTypeOK ==
  /\ sta_connected \in BOOLEAN
  /\ wifi_events \in Seq({"connect", "disconnect"})
  /\ use_dhcp_client \in BOOLEAN
  /\ netif_up \in BOOLEAN
  /\ addr \in {"none", "static", "leased"}
  /\ dhcp_state \in DhcpStates
  /\ engine \in {"off", "trying", "bound"}
  /\ tries \in 0 .. MaxTries + 1
  /\ tpc \in TaskPcs
  /\ epc \in EventsPcs
  /\ cpc \in CliPcs

\* Before the first start the task reads dhcp->tries through a null pointer, and so
\* whatever the memory there holds.
ClientInit ==
  /\ sta_connected = FALSE
  /\ wifi_events = <<>>
  /\ use_dhcp_client = TRUE
  /\ netif_up = FALSE
  /\ addr = "none"
  /\ dhcp_state = "OFF"
  /\ engine = "off"
  /\ tries \in 0 .. MaxTries + 1
  /\ tpc = "poll"
  /\ epc = "idle"
  /\ cpc = "idle"

-----------------------------------------------------------------------------
(* lwIP's engine.  Only the DHCP client task starts and stops it. *)

\* netifapi_dhcp_start: refused while the interface is down.
EngineStart ==
  /\ engine' = IF netif_up THEN "trying" ELSE engine
  /\ tries' = IF netif_up THEN 0 ELSE tries

\* netifapi_dhcp_stop: a running engine may take its address away.
EngineStop ==
  /\ engine' = "off"
  /\ addr' \in IF engine = "off" THEN {addr} ELSE {addr, "none"}
  /\ UNCHANGED tries

\* Mutant: the count of tries goes on past the limit.
EngineTryUnbounded ==
  /\ engine = "trying"
  /\ tries' = tries + 1
  /\ UNCHANGED <<wifiVars, use_dhcp_client, netif_up, addr, dhcp_state, engine, pcs>>

\* No answer in time.
EngineTry ==
  /\ engine = "trying" /\ tries <= MaxTries
  /\ tries' = tries + 1
  /\ UNCHANGED <<wifiVars, use_dhcp_client, netif_up, addr, dhcp_state, engine, pcs>>

\* An offer starts the request: a new count of tries.
EngineOffer ==
  /\ engine = "trying" /\ netif_up
  /\ tries' = 0
  /\ UNCHANGED <<wifiVars, use_dhcp_client, netif_up, addr, dhcp_state, engine, pcs>>

EngineBind ==
  /\ engine = "trying" /\ netif_up
  /\ engine' = "bound"
  /\ addr' = "leased"
  /\ tries' = 0
  /\ UNCHANGED <<wifiVars, use_dhcp_client, netif_up, dhcp_state, pcs>>

-----------------------------------------------------------------------------
(* dhcp_client_task. *)

\* The switch.  START also clears the interface's addresses; WAIT_ADDRESS asks
\* the engine; OFF, ADDRESS_ASSIGNED and TIMEOUT do nothing until the next poll.
PollStart ==
  /\ tpc = "poll" /\ dhcp_state = "START"
  /\ addr' = "none"
  /\ tpc' = "dhcp_start"
  /\ UNCHANGED <<wifiVars, use_dhcp_client, netif_up, dhcp_state, engineVars, epc, cpc>>

\* The test for an address ...
PollWait ==
  /\ tpc = "poll" /\ dhcp_state = "WAIT_ADDRESS"
  /\ tpc' = IF engine = "bound" THEN "set_assigned" ELSE "test_tries"
  /\ UNCHANGED <<wifiVars, use_dhcp_client, netif_up, addr, dhcp_state, engineVars, epc, cpc>>

\* Mutant: the tries are not tested.
TestTriesNever ==
  /\ tpc = "test_tries"
  /\ tpc' = "poll"
  /\ UNCHANGED <<wifiVars, use_dhcp_client, netif_up, addr, dhcp_state, engineVars, epc, cpc>>

\* ... and, later, the test of the tries.
TestTries ==
  /\ tpc = "test_tries"
  /\ tpc' = IF tries > MaxTries THEN "set_timeout" ELSE "poll"
  /\ UNCHANGED <<wifiVars, use_dhcp_client, netif_up, addr, dhcp_state, engineVars, epc, cpc>>

PollDown ==
  /\ tpc = "poll" /\ dhcp_state = "LINK_DOWN"
  /\ tpc' = "down_stop"
  /\ UNCHANGED <<wifiVars, use_dhcp_client, netif_up, addr, dhcp_state, engineVars, epc, cpc>>

DhcpStart ==
  /\ tpc = "dhcp_start"
  /\ EngineStart
  /\ tpc' = "set_wait"
  /\ UNCHANGED <<wifiVars, use_dhcp_client, netif_up, addr, dhcp_state, epc, cpc>>

\* An assignment to dhcp_state, whatever another task has written since the poll.
Assign(pc, state, next) ==
  /\ tpc = pc
  /\ dhcp_state' = state
  /\ tpc' = next
  /\ UNCHANGED <<wifiVars, use_dhcp_client, netif_up, addr, engineVars, epc, cpc>>

SetWait == Assign("set_wait", "WAIT_ADDRESS", "poll")
SetAssigned == Assign("set_assigned", "ADDRESS_ASSIGNED", "poll")
SetTimeout == Assign("set_timeout", "TIMEOUT", "timeout_stop")
SetOff == Assign("set_off", "OFF", "poll")

\* Mutant: the link-down handler does not stop the engine.
StopInHandlerTimeoutOnly ==
  /\ \/ tpc = "timeout_stop" /\ tpc' = "timeout_addr" /\ EngineStop
     \/ tpc = "down_stop" /\ tpc' = "set_off" /\ UNCHANGED <<engineVars, addr>>
  /\ UNCHANGED <<wifiVars, use_dhcp_client, netif_up, dhcp_state, epc, cpc>>

StopInHandler ==
  /\ \/ tpc = "timeout_stop" /\ tpc' = "timeout_addr"
     \/ tpc = "down_stop" /\ tpc' = "set_off"
  /\ EngineStop
  /\ UNCHANGED <<wifiVars, use_dhcp_client, netif_up, dhcp_state, epc, cpc>>

\* Mutant: the address is left as dhcp_stop leaves it.
TimeoutAddressKept ==
  /\ tpc = "timeout_addr"
  /\ tpc' = "poll"
  /\ UNCHANGED <<wifiVars, use_dhcp_client, netif_up, addr, dhcp_state, engineVars, epc, cpc>>

\* After a timeout the static address is used.
TimeoutAddress ==
  /\ tpc = "timeout_addr"
  /\ addr' = "static"
  /\ tpc' = "poll"
  /\ UNCHANGED <<wifiVars, use_dhcp_client, netif_up, dhcp_state, engineVars, epc, cpc>>

-----------------------------------------------------------------------------
(* The bus task: the callbacks set the bit, then queue the indication. *)

Indicate(event, connected) ==
  /\ Len(wifi_events) < MaxEvents
  /\ sta_connected' = connected
  /\ wifi_events' = Append(wifi_events, event)
  /\ UNCHANGED <<use_dhcp_client, netif_up, addr, dhcp_state, engineVars, pcs>>

ConnectInd == ~sta_connected /\ Indicate("connect", TRUE)
DisconnectInd == sta_connected /\ Indicate("disconnect", FALSE)

-----------------------------------------------------------------------------
(* The events task. *)

\* set_sta_link_up: the interface comes first ...
NetifSetUp ==
  /\ epc = "idle" /\ wifi_events # <<>> /\ Head(wifi_events) = "connect"
  /\ wifi_events' = Tail(wifi_events)
  /\ netif_up' = TRUE
  /\ epc' = "test_up"
  /\ UNCHANGED <<sta_connected, use_dhcp_client, addr, dhcp_state, engineVars, tpc, cpc>>

\* ... then the test of use_dhcp_client ...
TestUp ==
  /\ epc = "test_up"
  /\ epc' = IF use_dhcp_client THEN "set_start" ELSE "idle"
  /\ UNCHANGED <<wifiVars, use_dhcp_client, netif_up, addr, dhcp_state, engineVars, tpc, cpc>>

\* ... and dhcpclient_set_link_state(1).
SetStart ==
  /\ epc = "set_start"
  /\ dhcp_state' = "START"
  /\ epc' = "idle"
  /\ UNCHANGED <<wifiVars, use_dhcp_client, netif_up, addr, engineVars, tpc, cpc>>

\* set_sta_link_down: the test, dhcpclient_set_link_state(0), the interface.
TestDown ==
  /\ epc = "idle" /\ wifi_events # <<>> /\ Head(wifi_events) = "disconnect"
  /\ wifi_events' = Tail(wifi_events)
  /\ epc' = IF use_dhcp_client THEN "set_down" ELSE "netif_down"
  /\ UNCHANGED <<sta_connected, use_dhcp_client, netif_up, addr, dhcp_state, engineVars, tpc, cpc>>

SetDown ==
  /\ epc = "set_down"
  /\ dhcp_state' = "LINK_DOWN"
  /\ epc' = "netif_down"
  /\ UNCHANGED <<wifiVars, use_dhcp_client, netif_up, addr, engineVars, tpc, cpc>>

NetifSetDown ==
  /\ epc = "netif_down"
  /\ netif_up' = FALSE
  /\ epc' = "idle"
  /\ UNCHANGED <<wifiVars, use_dhcp_client, addr, dhcp_state, engineVars, tpc, cpc>>

-----------------------------------------------------------------------------
(* The CLI: set_station_dhcp_client_state with the value the setting has not. *)

\* Accepted while the station's bit is clear.
CliTest ==
  /\ cpc = "idle" /\ ~sta_connected
  /\ cpc' = "set_use"
  /\ UNCHANGED <<wifiVars, use_dhcp_client, netif_up, addr, dhcp_state, engineVars, tpc, epc>>

CliSetUse ==
  /\ cpc = "set_use"
  /\ use_dhcp_client' = ~use_dhcp_client
  /\ cpc' = IF use_dhcp_client THEN "off_state" ELSE "on_addr"
  /\ UNCHANGED <<wifiVars, netif_up, addr, dhcp_state, engineVars, tpc, epc>>

CliSetState ==
  /\ cpc = "off_state"
  /\ dhcp_state' = "LINK_DOWN"
  /\ cpc' = "off_addr"
  /\ UNCHANGED <<wifiVars, use_dhcp_client, netif_up, addr, engineVars, tpc, epc>>

\* OFF restores the static address, ON clears it.
CliSetAddress ==
  /\ cpc \in {"off_addr", "on_addr"}
  /\ addr' = IF cpc = "off_addr" THEN "static" ELSE "none"
  /\ cpc' = "idle"
  /\ UNCHANGED <<wifiVars, use_dhcp_client, netif_up, dhcp_state, engineVars, tpc, epc>>

-----------------------------------------------------------------------------
TaskStep ==
  \/ PollStart \/ PollWait \/ TestTries \/ PollDown \/ DhcpStart \/ SetWait
  \/ SetAssigned \/ SetTimeout \/ SetOff \/ StopInHandler \/ TimeoutAddress

EventsStep ==
  \/ NetifSetUp \/ TestUp \/ SetStart \/ TestDown \/ SetDown \/ NetifSetDown

CliStep == CliSetUse \/ CliSetState \/ CliSetAddress

EngineStep == EngineTry \/ EngineOffer \/ EngineBind

ClientNext ==
  \/ TaskStep \/ EventsStep \/ CliTest \/ CliStep \/ EngineStep
  \/ ConnectInd \/ DisconnectInd

ClientSpec == ClientInit /\ [][ClientNext]_clientVars

\* The tasks run when they can and the engine's timer ticks; indications and
\* commands come when they like.
ClientFairSpec ==
  /\ ClientSpec
  /\ WF_clientVars(TaskStep)
  /\ WF_clientVars(EventsStep)
  /\ WF_clientVars(CliStep)
  /\ WF_clientVars(EngineTry)

-----------------------------------------------------------------------------
(* Properties. *)

\* Although the task and its callers overwrite each other's values, the state
\* never contradicts the engine: OFF means that it was stopped,
\* ADDRESS_ASSIGNED that it still runs, and TIMEOUT, once the handler is done,
\* that it was stopped (dhcp_client.c 78-122).
StateMatchesEngine ==
  /\ dhcp_state = "OFF" => engine = "off"
  /\ dhcp_state = "ADDRESS_ASSIGNED" => engine # "off"
  /\ dhcp_state = "TIMEOUT" /\ tpc = "poll" => engine = "off"

\* A client that has given up holds no leased address: not even when the answer
\* came between the test of the tries and dhcp_stop (dhcp_client.c 101-111).
NoLeaseAfterTimeout == dhcp_state = "TIMEOUT" /\ tpc = "poll" => addr # "leased"

\* The inductive invariant: a final state is never overtaken by its own handler,
\* and the handlers know what they did to the engine.
ClientIInv ==
  /\ ClientTypeOK
  /\ dhcp_state \in {"OFF", "ADDRESS_ASSIGNED"} => tpc = "poll"
  /\ dhcp_state = "TIMEOUT" => tpc \in {"timeout_stop", "timeout_addr", "poll"}
  /\ tpc \in {"timeout_addr", "set_off"} => engine = "off"
  /\ tpc = "set_assigned" => engine = "bound"
  /\ StateMatchesEngine
  /\ NoLeaseAfterTimeout

\* A wait for an address whose engine runs ends: with an address, with
\* MAX_DHCP_TRIES, because the link or the setting changed, or because the engine
\* stops under it (dhcp_client.c 88-121).  Two waits are left out, which need not end:
\* one for a server that makes offers for ever and never gives the address, since
\* an offer resets the tries; and one without an engine, the link having gone down
\* before netifapi_dhcp_start, and LINK_DOWN having been overwritten (lines 83-84).
TriesEndWait ==
  <>[][~EngineOffer]_clientVars
    => (dhcp_state = "WAIT_ADDRESS" ~> dhcp_state # "WAIT_ADDRESS" \/ engine = "off")

(* What the comments say and the code does not do. *)

\* While the link is up and DHCP in use, the connection has started the requests
\* ("Let the connect event enable the DHCP requests").
ConnectEnablesRequests ==
  netif_up /\ use_dhcp_client /\ epc = "idle"
    ~> engine # "off" \/ dhcp_state = "TIMEOUT" \/ ~netif_up \/ ~use_dhcp_client
=============================================================================
