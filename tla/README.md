# Verification project of wfx-fullMAC-tools

TLA+ models, TLC runs and TLAPS proofs of the example applications for the
WFx200 full-MAC Wi-Fi chip: what several tasks, an interrupt and a chip do to a
handful of unprotected variables, and what can be relied on nevertheless.

`PROJECT.json` lists the runs, the mutants that each property catches, the lines
every definition stands for, the hazards and the theorems.

## The system

Four applications share most of their code by copying it. The tasks run on
Micrium OS, preemptively, with fixed priorities; a smaller number runs first.

| part | files under `src/` | state | operations |
|---|---|---|---|
| CLI event semaphore | `wifi_cli_micriumos/wifi_cli/wifi_cli_params.c` 321-422 | `cli_state`, `event_type`, the kernel semaphore | `wifi_cli_wait` (CLI), `wifi_cli_resume` (events task, TCP/IP thread) |
| Wi-Fi indications and events task | `wifi_cli_micriumos/app_wifi_events.c` | `wifi.state`, the queue `wifi_events`, `scan_list`, the power mode | a callback for each indication (bus task), the events task (priority 21) |
| Wi-Fi CLI commands | `wifi_cli_micriumos/wifi_cli/wifi_cli_get_set_cb_func.c` | the running command, its retries | connect, disconnect, scan, start and stop the SoftAP; get and set of the parameters |
| DHCP server of the SoftAP | `wifi_cli_micriumos/lwip_host/apps/dhcp_server.c` | `saved_mac`, the control block, `dhcp_server_started`, the static ARP entries | the packet handler and the start and stop callbacks (TCP/IP thread, priority 16), removal of one or all addresses (bus task), start and stop (events task, CLI) |
| DHCP client of the station | `wifi_cli_micriumos/lwip_host/apps/dhcp_client.c` | `dhcp_state` | a task that polls it every 250 ms (priority 22); the events task and the CLI write it |
| lwIP glue | `wifi_cli_micriumos/wifi_cli/wifi_cli_lwip.c` | the interfaces, ping and iperf sessions | link up and down of station and SoftAP, ping, iperf |
| lwIP port | `wifi_cli_micriumos/lwip_host/ethernetif.c` | the packet queue to the chip | output, input, initialisation |
| SAE and PMKSA cache | `wifi_cli_micriumos/sae/sl_wfx_sae.c`, `wpa_supplicant-2.7/src/common/sae.c` | one `sae_data`, one cached PMK | prepare (CLI), commit and confirm, invalidation (events task) |
| CLI parameters and NVM | `wifi_cli_params.c`, `wifi_cli_cmd_registration.c` | a table of parameters and their NVM3 records | get, set, save, reset |
| iperf | `lwip_host/lwiperf/lwiperf.c` | the sessions | from lwIP, with a stop |
| RF test agent | `rf_test_agent/` | none | one command to the chip |
| MQTT client over TLS | `secured_mqtt/mqtt/mqtt_cli_app.c`, `mqtt_cli_lwip.c`, `mqtt_cli_get_set_cb_func.c`, `secured_mqtt/altcp_tls/` | the event flags, the message buffer, `mqtt_connected`, the task's semaphore and message queue, lwIP's clients, the TLS records in flight | connect and publish commands (CLI), connection and publication (MQTT task), answers (TCP/IP thread) |
| Ethernet bridge | `ethernet_bridge/bridge.c`, `app_ethernet_bridge.c`, `net_dev_efm32_ether_bridge.c` | two DMA descriptor rings, the packet queue to the chip | forward each way, interrupt, start and stop |
| Light over Wi-Fi and Bluetooth | `multiprotocol_micriumos/interface.c`, `bluetooth/app_bluetooth.c`, `wifi/app_webpage.c` | `led_state`, `ble_indication_pending`, `ble_indication_ongoing`, two timers, what the client subscribed to | a web page (TCP/IP thread), the events of the Bluetooth stack (Bluetooth task), the timers' callbacks (timer task) |

How the parts meet. The chip's driver runs an indication's callback in the *bus
task*. The callback writes `wifi.state` at once and queues a copy of the message.
The *events task* takes the copy, moves the lwIP interface, starts or stops the
DHCP server, tells the DHCP client's task, chooses the chip's power mode and
resumes the CLI, which waits on the event semaphore inside a command. Packets and
`tcpip_callback`s reach the DHCP server through the mailbox of the TCP/IP thread;
a client's disconnection reaches the server's table directly from the bus task.

What is hard. No lock protects `cli_state`, `dhcp_state`, `wifi.state` or
`saved_mac`; a token of the semaphore, a token parked in `POSTED_CLI` and a
timeout can each end a wait; the interfaces lag behind `wifi.state` by what is
queued, and a full queue drops messages silently; the DHCP client's task writes
its state after a blocking call and overwrites what others wrote meanwhile; the
DHCP table is walked slot by slot while another task removes entries from it; a
client is moved to another slot whenever it speaks; the Ethernet ring is written by
a task, an interrupt and the MAC with the order of two stores as the only protection;
in the other direction a receive interrupt that is off must be switched on again, or a
post must be on its way, by whichever of task and handler comes last; the Bluetooth
and the timer task test and set the same flags and restart the same timer, and each
may stop what the other has just started; the MQTT task waits without a timeout for
answers that come in another thread, and reads a message the CLI may be rewriting.
PROJECT.json lists the hazards line by line with the property that would catch each.

What makes each part correct:

* semaphore: a resume is consumed at most once, a wait always returns, and is
  never refused because of a stale `PENDING_CLI`;
* events: playing the queue leads the interfaces to `wifi.state`; the power mode
  settles on what the interfaces need; no buffer leaks but for a full queue;
* commands: each ends whatever the chip does, and they use the semaphore and the
  queue as those expect;
* DHCP server: a client is listed once, an answer carries the client's own
  address, the ARP entry of a listed client's address leads to no other client, a
  running server is known as started; an address that was promised to a client is
  not promised to another one (which the code does not achieve);
* DHCP client: `dhcp_state` never contradicts the engine, a client that gave up
  holds no lease, a wait for an address whose engine runs ends by the count of tries;
* bridge, towards Ethernet: frames leave in order and none twice, none stays in the
  ring, no data area is posted twice, the semaphore never promises more than the
  ring can take;
* bridge, towards Wi-Fi: frames are forwarded in order and not written over meanwhile,
  every data area is at exactly one place, a frame in the ring is never forgotten;
* light: an ongoing chain of indications always has something to end it, so that a light
  that stays reaches a subscribed client;
* MQTT: a wait for a connection ends with that connection's answer, the last message
  of the user is handed over whole.

## Modules

| module | what it is |
|---|---|
| `EventCredit` | abstract: resumes grant credits, successful waits use them, never more than were granted |
| `CliSem` | the semaphore; each access to `cli_state` or `event_type` is a step (`cpc`, `ppc[p]` are the program counters). A post wakes the CLI (`PostWake`), counts (`PostCount`) or overflows (`PostOverflow`, the kernel's limit). |
| `CliSemHistory` | `CliSem` with the events that resumes named since a wait began, for the claim that does not hold |
| `CliSemProofs` | theorems about `CliSem` |
| `WifiEvents` | callbacks, queue, events task. `Indicate` is a callback with its copy and its post; `TakeMessage` receives a message and moves the interface; `PowerTest` and `PowerSet` are apart because a callback may come between reading `wifi.state` and setting the mode |
| `WifiEventsProofs` | theorems about `WifiEvents` |
| `WifiCli` | the five commands, composed with `WifiEvents` (instance `Evt`) and `CliSem` (instance `Sem`, one resuming task) over shared variables; `Sem` is also its abstract specification |
| `WifiCliProofs` | theorems about `WifiCli`, from those of its two parts (instances `EvtP` and `SemP` of their proof modules, shown to be the same specifications as `Evt` and `Sem`) |
| `LeaseTable` | abstract: an assignment of addresses to clients that changes hands only by a revocation |
| `DhcpServer` | the table: the handler's walk, one slot per step (`RemoveStep`, `StoreStep`, `LookupStep`), its answer (`Reply`), the callbacks that start and stop the server, and the bus task's own walks (`BusTest`, `BusErase`, `BusClear`). Packets, callbacks and indications come in any order |
| `DhcpServerHistory` | `DhcpServer` with the answers by message type and the addresses that ACKs have promised, for the claim that does not hold |
| `DhcpSwitch` | who starts and stops the server and what `dhcp_server_started` knows of it: the bus task's bit and message, the events task, the CLI's setting, the mailbox of the TCP/IP thread. The callback (`EventsCallback`, `SettingCallback`) and the store of the flag (`EventsStore`, `SettingStore`) are steps apart. It shares no variable with `DhcpServer`, which lets the callbacks come at any time |
| `DhcpClient` | the polled machine; a handler's final assignment (`SetWait`, `SetOff`, ...) is a step apart from the blocking call before it. Its `ClientSpec` and the like have names of their own, for the module below |
| `DhcpProofs` | theorems about `DhcpServer`, `DhcpSwitch` and `DhcpClient`, in three parts that do not use each other |
| `EtherTx` | the transmit ring: `NetDev_Tx` as four steps (`TxAddress`, `TxStatus`, `TxAdvance`, `TxStart`) with the wait behind it, the interrupt handler (`isr` is its program counter, it runs to its end before the task goes on), and the MAC, which never stops for either |
| `EtherTxProofs` | theorems about `EtherTx` |
| `EtherRx` | the receive ring: `NetDev_Rx` (`RxNotReady`, `RxDiscard`, `RxExchange`), the four steps of `NetDev_RxDescPtrCurInc`, the copy to the Wi-Fi driver; the interrupt handler's post, disable and clear as separate steps, since the MAC runs between them; two kinds of device (`latches`) |
| `EtherRxProofs` | theorems about `EtherRx` |
| `AppBluetooth` | the light and its indications: `bluetooth_app_send_indication` as steps of either task (`SendStop` to `SendPut`), `sl_bt_on_event` by event, the two timers' callbacks, the web page's toggle |
| `AppBluetoothProofs` | theorems about `AppBluetooth` |
| `MqttCli` | the connect and publish commands, the MQTT task, lwIP's callbacks; a section between `LOCK_TCPIP_CORE` and `UNLOCK_TCPIP_CORE` is one step |
| `MqttCliProofs` | theorems about `MqttCli` |
| `MC*` | the instances that TLC checks |

A definition whose comment starts with "Mutant:" is a plausible bug, used only to
show that a property would notice it.

Abstractions to know of:

* In `DhcpServer` a MAC address is compared and assigned whole, where the code does it
  byte by byte, in loops of its own. The steps between two slots interleave. The
  handler tests a slot and stores into it in one step, and a callback clears the table
  in one: the only other task that writes to the table frees slots, which between the
  test and the store changes nothing of the outcome. The bus task's test and store
  are two steps, since the handler does fill slots. Packets, callbacks and indications
  come in any order, the layout of the options is left out.
* The static ARP entries: adding one is taken to succeed, and lwIP forgets an
  interface's entries when it is set down (`ArpCleared`). What lwIP learns by itself
  is not modelled.
* In `DhcpServerHistory` any message may be the one that the handler has served, any answer
  may be lost, and, to show that the violation needs no race, nothing else runs while
  the bus task walks.
* lwIP's DHCP engine, the kernel's objects and the chip are external: they are
  modelled from how the code uses them. `netifapi_dhcp_start` is refused while
  the interface is down, and the task goes to `WAIT_ADDRESS` regardless.
* `WifiEvents` takes the chip to report a connection or a start of the SoftAP only when it
  is not up, and an end only when it is: the guards of the four callbacks are not in
  the code. (`DhcpSwitch` has none.) It takes the events task's power mode commands to
  succeed; setting the mode and switching the chip's power save are one step. The
  `powermode` command of the CLI is in `WifiEvents` only (`WifiCli` is the build
  without the power manager); `powersave`, which switches the chip's power save by
  itself, is not modelled.
* `DhcpClient` reads `dhcp->tries` before the engine was first started, too: the code
  does so through a null pointer (dhcp_client.c 101), and the model starts with any count.
* In `WifiCli` the content of the scan list is one bit, `listed`: whether it holds
  the wanted access point. The SAE preparation of a WPA3 connect is left out.
* A wait that finds `PENDING_CLI` would be refused. That branch has no action:
  `WaitNotRefused`, checked and proved, says that it is dead.
* In `EtherTx` a frame is its number and lies in the data area of that number, 0 is
  the null address. The MAC sends in one step, since nobody else touches a descriptor
  whose USED is clear. Low power idle is off, as in the default (`EnableLPI`); the
  addresses of a fresh ring are null, since the block comes from zeroed memory.
* In `EtherRx` a frame is its number, and `data` says which frame a data area holds, so
  that one that is written over while it is forwarded shows. Whether `INTR_STATUS`
  records an event whose interrupt is disabled is not said in this repository: both
  devices are checked. The handler acts on a receive event it finds while its
  interrupt is disabled, as the code does: it reads the status, not the mask.
* In `AppBluetooth` the client and the stack are external: the stack takes one
  indication at a time, of a characteristic its client subscribed to, and confirms it
  later or never. `Links` is the length of the chain (light, trigger, source).
  A client that writes something else into a configuration, which unsubscribes it, is in
  the model (`Configs`) and in the theorems, but not in the checked instance.
* In `MqttCli` the message is copied by `mqtt_publish` in a step of its own after its
  length was read; a buffer that changed in between gives `Torn`. lwIP has room for
  `Clients` clients, since nothing frees one.
* The priority of the CLI and of the bus task is not fixed in this repository, so
  every interleaving of the tasks is explored.

## Runs

| run | question | bounds |
|---|---|---|
| `cli_sem` | types, waits never refused, refinement of `EventCredit`, every wait returns | two events, two resuming tasks, three grants: one for a wait, one left over in each of the two places a token can hide |
| `cli_sem_success` (violation) | does a successful wait mean that its event was signalled? | as above |
| `wifi_events` | queue, buffers and power mode | a queue of three: two messages about one interface and one about the other; one refused copy |
| `wifi_cli` | the commands use the semaphore as specified, and every command ends | queue of two, two indications (a scan and the join it leads to, or a late answer), one retry |
| `dhcp_server` | what the table promises under the bus task's removals, renewals and restarts; what the flag knows of the server | three clients, three slots; two callbacks in the mailbox, two messages about the SoftAP in the queue. `DhcpServer` and `DhcpSwitch` share nothing: a behaviour of the run is one of either |
| `dhcp_server_address` (violation) | is an address that was promised to a client promised to nobody else? | two clients, two slots |
| `dhcp_client` | state against engine, no lease after a timeout, waits with an engine end | one try, two queued link indications, any number of offers |
| `dhcp_client_connect` (violation) | does a connection start the requests? | as above |
| `ether_tx` | order, accounting and progress of the transmit ring | three descriptors, seven frames: twice round the ring and one beyond |
| `ether_rx` | order, accounting and progress of the receive ring, no frame forgotten | three descriptors, four data areas (so that the exchange may find the pool empty), a queue of one post (so that posts are refused), five frames: round the ring and two beyond; both devices |
| `app_bluetooth` | who ends an ongoing chain, and does the display catch up? | a chain of two: a link whose confirmation sends the next, and the last; clients that subscribe; any number of connections, changes and events |
| `mqtt_cli` | whose answer ends a wait, and is the last message handed over? | two clients (the current one and an earlier one, lost or still up), two messages |

The bounds cut constants of the code: `WFX_EVENTS_NB_MAX` 10 to 2-3, `MAX_DHCP_TRIES`
4 to 1, the three retries of a connect to one, `DHCPS_MAX_CLIENT` to three,
`TxDescNbr` and `RxDescNbr` (5) to three, `RxBufLargeNbr` 10 to four, the chain's three
indications to two. Each keeps both sides of the comparison it is used in. `MaxGrants`, `MaxInds`,
`MaxOverflows`, `MaxFrames`, `MboxMax` and `ApMax` bound counters and queues of the models; the proofs
hold for every value of them.

Fairness. `WF(CliStep)`, `WF(PosterStep)`, `WF(TaskStep)`, `WF(EventsStep)`: a ready
task of the kernel runs in the end, and a pend with a timeout is ended by the
tick. `WF(EngineTry)`: lwIP's timer counts the tries. A user's command, an
indication, a packet, an offer, a frame are never assumed to come. `WF(IsrStep)` and
`WF(MacStep)`: an interrupt is served, and the MAC works by itself once started. The
`ether_tx` run leaves deadlock unchecked: after the last frame the bridge is quiet.
In `EtherRx`, `SF(TaskStep)`: the handler delays the task, but its interrupts come from
frames, which take far longer on the wire than the handler. `RingEmpties` states its own
condition: frames go the other way, too, and the device records events while their
interrupt is disabled. In `AppBluetooth`, `SF(PeriodicExpires)` and `SF(TimeoutExpires)`: the
timer task serves both timers, neither starves the other; `SF(Confirmed)`: the stack
hands out its events in the order they came. In `MqttCli` a command of the CLI that has
begun goes on, a DNS request and a connection attempt are answered in the end, since
lwIP times them out; a subscription's answer is never assumed.

## What the runs found

* `cli_sem_success`: a resume that finds the CLI at its prompt leaves `POSTED_CLI`,
  which carries no event. The next wait, whatever its event, succeeds at once: a
  disconnection noticed at the prompt makes the next scan or connect report
  success before the chip has answered.
* `dhcp_server_address`: every packet removes its sender from the table and lists it in the
  lowest free slot (dhcp_server.c 92). Client 1 holds slot 0 and client 2 was
  ACKed slot 1 with a lease time of a day; client 1 leaves; client 2 renews (a REQUEST without
  option 50, which gets no answer) and is moved to slot 0; client 1 comes back, is listed in
  slot 1 and ACKed the address client 2 still uses.
* `dhcp_client_connect`: the task's own assignment at the end of a handler overwrites
  `DHCP_START`, and nothing writes it again.

What else the models contain, behaviours a reader of the code should know of, which
no run singles out:

* Semaphore: between the resume's test of `FREE_CLI` and its write of `POSTED_CLI`
  (wifi_cli_params.c 410-415) the CLI may have gone to sleep. The resume reports success
  and the CLI sleeps until its timeout, which is why `WaitReturns` needs the timeout.
* DHCP server, the flag: `tcpip_callback` comes before the store of `dhcp_server_started`
  (dhcp_server.c 511-513), and the TCP/IP thread has the higher priority. In between the server
  runs and is not known as started: the CLI's OFF misses it, writes the setting, and the next
  stop of the SoftAP, which asks the setting, leaves the server running. Two tasks that are
  both between callback and store (512 and 538) may store in the other order, after which the
  flag is wrong for good (`crossed`). `RunningIsKnown` names both exceptions.
* DHCP server, bus task: `dhcpserver_remove_mac` may free a slot that the handler has given
  to another client since the test (dhcp_server.c 73-81); that client loses its listing.
* DHCP client: the assignment of line 84 can overwrite a `DHCP_LINK_DOWN`, and the start of line 83
  is refused when the interface is already down. The wait that follows has no engine
  and, unless an old count of tries is past the limit, lasts until the link or the setting
  changes; a wait for a server that makes offers for ever lasts as long as the offers.
  `TriesEndWait` leaves out these two.
* Transmit ring: a descriptor gets its address while it still says USED
  (net_dev_efm32_ether_bridge.c 1136). A transmit-complete interrupt of an earlier frame between
  the two stores takes it for a sent one, posts its data area and clears the address; the MAC
  then sends from address 0. `PostedOnce` and `SentInOrder` hold all the same.
* Receive ring: on the device that records events while their interrupt is disabled, the
  handler of a transmitted frame may post for a frame the task has already taken. The
  next `NetDev_Rx` then meets an empty descriptor and returns (lines 1022-1027) without
  enabling the interrupt, which the handler has disabled (1364): reception waits for the
  next transmit interrupt. A receive event that was left in `INTR_STATUS` does the same
  without any transmission. That is why `RingEmpties` asks for traffic the other way.
* Light: the result of `bluetooth_app_send_indication` is ignored at app_bluetooth.c 388, 639 and 657.
  Without a subscription `ble_indication_ongoing` stays set with no timer running,
  and later changes of the light are deferred until the client disconnects. `refused` marks
  this in `OngoingIsWatched` and `DisplayCatchesUp`.
* MQTT, DNS: the task is created with a message queue of size 0 (mqtt_cli_app.c 188), so an answer that
  comes before it pends (mqtt_cli_lwip.c 334) is refused, and the task waits for ever: one of
  the two states of `Stopped`.
* MQTT, connections: `mqtt_connected` is tested by the CLI and set by the connection's callback.
  A second connect command before that makes a second client while the first one lives and
  reports to the same callback; `rivals` marks it in `WaitedForClient`. Clients and TLS
  configurations are never freed (mqtt_cli_lwip.c 84). When `mqtt_client_new` fails, the next publish
  meets the assertion of `mqtt_publish`: the other state of `Stopped`.
* MQTT, buffer: it is published again after each successful subscription, so a message
  may be handed over more than once.

## Proofs

TLAPS checks, for every value of the constants under the module's assumptions
(which only type them; `RoomForEveryClient` has a hypothesis besides, which it names):

* `CliSem`: `IInv` is inductive. Conservation alone is not: the step `WaitLeave`
  resets `cli_state` and would drop a token unless a CLI that skipped its pend
  still finds `POSTED_CLI`; so `IInv` says where `PENDING_CLI` can be seen, that
  the skipping CLI finds `POSTED_CLI`, and that a resume in progress has an
  event. Then types, conservation, `WaitNotRefused`, and the refinement of
  `EventCredit`: each step is a grant, a use or a stutter.
* `DhcpServer`: `WalkInv` says what the walk has established so far (behind the
  index of the first loop the MAC is not listed; during the second loop it is
  listed nowhere), which a removal by the bus task can only make truer. With it
  `NoDuplicateMac` and `AnswersOwnSlot` are inductive, and the table refines
  `LeaseTable` with the lease of a client as the slot that lists it.
  `RoomForAll` counts: the slot that the save loop has passed and the occupied ones ahead
  of it belong to different clients, none of them the one being listed (`RoomInv`).
  `RoomForEveryClient` supposes finitely many clients, no more than slots
  (`DHCPS_MAX_CLIENT`, 8): with more the property is false, which is not a defect.
  `ArpAgrees` holds of every packet, callback and indication. It needs to know that the
  client of an answer is listed nowhere but at the answer's address (`SearchInv`): it is
  the only client whose entry may be wrong, until the handler writes it.
* `DhcpSwitch`: `FlagInv` says that, as long as no two tasks have overlapped, the flag, or
  what the task between callback and store is about to write (`Known`), is what the
  last callback queued will make of the control block, or what the block is now.
  `RunningIsKnown` follows from it.
* `DhcpClient`: `ClientIInv` places each handler's program counter against the state and
  the engine; from it `StateMatchesEngine` and `NoLeaseAfterTimeout`.
* `WifiEvents`: the accounting of buffers, and `QueueLeadsToState`, which rests on
  two lemmas about queues: appending a message about an interface makes it the
  last word on that interface (`AppendLeads`), and taking the head and moving the
  interface by it changes nothing about where the queue leads (`TailLeads`).
  `PowerSaveSettles` rests on both and on `PowerInv`: as long as a message about an interface is
  queued nothing need hold; once the last one is taken, power save has its final value
  or the task is at a step that will give it. The difficult case is a CONNECT that was
  tested before a SoftAP's callback: its START_AP is then still queued (`ApInv`).
* `WifiCli`: each step is one of `WifiEvents` or leaves its variables alone, by the way the module
  is composed (`EventsUsed`, a lemma that only carries the theorems of `WifiEvents` over).
  For `CliSem` there is something to show: a step must name an event, so `CmdInv` says that the CLI is
  inside a wait only for a command that waits (`SemSimulation`). The theorems
  of both parts then hold of the composition (`PartsHold`): no property of the
  semaphore or of the queue is proved a second time.
* `EtherTx`: for `ReadyIsRoom` the invariant counts a frame that is written and
  whose token is not taken yet (`RoomInv`); the step that fills the ring needs that
  a ring never holds more data areas than descriptors (`HeldBounded`), which a wait
  that times out falls back on. For `PostedOnce` the invariant says that the data
  areas in the ring belong to different frames, that none of them has been posted,
  and that the frame about to be written is newer than all (`HeldInv`, `PostedInv`). For
  `SentInOrder` a second invariant, `OrderedInv`, independent of the first: the MAC's descriptors
  are a run from the one it looks at next (`GivenInv`), nobody gives the current descriptor away
  while the task writes it (`WritingInv`), and frames are in order along the run (`OrderInv`).

* `EtherRx`: `IInv` has a part for each thing the task, the handler and the MAC rely on.
  `HeldInv` places the data area in hand; `AreasApart` needs it. `RingInv` says that the full
  descriptors are a run from the oldest to the MAC's. `IsrInv`, `RecordedInv` and `UnrecordedInv`
  say who knows of a full descriptor, for each kind of device; `StillKnown` follows from
  them. On the device that does not record, the task works only with the interrupt off and
  there is at most one post, which is why it never meets an empty descriptor. `OrderInv` orders
  the frames from the Wi-Fi driver's queue through the task's hand and the ring to
  the MAC; `OutInOrder` alone is not inductive.
* `AppBluetooth`: `OngoingIsWatched` needs no strengthening beyond the types: each step of one
  task that stops the timer leaves that task at a program counter in `Acting`.
* `MqttCli`: `AnswerInv` says that without a rival nothing posts the semaphore between its
  reset and the connection, and only the awaited client afterwards.

The inductive invariants themselves (`IInv`, `ClientIInv`, `FlagInv`, `RoomInv`, `ArpInv`, `PowerInv`,
`CmdInv`, and `CreditConserved` of the semaphore) are in no run: they are proved, and the
properties they were made for are also checked.

Only model-checked: the liveness properties (`WaitReturns`, `TriesEndWait`, `CommandsEnd`,
`FramesLeave`, `RingEmpties`, `DisplayCatchesUp`, `MessageHanded`), which need fairness and
`ENABLED`, out of this prover's reach. Every other property of a passing run is a theorem.

## Not modelled

PROJECT.json gives each part's status.

* Board support, start-up, the RF test agent and generated data keep no state worth a
  model. Most of the lines of the repository are of this kind or vendored: the web page of
  `httpfsdata.h`, the elliptic curves, `wpa_supplicant-2.7`, mbedTLS's and lwIP's
  headers, lwIP's own `lwiperf.c` and `altcp_tls_mbedtls.c`. The applications'
  own logic is also there several times over: `secured_mqtt` and `multiprotocol_micriumos` hold copies
  of the files modelled here from `wifi_cli_micriumos`.
* SAE and the cached key: what the wrapper adds to the vendored mathematics is small, but
  what it may rely on (which exchange the chip runs when) is not in this repository. The
  hazards are recorded: the context is prepared by the CLI while the events task may still
  use it, and the cached key changes at the confirm, its label at the connection.
* Scan list: the `uint8_t` counter of the results wraps, and the count handed on may exceed the list.
* Ethernet bridge: start and stop, `RxDescFreeAll`, an allocation that fails in `RxDescInit`, the
  PHY, low power idle. The Wi-Fi driver may reuse a frame's buffer before the MAC has
  read it (the ring starts with a token for each descriptor, so the callback does not wait).
* Bluetooth: advertising (`ble_state` is read and written by two tasks without a lock,
  app_bluetooth.c 283, 304, 465, 511), the retrieval of the client's name, whose step is
  not reset at a disconnection, the disconnection from the web page, the display, and the LEDs
  themselves beside `led_state`.
* MQTT: parameters and their storage (the flag that asks to save them is never posted),
  certificates, TLS records.
* Wi-Fi: what `netifapi_dhcp_stop` does to the static address the CLI has just written; a
  failed power mode command is ignored; the parameters and NVM3; ping and iperf.

## Plan

1. (done) `CliSem`, `WifiEvents`, `WifiCli`, `DhcpServer`, `DhcpClient`, `EtherTx`, `EtherRx`,
   `AppBluetooth`, `MqttCli`, their abstractions and the proofs above.
2. (done) Proofs of `PowerSaveSettles`, `RunningIsKnown`, `RoomForAll` and `ArpAgrees`; the
   theorems of the parts of `WifiCli` for the composition.
3. `SaeExchange` and the PMKSA cache: a key is given to the chip only for the access point it
   was derived with. `ScanList`. Ping and iperf sessions; `CliParams` (parameters against NVM).
