---------------------------- MODULE AppBluetooth ----------------------------
(***************************************************************************)
(* The light of the multiprotocol example and the indications that keep a  *)
(* Bluetooth client's display up to date (bluetooth/app_bluetooth.c,       *)
(* interface.c, the toggle of wifi/app_webpage.c).  Three tasks share      *)
(* ble_indication_pending, ble_indication_ongoing, the timers and          *)
(* led_state without a lock: the Bluetooth task (sl_bt_on_event), the      *)
(* timer task (app_single_timer_cb) and the TCP/IP thread (a web page).    *)
(*                                                                         *)
(* A change is indicated as a chain: the light, then the trigger, then the *)
(* source, each sent when the one before is confirmed.  The timeout timer  *)
(* is to end a chain whose confirmation does not come.                     *)
(*                                                                         *)
(* One connection (SL_BT_CONFIG_MAX_CONNECTIONS is 1).  Every access to a  *)
(* shared variable is a step.  The stack and its client are external.      *)
(***************************************************************************)
EXTENDS Naturals

CONSTANTS
  Links,   \* the characteristics of a chain: 1 is the light, 2 the trigger, 3 the source
  Configs  \* what clients write into a configuration: TRUE asks for indications

ASSUME BluetoothAssumption ==
  /\ Links \in Nat \ {0}
  /\ Configs \subseteq BOOLEAN

Chars == 1 .. Links
Light == 1
Lights == {"off", "on"}
Tasks == {"bluetooth", "timer"}
None == 0

VARIABLES
  led,        \* led_state
  pending,    \* ble_indication_pending
  ongoing,    \* ble_indication_ongoing
  connected,  \* ble_nb_connected is 1
  flag,       \* the characteristics whose gatt_flag asks for indications
  periodic,   \* the periodic timer runs
  timeout,    \* the timeout timer runs
  pc,         \* where each task is
  char,       \* the characteristic each task sends
  val,        \* the light it has read for it
  evt,        \* the event sl_bt_on_event handles
  wpc,        \* where the TCP/IP thread is in interface_light_toggle
  wnew,       \* the new state it computed
  link,       \* stack: a client is connected
  subscribed, \* stack: what the client has subscribed to
  air,        \* stack: the indication that awaits its confirmation
  refused     \* history: the latest send that found no subscription left a chain ongoing

shared == <<led, pending, ongoing, connected, flag, periodic, timeout>>
local == <<pc, char, val, evt>>
web == <<wpc, wnew>>
stack == <<link, subscribed, air>>
vars == <<shared, local, web, stack, refused>>

Events == [type : {"opened", "closed", "write", "config", "confirm", "other"},
           chr : Chars, on : BOOLEAN, new : Lights]
Event(type) == [type |-> type, chr |-> Light, on |-> FALSE, new |-> "off"]

SendPcs == {"stop", "test", "start", "put"}
BtPcs == {"idle", "clear", "claim", "switch", "store", "release",
          "open_periodic", "close_periodic", "close_timer", "close_ongoing",
          "close_pending"} \cup SendPcs
TimerPcs == {"idle", "check", "claim", "defer", "release"} \cup SendPcs

TypeOK ==
  /\ led \in Lights
  /\ pending \in BOOLEAN /\ ongoing \in BOOLEAN /\ connected \in BOOLEAN
  /\ periodic \in BOOLEAN /\ timeout \in BOOLEAN
  /\ link \in BOOLEAN /\ refused \in BOOLEAN
  /\ flag \subseteq Chars /\ subscribed \subseteq Chars
  /\ pc \in [Tasks -> BtPcs \cup TimerPcs]
  /\ pc["bluetooth"] \in BtPcs /\ pc["timer"] \in TimerPcs
  /\ char \in [Tasks -> Chars] /\ val \in [Tasks -> Lights]
  /\ evt \in Events
  /\ wpc \in {"idle", "request", "set", "store"} /\ wnew \in Lights
  /\ air \in [chr : Chars \cup {None}, light : Lights]

NoAir == [chr |-> None, light |-> "off"]

Init ==
  /\ led = "off" /\ pending = FALSE /\ ongoing = FALSE
  /\ connected = FALSE /\ flag = {}
  /\ periodic = FALSE /\ timeout = FALSE
  /\ pc = [t \in Tasks |-> "idle"]
  /\ char = [t \in Tasks |-> Light] /\ val = [t \in Tasks |-> "off"]
  /\ evt = Event("other")
  /\ wpc = "idle" /\ wnew = "off"
  /\ link = FALSE /\ subscribed = {} /\ air = NoAir
  /\ refused = FALSE

Goto(t, l) == pc' = [pc EXCEPT ![t] = l]

\* sl_bt_on_event returns: what its locals held is forgotten.
Done ==
  /\ Goto("bluetooth", "idle")
  /\ evt' = Event("other")

-----------------------------------------------------------------------------
(* bluetooth_app_send_indication, in either task. *)

\* The caller's ble_indication_ongoing = true, and the call for the light.
Claim(t) ==
  /\ pc[t] = "claim"
  /\ ongoing' = TRUE /\ refused' = FALSE
  /\ char' = [char EXCEPT ![t] = Light]
  /\ Goto(t, "stop")
  /\ UNCHANGED <<led, pending, connected, flag, periodic, timeout, val, evt, web, stack>>

SendStop(t) ==
  /\ pc[t] = "stop"
  /\ timeout' = FALSE
  /\ Goto(t, "test")
  /\ UNCHANGED <<led, pending, ongoing, connected, flag, periodic, char, val, evt, web, stack, refused>>

SendTest(t) ==
  /\ pc[t] = "test" /\ char[t] \in flag
  /\ val' = [val EXCEPT ![t] = IF char[t] = Light THEN led ELSE "off"]
  /\ Goto(t, "start")
  /\ UNCHANGED <<shared, char, evt, web, stack, refused>>

\* After the send of the light the event that made the task look is handled.
Return(t) == IF t = "bluetooth" /\ char[t] = Light THEN "switch" ELSE "idle"

\* No subscription: -1.  The timer task undoes its claim, sl_bt_on_event ignores the result.
SendNone(t) ==
  /\ pc[t] = "test" /\ char[t] \notin flag
  /\ Goto(t, IF t = "timer" THEN "release" ELSE Return(t))
  /\ char' = [char EXCEPT ![t] = Light]
  /\ refused' = (IF t = "timer" THEN refused ELSE ongoing)
  /\ UNCHANGED <<shared, val, evt, web, stack>>

SendStart(t) ==
  /\ pc[t] = "start"
  /\ timeout' = TRUE /\ refused' = FALSE
  /\ Goto(t, "put")
  /\ UNCHANGED <<led, pending, ongoing, connected, flag, periodic, char, val, evt, web, stack>>

\* The stack takes one indication at a time, of what its client subscribed to.
SendPut(t) ==
  /\ pc[t] = "put"
  /\ air' = IF link /\ connected /\ char[t] \in subscribed /\ air.chr = None
              THEN [chr |-> char[t], light |-> val[t]] ELSE air
  /\ Goto(t, Return(t))
  /\ char' = [char EXCEPT ![t] = Light] /\ val' = [val EXCEPT ![t] = "off"]
  /\ UNCHANGED <<shared, evt, web, link, subscribed, refused>>

\* ble_indication_ongoing = false: the end of a chain, its timeout, a claim undone.
Release(t) ==
  /\ pc[t] = "release"
  /\ ongoing' = FALSE /\ refused' = FALSE
  /\ Goto(t, "idle")
  /\ UNCHANGED <<led, pending, connected, flag, periodic, timeout, char, val, evt, web, stack>>

SendStep(t) ==
  \/ Claim(t) \/ SendStop(t) \/ SendTest(t) \/ SendNone(t) \/ SendStart(t) \/ SendPut(t)
  \/ Release(t)

-----------------------------------------------------------------------------
(* The timer task. *)

PeriodicExpires ==
  /\ pc["timer"] = "idle" /\ periodic
  /\ Goto("timer", "check")
  /\ UNCHANGED <<shared, char, val, evt, web, stack, refused>>

\* Mutant: the timeout is only noted.
TimeoutExpiresIdle ==
  /\ pc["timer"] = "idle" /\ timeout
  /\ timeout' = FALSE
  /\ UNCHANGED <<led, pending, ongoing, connected, flag, periodic, local, web, stack, refused>>

TimeoutExpires ==
  /\ pc["timer"] = "idle" /\ timeout
  /\ timeout' = FALSE
  /\ Goto("timer", "release")
  /\ UNCHANGED <<led, pending, ongoing, connected, flag, periodic, char, val, evt, web, stack, refused>>

TimerCheck ==
  /\ pc["timer"] = "check"
  /\ Goto("timer", IF ongoing THEN "defer" ELSE "claim")
  /\ UNCHANGED <<shared, char, val, evt, web, stack, refused>>

TimerDefer ==
  /\ pc["timer"] = "defer"
  /\ pending' = TRUE
  /\ Goto("timer", "idle")
  /\ UNCHANGED <<led, ongoing, connected, flag, periodic, timeout, char, val, evt, web, stack, refused>>

TimerStep == SendStep("timer") \/ TimerCheck \/ TimerDefer

-----------------------------------------------------------------------------
(* sl_bt_on_event. *)

\* Each event first looks for a pending indication.
BtEvent(e) ==
  /\ pc["bluetooth"] = "idle"
  /\ evt' = e
  /\ Goto("bluetooth", IF pending /\ ~ongoing THEN "clear" ELSE "switch")
  /\ UNCHANGED <<shared, char, val, web, refused>>

Opened == ~link /\ link' = TRUE /\ BtEvent(Event("opened")) /\ UNCHANGED <<subscribed, air>>

Closed ==
  /\ link
  /\ link' = FALSE /\ subscribed' = {} /\ air' = NoAir
  /\ BtEvent(Event("closed"))

ClientWrites ==
  /\ link
  /\ \E new \in Lights : BtEvent([Event("write") EXCEPT !.new = new])
  /\ UNCHANGED stack

ClientConfigures ==
  /\ link
  /\ \E c \in Chars, on \in Configs :
       /\ subscribed' = IF on THEN subscribed \cup {c} ELSE subscribed \ {c}
       /\ BtEvent([Event("config") EXCEPT !.chr = c, !.on = on])
  /\ UNCHANGED <<link, air>>

\* Any other event: boot, a read, a step of the name retrieval.
Other == BtEvent(Event("other")) /\ UNCHANGED stack

\* The client has received the indication and confirms it.
Confirmed ==
  /\ air.chr # None
  /\ BtEvent([Event("confirm") EXCEPT !.chr = air.chr])
  /\ air' = NoAir
  /\ UNCHANGED <<link, subscribed>>

BtClear ==
  /\ pc["bluetooth"] = "clear"
  /\ pending' = FALSE
  /\ Goto("bluetooth", "claim")
  /\ UNCHANGED <<led, ongoing, connected, flag, periodic, timeout, char, val, evt, web, stack, refused>>

Handles(type) == pc["bluetooth"] = "switch" /\ evt.type = type

\* A connection counts before the periodic timer runs, and no longer before it stops.
HandleOpened ==
  /\ Handles("opened")
  /\ connected' = TRUE
  /\ evt' = Event("other")
  /\ Goto("bluetooth", "open_periodic")
  /\ UNCHANGED <<led, pending, ongoing, flag, periodic, timeout, char, val, web, stack, refused>>

OpenPeriodic ==
  /\ pc["bluetooth"] = "open_periodic"
  /\ periodic' = TRUE
  /\ Done
  /\ UNCHANGED <<led, pending, ongoing, connected, flag, timeout, char, val, web, stack, refused>>

HandleClosed ==
  /\ Handles("closed")
  /\ connected' = FALSE
  /\ evt' = Event("other")
  /\ Goto("bluetooth", "close_periodic")
  /\ UNCHANGED <<led, pending, ongoing, flag, periodic, timeout, char, val, web, stack, refused>>

ClosePeriodic ==
  /\ pc["bluetooth"] = "close_periodic"
  /\ periodic' = FALSE
  /\ Goto("bluetooth", "close_timer")
  /\ UNCHANGED <<led, pending, ongoing, connected, flag, timeout, char, val, evt, web, stack, refused>>

CloseTimer ==
  /\ pc["bluetooth"] = "close_timer"
  /\ timeout' = FALSE
  /\ Goto("bluetooth", "close_ongoing")
  /\ UNCHANGED <<led, pending, ongoing, connected, flag, periodic, char, val, evt, web, stack, refused>>

CloseOngoing ==
  /\ pc["bluetooth"] = "close_ongoing"
  /\ ongoing' = FALSE /\ refused' = FALSE
  /\ Goto("bluetooth", "close_pending")
  /\ UNCHANGED <<led, pending, connected, flag, periodic, timeout, char, val, evt, web, stack>>

ClosePending ==
  /\ pc["bluetooth"] = "close_pending"
  /\ pending' = FALSE
  /\ Done
  /\ UNCHANGED <<led, ongoing, connected, flag, periodic, timeout, char, val, web, stack, refused>>

\* interface_light_set_state asks for the indication first and stores the light then.
HandleWrite ==
  /\ Handles("write")
  /\ pending' = (pending \/ connected)
  /\ Goto("bluetooth", "store")
  /\ UNCHANGED <<led, ongoing, connected, flag, periodic, timeout, char, val, evt, web, stack, refused>>

BtStore ==
  /\ pc["bluetooth"] = "store"
  /\ led' = evt.new
  /\ Done
  /\ UNCHANGED <<pending, ongoing, connected, flag, periodic, timeout, char, val, web, stack, refused>>

HandleConfig ==
  /\ Handles("config")
  /\ flag' = IF evt.on THEN flag \cup {evt.chr} ELSE flag \ {evt.chr}
  /\ Done
  /\ UNCHANGED <<led, pending, ongoing, connected, periodic, timeout, char, val, web, stack, refused>>

\* Mutant: the chain goes on behind its end.
HandleConfirmAny ==
  /\ Handles("confirm")
  /\ char' = [char EXCEPT !["bluetooth"] = evt.chr + 1]
  /\ evt' = Event("other")
  /\ Goto("bluetooth", "stop")
  /\ UNCHANGED <<shared, val, web, stack, refused>>

\* The next indication of the chain.
HandleConfirm ==
  /\ Handles("confirm") /\ evt.chr # Links
  /\ char' = [char EXCEPT !["bluetooth"] = evt.chr + 1]
  /\ evt' = Event("other")
  /\ Goto("bluetooth", "stop")
  /\ UNCHANGED <<shared, val, web, stack, refused>>

\* Mutant: the end of the chain stops its timer and forgets to say so.
HandleLastOngoing ==
  /\ Handles("confirm") /\ evt.chr = Links
  /\ timeout' = FALSE
  /\ Done
  /\ UNCHANGED <<led, pending, ongoing, connected, flag, periodic, char, val, web, stack, refused>>

\* The end of the chain.
HandleLast ==
  /\ Handles("confirm") /\ evt.chr = Links
  /\ timeout' = FALSE
  /\ evt' = Event("other")
  /\ Goto("bluetooth", "release")
  /\ UNCHANGED <<led, pending, ongoing, connected, flag, periodic, char, val, web, stack, refused>>

HandleOther ==
  /\ Handles("other")
  /\ Done
  /\ UNCHANGED <<shared, char, val, web, stack, refused>>

BtStep ==
  \/ SendStep("bluetooth") \/ BtClear \/ HandleOpened \/ OpenPeriodic
  \/ HandleClosed \/ ClosePeriodic \/ CloseTimer \/ CloseOngoing \/ ClosePending
  \/ HandleWrite \/ BtStore \/ HandleConfig \/ HandleConfirm \/ HandleLast
  \/ HandleOther

BtEvents ==
  Opened \/ Closed \/ ClientWrites \/ ClientConfigures \/ Confirmed \/ Other

-----------------------------------------------------------------------------
(* The web page's toggle, in the TCP/IP thread. *)

ToggleEnter ==
  /\ wpc = "idle"
  /\ wnew' = IF led = "off" THEN "on" ELSE "off"
  /\ wpc' = "request"
  /\ UNCHANGED <<shared, local, stack, refused>>

\* bluetooth_app_request_send_indication.
RequestTest ==
  /\ wpc = "request"
  /\ wpc' = IF connected THEN "set" ELSE "store"
  /\ UNCHANGED <<shared, local, wnew, stack, refused>>

RequestSet ==
  /\ wpc = "set"
  /\ pending' = TRUE
  /\ wpc' = "store"
  /\ UNCHANGED <<led, ongoing, connected, flag, periodic, timeout, local, wnew, stack, refused>>

ToggleStore ==
  /\ wpc = "store"
  /\ led' = wnew /\ wnew' = "off"
  /\ wpc' = "idle"
  /\ UNCHANGED <<pending, ongoing, connected, flag, periodic, timeout, local, stack, refused>>

WebStep == RequestTest \/ RequestSet \/ ToggleStore

-----------------------------------------------------------------------------
Next ==
  \/ TimerStep \/ PeriodicExpires \/ TimeoutExpires
  \/ BtStep \/ BtEvents
  \/ WebStep \/ ToggleEnter

Spec == Init /\ [][Next]_vars

\* A ready task runs in the end; the timer task serves each timer that keeps expiring; the
\* stack's events are handled in the order they came; a client confirms.
FairSpec ==
  /\ Spec
  /\ WF_vars(TimerStep) /\ WF_vars(BtStep) /\ WF_vars(WebStep)
  /\ SF_vars(PeriodicExpires) /\ SF_vars(TimeoutExpires)
  /\ SF_vars(Confirmed)

-----------------------------------------------------------------------------
(* Properties. *)

\* Where a task is going to start the timer, or to clear ble_indication_ongoing.
Acting(t) ==
  pc[t] \in {"stop", "test", "start", "release", "close_timer", "close_ongoing"}

\* A chain that is ongoing has something to end it: the timer, or a task on its way to start
\* it or to clear the flag, whatever the two tasks do to the timer of each other.  The one
\* exception is a send without subscription whose result sl_bt_on_event ignores (lines 388,
\* 639 and 657).
OngoingIsWatched ==
  ongoing => timeout \/ refused \/ \E t \in Tasks : Acting(t)

\* The light that stays on is indicated over and over to a client that stays subscribed, unless
\* a send has been refused: the periodic timer, the pending request of a change and the chains
\* that end by confirmation or timeout add up to that (313-346, 385-389).
Receives(l) == air = [chr |-> Light, light |-> l]
DisplayCatchesUp ==
  \A l \in Lights :
    <>[](link /\ subscribed = Chars /\ led = l /\ ~refused) => []<>Receives(l)
=============================================================================
