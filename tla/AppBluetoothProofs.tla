------------------------- MODULE AppBluetoothProofs -------------------------
(***************************************************************************)
(* Theorems about AppBluetooth: the types, and that a chain of indications *)
(* always has something to end it, for chains of any length and any        *)
(* configuration the client writes.                                        *)
(***************************************************************************)
EXTENDS AppBluetooth, TLAPS

\* Both tasks only ever stand where the code has a place for them.
LEMMA PcIsFunction ==
  ASSUME TypeOK, NEW t \in Tasks, NEW l, Goto(t, l)
  PROVE  /\ pc'[t] = l
         /\ \A u \in Tasks : u # t => pc'[u] = pc[u]
         /\ l \in BtPcs \cup TimerPcs => pc' \in [Tasks -> BtPcs \cup TimerPcs]
  BY DEF TypeOK, Goto

\* What a step that leaves the data alone has to show.
PcOK ==
  /\ pc \in [Tasks -> BtPcs \cup TimerPcs]
  /\ pc["bluetooth"] \in BtPcs /\ pc["timer"] \in TimerPcs

LEMMA PcStep ==
  ASSUME TypeOK, NEW t \in Tasks, NEW l, Goto(t, l),
         t = "bluetooth" => l \in BtPcs,
         t = "timer" => l \in TimerPcs
  PROVE  PcOK'
  <1>1. l \in BtPcs \cup TimerPcs
    BY DEF Tasks
  <1>2. PcOK
    BY DEF TypeOK, PcOK
  <1>3. pc' \in [Tasks -> BtPcs \cup TimerPcs]
    BY <1>1, PcIsFunction
  <1>4. pc'[t] = l /\ \A u \in Tasks : u # t => pc'[u] = pc[u]
    BY <1>1, PcIsFunction
  <1>5. CASE t = "bluetooth"
    BY <1>2, <1>3, <1>4, <1>5 DEF PcOK, Tasks
  <1>6. CASE t = "timer"
    BY <1>2, <1>3, <1>4, <1>6 DEF PcOK, Tasks
  <1> QED
    BY <1>5, <1>6 DEF Tasks

DataOK ==
  /\ led \in Lights
  /\ pending \in BOOLEAN /\ ongoing \in BOOLEAN /\ connected \in BOOLEAN
  /\ periodic \in BOOLEAN /\ timeout \in BOOLEAN
  /\ link \in BOOLEAN /\ refused \in BOOLEAN
  /\ flag \subseteq Chars /\ subscribed \subseteq Chars
  /\ char \in [Tasks -> Chars] /\ val \in [Tasks -> Lights]
  /\ evt \in Events
  /\ wpc \in {"idle", "request", "set", "store"} /\ wnew \in Lights
  /\ air \in [chr : Chars \cup {None}, light : Lights]

LEMMA TypeParts == TypeOK <=> PcOK /\ DataOK
  BY DEF TypeOK, PcOK, DataOK

LEMMA LightIsChar == Light \in Chars
  BY BluetoothAssumption DEF Light, Chars

LEMMA EventIsEvent ==
  ASSUME NEW type \in {"opened", "closed", "write", "config", "confirm", "other"},
         NEW c \in Chars, NEW on \in BOOLEAN, NEW new \in Lights
  PROVE  [type |-> type, chr |-> c, on |-> on, new |-> new] \in Events
  BY DEF Events

LEMMA EventTyped ==
  ASSUME NEW type \in {"opened", "closed", "write", "config", "confirm", "other"}
  PROVE  /\ Event(type) \in Events
         /\ \A new \in Lights : [Event(type) EXCEPT !.new = new] \in Events
         /\ \A c \in Chars : [Event(type) EXCEPT !.chr = c] \in Events
         /\ \A c \in Chars, on \in BOOLEAN : [Event(type) EXCEPT !.chr = c, !.on = on] \in Events
  BY LightIsChar DEF Event, Events, Lights

-----------------------------------------------------------------------------
(* Types. *)

LEMMA SendTyped ==
  ASSUME TypeOK, NEW t \in Tasks, SendStep(t)
  PROVE  TypeOK'
  <1>0. PcOK /\ DataOK
    BY TypeParts
  <1> SUFFICES PcOK' /\ DataOK'
    BY TypeParts DEF TypeOK, PcOK, DataOK
  <1>1. Return(t) \in BtPcs /\ (t = "timer" => Return(t) = "idle")
    BY DEF Return, BtPcs, SendPcs
  <1>2. CASE Claim(t)
    <2>1. PcOK'
      BY <1>2, PcStep DEF Claim, BtPcs, TimerPcs, SendPcs
    <2>2. DataOK'
      BY <1>0, <1>2, LightIsChar
      DEF DataOK, Claim, web, stack
    <2> QED BY <2>1, <2>2
  <1>3. CASE SendStop(t)
    <2>1. PcOK'
      BY <1>3, PcStep DEF SendStop, BtPcs, TimerPcs, SendPcs
    <2>2. DataOK'
      BY <1>0, <1>3 DEF DataOK, SendStop, web, stack
    <2> QED BY <2>1, <2>2
  <1>4. CASE SendTest(t)
    <2>1. PcOK'
      BY <1>4, PcStep DEF SendTest, BtPcs, TimerPcs, SendPcs
    <2>2. val' \in [Tasks -> Lights]
      BY <1>0, <1>4 DEF DataOK, SendTest, Lights
    <2>3. DataOK'
      BY <1>0, <1>4, <2>2 DEF DataOK, SendTest, shared, web, stack
    <2> QED BY <2>1, <2>3
  <1>5. CASE SendNone(t)
    <2>1. PcOK'
      <3>1. CASE t = "timer"
        BY <1>5, <3>1, PcStep DEF SendNone, BtPcs, TimerPcs
      <3>2. CASE t = "bluetooth"
        BY <1>5, <3>2, <1>1, PcStep DEF SendNone
      <3> QED BY <3>1, <3>2 DEF Tasks
    <2>2. refused' \in BOOLEAN /\ char' \in [Tasks -> Chars]
      BY <1>0, <1>5, LightIsChar DEF DataOK, SendNone
    <2>3. DataOK'
      BY <1>0, <1>5, <2>2 DEF DataOK, SendNone, shared, web, stack
    <2> QED BY <2>1, <2>3
  <1>6. CASE SendStart(t)
    <2>1. PcOK'
      BY <1>6, PcStep DEF SendStart, BtPcs, TimerPcs, SendPcs
    <2>2. DataOK'
      BY <1>0, <1>6 DEF DataOK, SendStart, web, stack
    <2> QED BY <2>1, <2>2
  <1>7. CASE SendPut(t)
    <2>1. PcOK'
      BY <1>7, <1>1, PcStep DEF SendPut, TimerPcs
    <2>2. air' \in [chr : Chars \cup {None}, light : Lights]
      BY <1>0, <1>7 DEF DataOK, SendPut
    <2>3. char' \in [Tasks -> Chars] /\ val' \in [Tasks -> Lights]
      BY <1>0, <1>7, LightIsChar DEF DataOK, SendPut, Lights
    <2>4. DataOK'
      BY <1>0, <1>7, <2>2, <2>3 DEF DataOK, SendPut, shared, web
    <2> QED BY <2>1, <2>4
  <1>8. CASE Release(t)
    <2>1. PcOK'
      BY <1>8, PcStep DEF Release, BtPcs, TimerPcs
    <2>2. DataOK'
      BY <1>0, <1>8 DEF DataOK, Release, web, stack
    <2> QED BY <2>1, <2>2
  <1> QED
    BY <1>2, <1>3, <1>4, <1>5, <1>6, <1>7, <1>8 DEF SendStep

LEMMA TimerTyped ==
  ASSUME TypeOK, PeriodicExpires \/ TimeoutExpires \/ TimerCheck \/ TimerDefer
  PROVE  TypeOK'
  <1>0. PcOK /\ DataOK
    BY TypeParts
  <1>1. PcOK'
    BY PcStep DEF PeriodicExpires, TimeoutExpires, TimerCheck, TimerDefer, TimerPcs, SendPcs, Tasks
  <1>2. DataOK'
    BY <1>0 DEF DataOK, PeriodicExpires, TimeoutExpires, TimerCheck, TimerDefer, shared, web, stack
  <1> QED
    BY <1>1, <1>2 DEF TypeOK, PcOK, DataOK

LEMMA EventsTyped ==
  ASSUME TypeOK, BtEvents
  PROVE  TypeOK'
  <1>0. PcOK /\ DataOK
    BY TypeParts
  <1>1. \E e \in Events : BtEvent(e)
    <2>1. CASE Opened \/ Closed \/ Other
      BY <2>1, EventTyped DEF Opened, Closed, Other
    <2>2. CASE ClientWrites
      BY <2>2, EventTyped DEF ClientWrites
    <2>3. CASE ClientConfigures
      <3>1. PICK c \in Chars, on \in BOOLEAN :
              BtEvent([Event("config") EXCEPT !.chr = c, !.on = on])
        BY <2>3, BluetoothAssumption DEF ClientConfigures
      <3> QED BY <3>1, EventTyped
    <2>4. CASE Confirmed
      <3>1. air.chr \in Chars
        BY <2>4, <1>0 DEF Confirmed, DataOK
      <3> QED BY <2>4, <3>1, EventTyped DEF Confirmed
    <2> QED
      BY <2>1, <2>2, <2>3, <2>4 DEF BtEvents
  <1>2. PICK e \in Events : BtEvent(e)
    BY <1>1
  <1>3. PcOK'
    BY <1>2, PcStep DEF BtEvent, BtPcs, Tasks
  <1>4. link' \in BOOLEAN /\ subscribed' \subseteq Chars
    BY <1>0 DEF BtEvents, Opened, Closed, ClientWrites, ClientConfigures, Confirmed, Other, DataOK,
               stack
  <1>5. air' \in [chr : Chars \cup {None}, light : Lights]
    <2>1. NoAir \in [chr : Chars \cup {None}, light : Lights]
      BY DEF NoAir, Lights
    <2>2. air' = air \/ air' = NoAir
      BY DEF BtEvents, Opened, Closed, ClientWrites, ClientConfigures, Confirmed, Other, stack
    <2> QED
      BY <1>0, <2>1, <2>2 DEF DataOK
  <1>6. DataOK'
    BY <1>0, <1>2, <1>4, <1>5 DEF DataOK, BtEvent, shared, web
  <1> QED
    BY <1>3, <1>6 DEF TypeOK, PcOK, DataOK

LEMMA HandlersTyped ==
  ASSUME TypeOK, BtStep
  PROVE  TypeOK'
  <1>0. PcOK /\ DataOK
    BY TypeParts
  <1>a. Event("other") \in Events
    BY EventTyped
  <1>b. "bluetooth" \in Tasks
    BY DEF Tasks
  <1> SUFFICES PcOK' /\ DataOK'
    BY DEF TypeOK, PcOK, DataOK
  <1>1. CASE SendStep("bluetooth")
    BY <1>1, <1>b, SendTyped, TypeParts DEF TypeOK, PcOK, DataOK
  <1>2. CASE BtClear
    <2>1. PcOK'
      BY <1>2, <1>b, PcStep DEF BtClear, Done, BtPcs, SendPcs
    <2>2. DataOK'
      BY <1>0, <1>a, <1>2 DEF DataOK, BtClear, Done, shared, web, stack
    <2> QED BY <2>1, <2>2
  <1>3. CASE HandleOpened
    <2>1. PcOK'
      BY <1>3, <1>b, PcStep DEF HandleOpened, Done, BtPcs, SendPcs
    <2>2. DataOK'
      BY <1>0, <1>a, <1>3 DEF DataOK, HandleOpened, Done, shared, web, stack
    <2> QED BY <2>1, <2>2
  <1>4. CASE HandleClosed
    <2>1. PcOK'
      BY <1>4, <1>b, PcStep DEF HandleClosed, Done, BtPcs, SendPcs
    <2>2. DataOK'
      BY <1>0, <1>a, <1>4 DEF DataOK, HandleClosed, Done, shared, web, stack
    <2> QED BY <2>1, <2>2
  <1>5. CASE CloseTimer
    <2>1. PcOK'
      BY <1>5, <1>b, PcStep DEF CloseTimer, Done, BtPcs, SendPcs
    <2>2. DataOK'
      BY <1>0, <1>a, <1>5 DEF DataOK, CloseTimer, Done, shared, web, stack
    <2> QED BY <2>1, <2>2
  <1>6. CASE CloseOngoing
    <2>1. PcOK'
      BY <1>6, <1>b, PcStep DEF CloseOngoing, Done, BtPcs, SendPcs
    <2>2. DataOK'
      BY <1>0, <1>a, <1>6 DEF DataOK, CloseOngoing, Done, shared, web, stack
    <2> QED BY <2>1, <2>2
  <1>7. CASE ClosePending
    <2>1. PcOK'
      BY <1>7, <1>b, PcStep DEF ClosePending, Done, BtPcs, SendPcs
    <2>2. DataOK'
      BY <1>0, <1>a, <1>7 DEF DataOK, ClosePending, Done, shared, web, stack
    <2> QED BY <2>1, <2>2
  <1>8. CASE HandleWrite
    <2>1. PcOK'
      BY <1>8, <1>b, PcStep DEF HandleWrite, Done, BtPcs, SendPcs
    <2>2. DataOK'
      BY <1>0, <1>a, <1>8 DEF DataOK, HandleWrite, Done, shared, web, stack
    <2> QED BY <2>1, <2>2
  <1>9. CASE BtStore
    <2>1. PcOK'
      BY <1>9, <1>b, PcStep DEF BtStore, Done, BtPcs, SendPcs
    <2>2. led' \in Lights
      BY <1>0, <1>9 DEF DataOK, Events, BtStore
    <2>3. DataOK'
      BY <1>0, <1>a, <1>9, <2>2 DEF DataOK, BtStore, Done, web, stack
    <2> QED BY <2>1, <2>3
  <1>10. CASE HandleConfig
    <2>1. PcOK'
      BY <1>10, <1>b, PcStep DEF HandleConfig, Done, BtPcs, SendPcs
    <2>2. flag' \subseteq Chars
      BY <1>0, <1>10 DEF DataOK, Events, HandleConfig
    <2>3. DataOK'
      BY <1>0, <1>a, <1>10, <2>2 DEF DataOK, HandleConfig, Done, web, stack
    <2> QED BY <2>1, <2>3
  <1>11. CASE HandleConfirm
    <2>1. PcOK'
      BY <1>11, <1>b, PcStep DEF HandleConfirm, Done, BtPcs, SendPcs
    <2>2. evt.chr + 1 \in Chars
      BY <1>0, <1>11, BluetoothAssumption DEF DataOK, Events, HandleConfirm, Handles, Chars
    <2>3. char' \in [Tasks -> Chars]
      BY <1>0, <1>11, <2>2 DEF DataOK, HandleConfirm
    <2>4. DataOK'
      BY <1>0, <1>a, <1>11, <2>3 DEF DataOK, HandleConfirm, shared, web, stack
    <2> QED BY <2>1, <2>4
  <1>12. CASE HandleLast
    <2>1. PcOK'
      BY <1>12, <1>b, PcStep DEF HandleLast, Done, BtPcs, SendPcs
    <2>2. DataOK'
      BY <1>0, <1>a, <1>12 DEF DataOK, HandleLast, Done, shared, web, stack
    <2> QED BY <2>1, <2>2
  <1>13. CASE HandleOther
    <2>1. PcOK'
      BY <1>13, <1>b, PcStep DEF HandleOther, Done, BtPcs, SendPcs
    <2>2. DataOK'
      BY <1>0, <1>a, <1>13 DEF DataOK, HandleOther, Done, shared, web, stack
    <2> QED BY <2>1, <2>2
  <1>14. CASE OpenPeriodic
    <2>1. PcOK'
      BY <1>14, <1>b, PcStep DEF OpenPeriodic, Done, BtPcs, SendPcs
    <2>2. DataOK'
      BY <1>0, <1>a, <1>14 DEF DataOK, OpenPeriodic, Done, shared, web, stack
    <2> QED BY <2>1, <2>2
  <1>15. CASE ClosePeriodic
    <2>1. PcOK'
      BY <1>15, <1>b, PcStep DEF ClosePeriodic, Done, BtPcs, SendPcs
    <2>2. DataOK'
      BY <1>0, <1>a, <1>15 DEF DataOK, ClosePeriodic, Done, shared, web, stack
    <2> QED BY <2>1, <2>2
  <1> QED
    BY <1>1, <1>2, <1>3, <1>4, <1>5, <1>6, <1>7, <1>8, <1>9, <1>10, <1>11, <1>12, <1>13, <1>14,
       <1>15 DEF BtStep

LEMMA WebTyped ==
  ASSUME TypeOK, WebStep \/ ToggleEnter
  PROVE  TypeOK'
  <1>0. PcOK /\ DataOK
    BY TypeParts
  <1> SUFFICES PcOK' /\ DataOK'
    BY DEF TypeOK, PcOK, DataOK
  <1>1. PcOK'
    BY <1>0 DEF PcOK, WebStep, ToggleEnter, RequestTest, RequestSet, ToggleStore, local
  <1>2. ToggleEnter => DataOK'
    BY <1>0 DEF DataOK, ToggleEnter, shared, local, stack, Lights
  <1>3. RequestTest => DataOK'
    BY <1>0 DEF DataOK, RequestTest, shared, local, stack
  <1>4. RequestSet => DataOK'
    BY <1>0 DEF DataOK, RequestSet, local, stack
  <1>5. ToggleStore => DataOK'
    BY <1>0 DEF DataOK, ToggleStore, local, stack, Lights
  <1> QED
    BY <1>1, <1>2, <1>3, <1>4, <1>5 DEF WebStep

\* Types of the tasks, the stack and the page (app_bluetooth.c 37-58, interface.c 32-35).
THEOREM TypeCorrect == Spec => []TypeOK
  <1>1. Init => TypeOK
    <2> SUFFICES ASSUME Init PROVE PcOK /\ DataOK
      BY TypeParts
    <2>1. PcOK
      BY DEF Init, PcOK, Tasks, BtPcs, TimerPcs
    <2>2. evt \in Events /\ air \in [chr : Chars \cup {None}, light : Lights]
      BY EventTyped DEF Init, NoAir, Lights
    <2>3. char \in [Tasks -> Chars] /\ val \in [Tasks -> Lights]
      BY LightIsChar DEF Init, Lights
    <2>4. DataOK
      BY <2>2, <2>3 DEF Init, DataOK, Lights
    <2> QED
      BY <2>1, <2>4
  <1>2. TypeOK /\ [Next]_vars => TypeOK'
    <2> SUFFICES ASSUME TypeOK, [Next]_vars PROVE TypeOK'
      OBVIOUS
    <2>1. CASE TimerStep
      BY <2>1, SendTyped, TimerTyped DEF TimerStep, Tasks
    <2>2. CASE PeriodicExpires \/ TimeoutExpires
      BY <2>2, TimerTyped
    <2>3. CASE BtStep
      BY <2>3, HandlersTyped
    <2>4. CASE BtEvents
      BY <2>4, EventsTyped
    <2>5. CASE WebStep \/ ToggleEnter
      BY <2>5, WebTyped
    <2>6. CASE UNCHANGED vars
      BY <2>6 DEF vars, shared, local, web, stack, TypeOK
    <2> QED
      BY <2>1, <2>2, <2>3, <2>4, <2>5, <2>6 DEF Next
  <1> QED
    BY <1>1, <1>2, PTL DEF Spec

-----------------------------------------------------------------------------
(* A chain that is ongoing. *)

Accounted == timeout \/ refused \/ \E t \in Tasks : Acting(t)

\* A task that neither stops the timer nor leaves its place changes nothing of it.
LEMMA WatchedKept ==
  ASSUME TypeOK, OngoingIsWatched,
         ongoing' = ongoing, timeout' = timeout, refused' = refused,
         NEW t \in Tasks, NEW l, Goto(t, l), ~Acting(t) \/ l \in {"stop", "test", "start", "release"}
  PROVE  OngoingIsWatched'
  <1> SUFFICES ASSUME ongoing' PROVE Accounted'
    BY DEF OngoingIsWatched, Accounted
  <1>1. CASE timeout \/ refused
    BY <1>1 DEF Accounted
  <1>2. CASE \E u \in Tasks : Acting(u)
    <2>1. PICK u \in Tasks : Acting(u)
      BY <1>2
    <2>2. CASE u # t
      <3>1. pc'[u] = pc[u]
        BY <2>2, PcIsFunction
      <3> QED BY <2>1, <3>1 DEF Acting, Accounted
    <2>3. CASE u = t
      <3>1. pc'[t] = l
        BY PcIsFunction
      <3> QED BY <2>1, <2>3, <3>1 DEF Acting, Accounted
    <2> QED BY <2>2, <2>3
  <1> QED
    BY <1>1, <1>2 DEF OngoingIsWatched

\* Whoever comes to a place from which it starts the timer or clears the flag accounts for it.
LEMMA ActingWatches ==
  ASSUME TypeOK, NEW t \in Tasks,
         NEW l \in {"stop", "test", "start", "release", "close_timer", "close_ongoing"}, Goto(t, l)
  PROVE  OngoingIsWatched'
  <1>1. pc'[t] = l
    BY PcIsFunction
  <1> QED
    BY <1>1 DEF OngoingIsWatched, Acting

LEMMA SendWatched ==
  ASSUME TypeOK, OngoingIsWatched, NEW t \in Tasks, SendStep(t)
  PROVE  OngoingIsWatched'
  <1>1. CASE Claim(t)
    BY <1>1, ActingWatches DEF Claim
  <1>2. CASE SendStop(t)
    BY <1>2, ActingWatches DEF SendStop
  <1>3. CASE SendTest(t)
    BY <1>3, ActingWatches DEF SendTest
  <1>4. CASE SendNone(t)
    <2>1. CASE t = "timer"
      BY <1>4, <2>1, ActingWatches DEF SendNone
    <2>2. CASE t # "timer"
      <3>1. refused' = ongoing /\ ongoing' = ongoing
        BY <1>4, <2>2 DEF SendNone, shared
      <3> QED BY <3>1 DEF OngoingIsWatched
    <2> QED BY <2>1, <2>2
  <1>5. CASE SendStart(t)
    BY <1>5 DEF SendStart, OngoingIsWatched
  <1>6. CASE SendPut(t)
    BY <1>6, WatchedKept DEF SendPut, Acting, shared
  <1>7. CASE Release(t)
    BY <1>7 DEF Release, OngoingIsWatched
  <1> QED
    BY <1>1, <1>2, <1>3, <1>4, <1>5, <1>6, <1>7 DEF SendStep

LEMMA BtWatched ==
  ASSUME TypeOK, OngoingIsWatched, BtStep \/ BtEvents
  PROVE  OngoingIsWatched'
  <1>b. "bluetooth" \in Tasks
    BY DEF Tasks
  <1>1. CASE SendStep("bluetooth")
    BY <1>1, <1>b, SendWatched
  <1>2. CASE BtClear \/ HandleOpened \/ HandleWrite \/ BtStore \/ HandleConfig \/ HandleOther
              \/ OpenPeriodic \/ HandleClosed \/ ClosePending
    <2>1. ongoing' = ongoing /\ timeout' = timeout /\ refused' = refused
      BY <1>2 DEF BtClear, HandleOpened, HandleWrite, BtStore, HandleConfig, HandleOther,
                  OpenPeriodic, HandleClosed, ClosePending, shared
    <2>2. ~Acting("bluetooth") /\ \E l \in {"claim", "idle", "store", "open_periodic", "close_periodic"} : Goto("bluetooth", l)
      BY <1>2 DEF BtClear, HandleOpened, HandleWrite, BtStore, HandleConfig, HandleOther,
                  OpenPeriodic, HandleClosed, ClosePending, Handles, Acting, Done
    <2> QED BY <2>1, <2>2, <1>b, WatchedKept
  <1>3. CASE ClosePeriodic \/ CloseTimer \/ HandleConfirm \/ HandleLast
    BY <1>3, <1>b, ActingWatches DEF ClosePeriodic, CloseTimer, HandleConfirm, HandleLast
  <1>4. CASE CloseOngoing
    BY <1>4 DEF CloseOngoing, OngoingIsWatched
  <1>5. CASE BtEvents
    <2>1. PICK e : BtEvent(e)
      BY <1>5 DEF BtEvents, Opened, Closed, ClientWrites, ClientConfigures, Confirmed, Other
    <2> QED BY <2>1, <1>b, WatchedKept DEF BtEvent, Acting, shared
  <1> QED
    BY <1>1, <1>2, <1>3, <1>4, <1>5 DEF BtStep

LEMMA TimerWatched ==
  ASSUME TypeOK, OngoingIsWatched, PeriodicExpires \/ TimeoutExpires \/ TimerStep
  PROVE  OngoingIsWatched'
  <1>b. "timer" \in Tasks
    BY DEF Tasks
  <1>1. CASE SendStep("timer")
    BY <1>1, <1>b, SendWatched
  <1>2. CASE TimeoutExpires
    BY <1>2, <1>b, ActingWatches DEF TimeoutExpires
  <1>3. CASE PeriodicExpires
    BY <1>3, <1>b, WatchedKept DEF PeriodicExpires, Acting, shared
  <1>4. CASE TimerCheck
    BY <1>4, <1>b, WatchedKept DEF TimerCheck, Acting, shared
  <1>5. CASE TimerDefer
    BY <1>5, <1>b, WatchedKept DEF TimerDefer, Acting
  <1> QED
    BY <1>1, <1>2, <1>3, <1>4, <1>5 DEF TimerStep

\* A chain that is ongoing has its timer, or a task that is about to start it or to end the
\* chain, unless a send was refused (app_bluetooth.c 172-258, 313-346, 385-389, 502-519, 627-688).
THEOREM ChainIsWatched == Spec => []OngoingIsWatched
  <1>1. Init => OngoingIsWatched
    BY DEF Init, OngoingIsWatched
  <1>2. TypeOK /\ OngoingIsWatched /\ [Next]_vars => OngoingIsWatched'
    <2> SUFFICES ASSUME TypeOK, OngoingIsWatched, [Next]_vars PROVE OngoingIsWatched'
      OBVIOUS
    <2>1. CASE TimerStep \/ PeriodicExpires \/ TimeoutExpires
      BY <2>1, TimerWatched
    <2>2. CASE BtStep \/ BtEvents
      BY <2>2, BtWatched
    <2>3. CASE WebStep \/ ToggleEnter \/ UNCHANGED vars
      BY <2>3 DEF WebStep, ToggleEnter, RequestTest, RequestSet, ToggleStore, vars, shared, local,
                  OngoingIsWatched, Acting
    <2> QED
      BY <2>1, <2>2, <2>3 DEF Next
  <1> QED
    BY <1>1, <1>2, TypeCorrect, PTL DEF Spec
=============================================================================
