---------------------------- MODULE DriverLifecycle ----------------------------
(***************************************************************************)
(* The life of the virtual monitor in the driver, windows/driver/          *)
(* Driver.cpp, under the handle that display/driver.rs opens: depart() and *)
(* arrive() for the host's requests, Assign and Unassign for IddCx, the    *)
(* threads that serve a swapchain, and the device's mutex.                 *)
(*                                                                         *)
(* Requests are one at a time (the other mutex, requests), and so are the  *)
(* callbacks; a callback and a request may overlap.  IddCx calls back for  *)
(* monitors that have arrived, and may call Unassign on the thread that    *)
(* notifies it of a departure.                                             *)
(***************************************************************************)
EXTENDS Naturals, FiniteSets

CONSTANTS Monitors,   \* bound: monitors created
          Workers     \* bound: swapchain workers started

ASSUME DriverAssumption == Monitors \in Nat /\ Workers \in Nat

VARIABLES
  handle,       \* the host has the device open
  request, rpc, \* the request being served and where it is
  old,          \* the monitor depart() works on
  monitor,      \* Device::monitor
  arrived,      \* monitors IddCx knows
  created,      \* monitors created so far
  cpc, target,  \* the callback: where it is, its monitor
  worker,       \* Device::worker
  owner, phase, stop,  \* each worker's monitor, place and stop event
  started,      \* workers started so far
  joins,        \* the worker each thread is about to join
  mutex,        \* who waits with Device::mutex in its hands, or 0
  shown,        \* the monitor whose image Device::status describes, or 0
  late          \* history: a departure has overtaken a callback

requestVars == <<handle, request, rpc, old>>
deviceVars  == <<monitor, arrived, created, worker, shown, late>>
callVars    == <<cpc, target>>
threadVars  == <<owner, phase, stop, started, joins>>
driverVars  == <<requestVars, deviceVars, callVars, threadVars, mutex>>

Monitor == 1..Monitors
Worker  == 1..Workers

\* The threads that wait: the one that serves a request and the one of a callback.
Server == Workers + 1
Caller == Workers + 2

DriverTypeOK ==
  /\ handle \in BOOLEAN /\ request \in {"none", "start", "stop", "cleanup"}
  /\ rpc \in {"idle", "take", "notify", "unassign", "unassigned", "stop", "join", "clear",
              "create", "publish", "arrive", "fail", "arrived"}
  /\ cpc \in {"idle", "stop", "join", "reset", "start", "swap", "discard",
              "unassign", "unassigned"}
  /\ {old, monitor, created, target, shown} \subseteq 0..Monitors
  /\ arrived \subseteq Monitor /\ Cardinality(arrived) <= 1
  /\ worker \in 0..Workers /\ started \in 0..Workers
  /\ owner \in [Worker -> 0..Monitors] /\ stop \in [Worker -> BOOLEAN]
  /\ phase \in [Worker -> {"none", "loop", "image", "done"}]
  /\ joins \in [{Server, Caller} -> 0..Workers]
  /\ mutex \in {0, Server}
  /\ late \in BOOLEAN

DriverInit ==
  /\ handle = FALSE /\ request = "none" /\ rpc = "idle" /\ old = 0
  /\ monitor = 0 /\ arrived = {} /\ created = 0 /\ cpc = "idle" /\ target = 0
  /\ worker = 0 /\ owner = [w \in Worker |-> 0] /\ phase = [w \in Worker |-> "none"]
  /\ stop = [w \in Worker |-> FALSE] /\ started = 0
  /\ joins = [t \in {Server, Caller} |-> 0]
  /\ mutex = 0 /\ shown = 0 /\ late = FALSE
-----------------------------------------------------------------------------
(* The mutex.  No thread waits for anything while it holds it, so what is   *)
(* done under one lock is one step, of a time when nobody has it.          *)

Locking == mutex = 0 /\ UNCHANGED mutex

\* stopWorker(expected): the worker is moved out under the mutex, its destructor
\* stops and joins it outside.
Matches(expected) == worker # 0 /\ (expected = 0 \/ owner[worker] = expected)

MoveOut(t, expected) ==
  IF Matches(expected)
  THEN /\ joins' = [joins EXCEPT ![t] = worker]
       /\ stop' = [stop EXCEPT ![worker] = TRUE] /\ worker' = 0
  ELSE UNCHANGED <<joins, stop, worker>>

Joined(t) ==
  /\ \A w \in Worker : joins[t] = w => phase[w] = "done"
  /\ joins' = [joins EXCEPT ![t] = 0]
-----------------------------------------------------------------------------
(* The host's handle and its requests.                                     *)

\* Driver::open(): nobody else has it.
OpenHandle ==
  /\ ~handle /\ rpc = "idle" /\ handle' = TRUE
  /\ UNCHANGED <<request, rpc, old, deviceVars, callVars, threadVars, mutex>>

\* SD_START or SD_STOP; a start that is not valid or comes too early returns at once.
Request(kind) ==
  /\ handle /\ rpc = "idle" /\ kind \in {"start", "stop"}
  /\ kind = "start" => created < Monitors
  /\ request' = kind /\ rpc' = "take"
  /\ UNCHANGED <<handle, old, deviceVars, callVars, threadVars, mutex>>

\* The handle is closed, by drop or by the end of the process: FileCleanup.
Close ==
  /\ handle /\ rpc = "idle" /\ handle' = FALSE
  /\ request' = "cleanup" /\ rpc' = "take"
  /\ UNCHANGED <<old, deviceVars, callVars, threadVars, mutex>>
-----------------------------------------------------------------------------
(* depart().                                                               *)

\* Mutant: the mutex is kept while IddCx is notified.
TakeMonitorLocked ==
  /\ rpc = "take" /\ mutex = 0 /\ mutex' = IF monitor # 0 THEN Server ELSE 0
  /\ old' = monitor /\ monitor' = 0
  /\ rpc' = IF monitor # 0 THEN "notify" ELSE "stop"
  /\ UNCHANGED <<handle, request, arrived, created, worker, shown, late, callVars,
                 threadVars>>

TakeMonitor ==
  /\ rpc = "take" /\ Locking
  /\ old' = monitor /\ monitor' = 0
  /\ rpc' = IF monitor # 0 THEN "notify" ELSE "stop"
  /\ UNCHANGED <<handle, request, arrived, created, worker, shown, late, callVars,
                 threadVars>>

\* IddCxMonitorDeparture(), which calls Unassign before it returns, or does not.
Notify ==
  /\ rpc = "notify" /\ arrived' = arrived \ {old}
  /\ rpc' \in {"unassign", "stop"}
  /\ mutex' = IF rpc' = "stop" THEN 0 ELSE mutex
  /\ UNCHANGED <<handle, request, old, monitor, created, worker, shown, late, callVars,
                 threadVars>>

UnassignInside ==
  /\ rpc = "unassign" /\ Locking /\ MoveOut(Server, old)
  /\ rpc' = "unassigned"
  /\ UNCHANGED <<handle, request, old, monitor, arrived, created, shown, late, callVars,
                 owner, phase, started>>

UnassignedInside ==
  /\ rpc = "unassigned" /\ Joined(Server) /\ rpc' = "stop"
  /\ UNCHANGED <<handle, request, old, deviceVars, callVars, owner, phase, stop, started,
                 mutex>>

StopWorker ==
  /\ rpc = "stop" /\ Locking /\ MoveOut(Server, old)
  /\ rpc' = "join"
  /\ UNCHANGED <<handle, request, old, monitor, arrived, created, shown, late, callVars,
                 owner, phase, started>>

JoinWorker ==
  /\ rpc = "join" /\ Joined(Server) /\ rpc' = "clear"
  /\ UNCHANGED <<handle, request, old, deviceVars, callVars, owner, phase, stop, started,
                 mutex>>

\* The last of depart(); a start goes on in arrive().
Clear ==
  /\ rpc = "clear" /\ Locking /\ shown' = 0 /\ late' = (late \/ cpc # "idle")
  /\ rpc' = IF request = "start" THEN "create" ELSE "idle"
  /\ UNCHANGED <<handle, request, old, monitor, arrived, created, worker, callVars,
                 threadVars>>
-----------------------------------------------------------------------------
(* arrive().                                                               *)

\* IddCxMonitorCreate(), which may fail.
CreateMonitor ==
  /\ rpc = "create"
  /\ \/ rpc' = "publish" /\ created' = created + 1
     \/ rpc' = "idle" /\ UNCHANGED created
  /\ UNCHANGED <<handle, request, old, monitor, arrived, worker, shown, late, callVars,
                 threadVars, mutex>>

Publish ==
  /\ rpc = "publish" /\ Locking /\ monitor' = created /\ rpc' = "arrive"
  /\ UNCHANGED <<handle, request, old, arrived, created, worker, shown, late, callVars,
                 threadVars>>

\* IddCxMonitorArrival(): callbacks begin before it returns.
Arrive ==
  /\ rpc = "arrive"
  /\ \/ rpc' = "arrived" /\ arrived' = arrived \cup {created}
     \/ rpc' = "fail" /\ UNCHANGED arrived
  /\ UNCHANGED <<handle, request, old, monitor, created, worker, shown, late, callVars,
                 threadVars, mutex>>

ArrivalFails ==
  /\ rpc = "fail" /\ Locking /\ monitor' = 0 /\ rpc' = "idle"
  /\ UNCHANGED <<handle, request, old, arrived, created, worker, shown, late, callVars,
                 threadVars>>

Arrived ==
  /\ rpc = "arrived" /\ rpc' = "idle"
  /\ UNCHANGED <<handle, request, old, deviceVars, callVars, threadVars, mutex>>
-----------------------------------------------------------------------------
(* Callbacks of IddCx.                                                     *)

BeginAssign(m) ==
  /\ cpc = "idle" /\ m \in arrived /\ started < Workers
  /\ cpc' = "stop" /\ target' = m
  /\ UNCHANGED <<requestVars, deviceVars, threadVars, mutex>>

AssignStops ==
  /\ cpc = "stop" /\ Locking /\ MoveOut(Caller, target) /\ cpc' = "join"
  /\ UNCHANGED <<requestVars, monitor, arrived, created, shown, late, target, owner, phase,
                 started>>

AssignJoins ==
  /\ cpc = "join" /\ Joined(Caller) /\ cpc' = "reset"
  /\ UNCHANGED <<requestVars, deviceVars, target, owner, phase, stop, started, mutex>>

AssignResets ==
  /\ cpc = "reset" /\ Locking /\ shown' = 0 /\ cpc' = "start"
  /\ UNCHANGED <<requestVars, monitor, arrived, created, worker, late, target, threadVars>>

\* The new worker runs at once; its thread may not be had.
AssignStarts ==
  /\ cpc = "start"
  /\ \/ /\ cpc' = "swap" /\ started' = started + 1
        /\ owner' = [owner EXCEPT ![started + 1] = target]
        /\ phase' = [phase EXCEPT ![started + 1] = "loop"]
     \/ cpc' = "idle" /\ UNCHANGED <<started, owner, phase>>
  /\ UNCHANGED <<requestVars, deviceVars, target, stop, joins, mutex>>

\* Mutant: without the look at the device's monitor.
StillThereAssumed == TRUE
StillThere        == monitor = target

\* The new worker becomes the device's if its monitor still is; what is left over,
\* itself or the one before, is destroyed outside the mutex.
AssignSwaps ==
  /\ cpc = "swap" /\ Locking /\ cpc' = "discard"
  /\ worker' = IF StillThere THEN started ELSE worker
  /\ joins' = [joins EXCEPT ![Caller] = IF StillThere THEN worker ELSE started]
  /\ stop' = [w \in Worker |-> stop[w] \/ w = joins'[Caller]]
  /\ UNCHANGED <<requestVars, monitor, arrived, created, shown, late, target, owner, phase,
                 started>>

AssignEnds ==
  /\ cpc = "discard" /\ Joined(Caller) /\ cpc' = "idle"
  /\ UNCHANGED <<requestVars, deviceVars, target, owner, phase, stop, started, mutex>>

BeginUnassign(m) ==
  /\ cpc = "idle" /\ m \in arrived /\ cpc' = "unassign" /\ target' = m
  /\ UNCHANGED <<requestVars, deviceVars, threadVars, mutex>>

Unassign ==
  /\ cpc = "unassign" /\ Locking /\ MoveOut(Caller, target)
  /\ cpc' = "unassigned"
  /\ UNCHANGED <<requestVars, monitor, arrived, created, shown, late, target, owner, phase,
                 started>>

Unassigned ==
  /\ cpc = "unassigned" /\ Joined(Caller) /\ cpc' = "idle"
  /\ UNCHANGED <<requestVars, deviceVars, target, owner, phase, stop, started, mutex>>
-----------------------------------------------------------------------------
(* A worker's loop.                                                        *)

At(w, from, to) == phase[w] = from /\ phase' = [phase EXCEPT ![w] = to]

\* There is an image; the stop event was not set when it looked.
AcquireImage(w) ==
  /\ ~stop[w] /\ At(w, "loop", "image")
  /\ UNCHANGED <<requestVars, deviceVars, callVars, owner, stop, started, joins, mutex>>

\* The image fixes the geometry and goes into a texture, under the mutex.
WriteImage(w) ==
  /\ Locking /\ At(w, "image", "loop") /\ shown' = owner[w]
  /\ UNCHANGED <<requestVars, monitor, arrived, created, worker, late, callVars, owner,
                 stop, started, joins>>

LeaveLoop(w) ==
  /\ At(w, "loop", "done")
  /\ UNCHANGED <<requestVars, deviceVars, callVars, owner, stop, started, joins, mutex>>

SeesStop(w) == stop[w] /\ LeaveLoop(w)
Breaks(w)   == ~stop[w] /\ LeaveLoop(w)
-----------------------------------------------------------------------------
ServeRequest ==
  \/ TakeMonitor \/ Notify \/ UnassignInside \/ UnassignedInside \/ StopWorker
  \/ JoinWorker \/ Clear \/ CreateMonitor \/ Publish \/ Arrive \/ ArrivalFails \/ Arrived

ServeCallback ==
  \/ AssignStops \/ AssignJoins \/ AssignResets \/ AssignStarts \/ AssignSwaps
  \/ AssignEnds \/ Unassign \/ Unassigned

WorkerStep(w) == WriteImage(w) \/ SeesStop(w)

DriverNext ==
  \/ OpenHandle \/ Close \/ (\E kind \in {"start", "stop"} : Request(kind))
  \/ ServeRequest
  \/ \E m \in Monitor : BeginAssign(m) \/ BeginUnassign(m)
  \/ ServeCallback
  \/ \E w \in Worker : AcquireImage(w) \/ WorkerStep(w) \/ Breaks(w)

\* Threads run and get the mutex when it is free.  Neither the host, IddCx nor an image
\* has to come.
DriverFairness ==
  /\ WF_driverVars(ServeRequest) /\ WF_driverVars(ServeCallback)
  /\ \A w \in Worker : WF_driverVars(WorkerStep(w))

DriverSpec == DriverInit /\ [][DriverNext]_driverVars /\ DriverFairness
-----------------------------------------------------------------------------
(* Properties.                                                             *)

Quiet == rpc = "idle" /\ cpc = "idle"
Alive == {w \in Worker : phase[w] \in {"loop", "image"}}

\* Whatever overlaps, no worker outlives its monitor: with nothing under way, what
\* runs is the device's own worker for the monitor the device has.
NoOrphan == Quiet => \A w \in Alive : w = worker /\ owner[w] = monitor /\ monitor \in arrived

\* A host that has gone, however, leaves no monitor and no worker behind.
NothingLeft == (Quiet /\ ~handle) => monitor = 0 /\ arrived = {} /\ Alive = {}

\* The status describes the monitor there is, or nothing, unless a callback of a
\* monitor that has departed was still under way when depart() cleared the status:
\* its worker may write once more.
StatusOfMonitor == (Quiet /\ ~late) => shown \in {0, monitor}

\* With nothing under way, device, handle, workers and status are in step.
DriverInv == DriverTypeOK /\ NoOrphan /\ NothingLeft /\ StatusOfMonitor

\* "never hold mutex while notifying it": requests, callbacks and workers wait for
\* each other and for the mutex, but never in a circle.
NobodyStuck == []<>(rpc = "idle") /\ []<>(cpc = "idle")
=============================================================================
