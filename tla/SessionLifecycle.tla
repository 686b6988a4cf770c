--------------------------- MODULE SessionLifecycle ---------------------------
(***************************************************************************)
(* The Windows host's session lifecycle: windows/host/src/app/runtime.rs   *)
(* with the state of windows/host/src/app/mod.rs.                          *)
(*                                                                         *)
(* Three kinds of actors run concurrently: the tokio task in run() and     *)
(* session(), one input task per session (which abort() stops only at an   *)
(* await), and the pipeline's worker thread, which owns the driver handle, *)
(* the encoder and the input injector.  They share the bounded command     *)
(* queue, the bounded event channel and the latest-frame watch.  Windows   *)
(* and the display driver act on their own on the monitor.                 *)
(*                                                                         *)
(* Deadlines are numbers of ticks left.  Sessions are numbered so that an  *)
(* event or a frame can be told from another session's; the program keeps  *)
(* no such number.                                                         *)
(***************************************************************************)
EXTENDS Naturals, Sequences

CONSTANTS Device, NoDevice,
          Fps,           \* refresh rates a mode list can be made with
          MaxSessions,   \* bound: sessions attached in a behaviour
          QueueCap,      \* sync_channel(256)
          EventCap,      \* mpsc::channel(4)
          Grace,         \* reconnect_grace_ms, in ticks
          Startup        \* the 8 s startup limit, in ticks

ASSUME LifecycleAssumption ==
  /\ NoDevice \notin Device
  /\ Fps \subseteq Nat \ {0} /\ Fps # {}
  /\ MaxSessions \in Nat
  /\ QueueCap \in Nat \ {0}
  /\ EventCap \in Nat \ {0}
  /\ Grace \in Nat \ {0}
  /\ Startup \in Nat \ {0}

VARIABLES
  \* run() and session()
  host,        \* where the task is
  sid,         \* sessions attached so far
  peer,        \* the device of the session in hand
  conn,        \* its QUIC connection is open
  stopped,     \* session() returned Ok(true)
  reserve,     \* run()'s reservation: device and ticks left
  exit,        \* ui.exit
  task,        \* the input task of each session
  \* channels of the Pipeline
  queue, events,
  frame,       \* session of the unread frame in the watch, 0 if none
  \* the worker thread
  worker, state, serving, opened, encoder, injector, modes, startup,
  \* the display driver and Windows
  monitor, active

hostVars    == <<host, sid, peer, conn, stopped, reserve, exit, task>>
channelVars == <<queue, events, frame>>
nativeVars  == <<opened, encoder, injector>>
workerVars  == <<worker, state, serving, nativeVars, modes, startup>>
displayVars == <<monitor, active>>
vars == <<hostVars, channelVars, workerVars, displayVars>>

Session   == 1..MaxSessions
Off       == Startup + 1                       \* startup is None
NoReserve == [dev |-> NoDevice, left |-> 0]

Idle         == [kind |-> "Idle", dev |-> NoDevice, left |-> 0]
Streaming(d) == [kind |-> "Streaming", dev |-> d, left |-> 0]
Graced(d)    == [kind |-> "Grace", dev |-> d, left |-> Grace]

Connect(d, f, s) == [op |-> "Connect", dev |-> d, fps |-> f, sid |-> s]
Disconnect(i)    == [op |-> "Disconnect", immediate |-> i]
Mode(f)          == [op |-> "Mode", fps |-> f]
Plain(op)        == [op |-> op]

Command ==
  {Connect(d, f, s) : d \in Device, f \in Fps, s \in Session}
    \cup {Disconnect(i) : i \in BOOLEAN}
    \cup {Mode(f) : f \in Fps}
    \cup {Plain(op) : op \in {"Input", "Placement", "Shutdown"}}

Event == [kind : {"Ready", "Failed"}, sid : 0..MaxSessions]

HostTypeOK ==
  /\ host \in {"listen", "prelude", "session", "ending", "stopping", "joining", "exited"}
  /\ sid \in 0..MaxSessions
  /\ peer \in Device \cup {NoDevice}
  /\ reserve \in [dev : Device \cup {NoDevice}, left : 0..Grace]
  /\ task \in [Session -> {"none", "reading", "sending", "detaching", "done"}]

QueueOK  == queue \in Seq(Command) /\ Len(queue) <= QueueCap
EventsOK == events \in Seq(Event) /\ Len(events) <= EventCap

WorkerTypeOK ==
  /\ worker \in {"recv", "tail", "stopped"}
  /\ state \in [kind : {"Idle", "Streaming", "Grace"},
                dev : Device \cup {NoDevice}, left : 0..Grace]
  /\ serving \in 0..MaxSessions
  /\ encoder \in {"none", "current", "outdated"}
  /\ modes \in Fps \cup {0}
  /\ startup \in 0..Off
  /\ monitor \in Device \cup {NoDevice}

FlagsOK ==
  /\ conn \in BOOLEAN /\ stopped \in BOOLEAN /\ exit \in BOOLEAN
  /\ opened \in BOOLEAN /\ injector \in BOOLEAN /\ active \in BOOLEAN

TypeOK ==
  /\ HostTypeOK
  /\ QueueOK /\ EventsOK /\ frame \in 0..MaxSessions
  /\ WorkerTypeOK
  /\ FlagsOK

Init ==
  /\ host = "listen" /\ sid = 0 /\ peer = NoDevice /\ conn = FALSE
  /\ stopped = FALSE /\ reserve = NoReserve /\ exit = FALSE
  /\ task = [s \in Session |-> "none"]
  /\ queue = <<>> /\ events = <<>> /\ frame = 0
  /\ worker = "recv" /\ state = Idle /\ serving = 0
  /\ opened = FALSE /\ encoder = "none" /\ injector = FALSE
  /\ modes = 0 /\ startup = Off
  /\ monitor = NoDevice /\ active = FALSE
-----------------------------------------------------------------------------
(* The host task.                                                          *)

\* SyncSender::try_send: full, or the worker has dropped its receiver.
Room == Len(queue) < QueueCap /\ worker # "stopped"
Send(c) == Room /\ queue' = Append(queue, c)

\* Mutant: a Disconnect that finds the queue full is dropped, and run() goes on.
SendOrForget(c) ==
  /\ host' = "listen"
  /\ Send(c) \/ (~Room /\ UNCHANGED queue)

\* A failed command(..)? leaves run(): its Pipeline is dropped.
SendOrStop(c) ==
  \/ Send(c) /\ host' = "listen"
  \/ ~Room /\ host' = "stopping" /\ UNCHANGED queue

\* An authenticated connection passes the reservation check, earlier events and
\* the frame are discarded, and session() starts.
Attach(d) ==
  /\ host = "listen" /\ ~exit /\ sid < MaxSessions
  /\ reserve = NoReserve \/ reserve.dev = d
  /\ host' = "prelude" /\ sid' = sid + 1 /\ peer' = d /\ conn' = TRUE
  /\ events' = <<>> /\ frame' = 0
  /\ UNCHANGED <<stopped, reserve, exit, task, queue, workerVars, displayVars>>

\* session() returns; dropping input_task aborts it if it is at an await.
Leave(ok) ==
  /\ host' = "ending" /\ stopped' = ok
  /\ task' = [task EXCEPT ![sid] = IF @ \in {"none", "reading"} THEN "done" ELSE @]

\* The capabilities are usable and the Connect command goes to the worker.
SendConnect(f) ==
  /\ host = "prelude"
  /\ Send(Connect(peer, f, sid)) /\ host' = "session"
  /\ UNCHANGED <<sid, peer, conn, stopped, reserve, exit, task, events, frame,
                 workerVars, displayVars>>

\* The capabilities are late or unusable, or the queue is full.
PreludeFails ==
  /\ host = "prelude" /\ Leave(FALSE)
  /\ UNCHANGED <<sid, peer, conn, reserve, exit, channelVars, workerVars, displayVars>>

\* The peer closes, idles out or breaks the control stream's protocol.
ConnectionLost ==
  /\ host \in {"prelude", "session"} /\ conn
  /\ conn' = FALSE
  /\ UNCHANGED <<host, sid, peer, stopped, reserve, exit, task, channelVars,
                 workerVars, displayVars>>

\* SessionStop with reason 0, or Disconnect in the tray menu.
SessionStop ==
  /\ host = "session" /\ Leave(TRUE)
  /\ UNCHANGED <<sid, peer, conn, reserve, exit, channelVars, workerVars, displayVars>>

\* The connection is gone, or the tray's Exit reached the session.
SessionClosed ==
  /\ host = "session" /\ (~conn \/ exit) /\ Leave(FALSE)
  /\ UNCHANGED <<sid, peer, conn, reserve, exit, channelVars, workerVars, displayVars>>

\* DisplayModeChange from the iPad and Position from the tray become commands;
\* a full queue ends the session.
SessionCommand(c) ==
  /\ host = "session"
  /\ \/ Send(c) /\ UNCHANGED <<host, stopped, task>>
     \/ ~Room /\ Leave(FALSE) /\ UNCHANGED queue
  /\ UNCHANGED <<sid, peer, conn, reserve, exit, events, frame, workerVars, displayVars>>

\* VideoConfig is written to the control stream.
SessionReady ==
  /\ host = "session" /\ events # <<>> /\ Head(events).kind = "Ready"
  /\ events' = Tail(events)
  /\ UNCHANGED <<hostVars, queue, frame, workerVars, displayVars>>

\* Event::Failed ends the session.
SessionFailed ==
  /\ host = "session" /\ events # <<>> /\ Head(events).kind = "Failed"
  /\ events' = Tail(events) /\ Leave(FALSE)
  /\ UNCHANGED <<sid, peer, conn, reserve, exit, queue, frame, workerVars, displayVars>>

\* The newest frame is taken from the watch and sent as datagrams.
SessionFrame ==
  /\ host = "session" /\ frame # 0
  /\ frame' = 0
  /\ UNCHANGED <<hostVars, queue, events, workerVars, displayVars>>

\* run() reports the end of the session to the worker and starts its own
\* reservation clock.
EndSession ==
  LET immediate == stopped \/ exit IN
  /\ host = "ending"
  /\ SendOrStop(Disconnect(immediate))
  /\ reserve' = IF ~Room THEN reserve
                ELSE IF immediate THEN NoReserve
                ELSE [dev |-> peer, left |-> Grace]
  /\ conn' = FALSE /\ peer' = NoDevice /\ stopped' = FALSE
  /\ UNCHANGED <<sid, exit, task, events, frame, workerVars, displayVars>>

\* Tray Disconnect and Position while no iPad is connected.
IdleDisconnect ==
  /\ host = "listen" /\ reserve' = NoReserve
  /\ SendOrStop(Disconnect(TRUE))
  /\ UNCHANGED <<sid, peer, conn, stopped, exit, task, events, frame, workerVars, displayVars>>

IdlePlacement ==
  /\ host = "listen" /\ SendOrStop(Plain("Placement"))
  /\ UNCHANGED <<sid, peer, conn, stopped, reserve, exit, task, events, frame,
                 workerVars, displayVars>>

UserExits ==
  /\ ~exit /\ exit' = TRUE
  /\ UNCHANGED <<host, sid, peer, conn, stopped, reserve, task, channelVars,
                 workerVars, displayVars>>

\* run() leaves its loop.
IdleStops ==
  /\ host = "listen" /\ exit /\ host' = "stopping"
  /\ UNCHANGED <<sid, peer, conn, stopped, reserve, exit, task, channelVars,
                 workerVars, displayVars>>

\* Mutant: drop() uses try_send as everything else does.
TrySendShutdown ==
  /\ host = "stopping" /\ host' = "joining"
  /\ Send(Plain("Shutdown")) \/ (~Room /\ UNCHANGED queue)
  /\ UNCHANGED <<sid, peer, conn, stopped, reserve, exit, task, events, frame,
                 workerVars, displayVars>>

\* Pipeline::drop: a blocking send of Shutdown, then join.
SendShutdown ==
  /\ host = "stopping" /\ Send(Plain("Shutdown")) /\ host' = "joining"
  /\ UNCHANGED <<sid, peer, conn, stopped, reserve, exit, task, events, frame,
                 workerVars, displayVars>>

Joined ==
  /\ host = "joining" /\ worker = "stopped" /\ host' = "exited"
  /\ UNCHANGED <<sid, peer, conn, stopped, reserve, exit, task, channelVars,
                 workerVars, displayVars>>
-----------------------------------------------------------------------------
(* The input task of session s.                                            *)

AcceptInput ==
  /\ host = "session" /\ conn /\ task[sid] = "none"
  /\ task' = [task EXCEPT ![sid] = "reading"]
  /\ UNCHANGED <<host, sid, peer, conn, stopped, reserve, exit, channelVars,
                 workerVars, displayVars>>

\* read_packet returned and the packet passed its checks; no await follows
\* until the command is sent.
InputPacket(s) ==
  /\ task[s] = "reading" /\ task' = [task EXCEPT ![s] = "sending"]
  /\ UNCHANGED <<host, sid, peer, conn, stopped, reserve, exit, channelVars,
                 workerVars, displayVars>>

\* A failed task closes its own connection before it sends Disconnect.
CloseConnection(s) ==
  /\ task' = [task EXCEPT ![s] = "detaching"]
  /\ conn' = (conn /\ s # sid)

InputSend(s) ==
  /\ task[s] = "sending"
  /\ \/ /\ Send(Plain("Input")) /\ UNCHANGED conn
        /\ task' = [task EXCEPT ![s] =
                      IF s = sid /\ host = "session" THEN "reading" ELSE "done"]
     \/ ~Room /\ CloseConnection(s) /\ UNCHANGED queue
  /\ UNCHANGED <<host, sid, peer, stopped, reserve, exit, events, frame,
                 workerVars, displayVars>>

\* The stream ended, or a packet failed its checks.
InputFails(s) ==
  /\ task[s] = "reading" /\ CloseConnection(s)
  /\ UNCHANGED <<host, sid, peer, stopped, reserve, exit, channelVars,
                 workerVars, displayVars>>

\* A full queue is ignored here.
InputDetach(s) ==
  /\ task[s] = "detaching" /\ task' = [task EXCEPT ![s] = "done"]
  /\ Send(Disconnect(FALSE)) \/ (~Room /\ UNCHANGED queue)
  /\ UNCHANGED <<host, sid, peer, conn, stopped, reserve, exit, events, frame,
                 workerVars, displayVars>>
-----------------------------------------------------------------------------
(* The worker thread: one command, then the rest of the iteration.         *)

Take(op) ==
  /\ worker = "recv" /\ queue # <<>> /\ Head(queue).op = op
  /\ queue' = Tail(queue)

\* Mutants: the injector, or the last frame, outlives the encoder.
DropEncoder == encoder' = "none" /\ UNCHANGED injector /\ frame' = 0
DropNative  == encoder' = "none" /\ injector' = FALSE /\ UNCHANGED frame
DropResources == encoder' = "none" /\ injector' = FALSE /\ frame' = 0

\* Driver::start departs a monitor of the driver's and lets d's arrive.
Arrive(d) == monitor' = d /\ active' = FALSE
\* Mutant: the monitor is blanked and stays.
BlankMonitor  == active' = FALSE /\ UNCHANGED monitor
DepartMonitor == monitor' = NoDevice /\ active' = FALSE

\* Mutant: the session is not told.
TeardownSilently(s) ==
  /\ UNCHANGED events
  /\ DropResources /\ DepartMonitor
  /\ opened' = FALSE /\ state' = Idle /\ serving' = 0
  /\ worker' = "recv"

\* The Err branch: the event is lost if the channel is full, stop() may fail
\* but dropping the driver handle departs the monitor as well.
Teardown(s) ==
  /\ events' = IF Len(events) < EventCap
               THEN Append(events, [kind |-> "Failed", sid |-> s]) ELSE events
  /\ DropResources /\ DepartMonitor
  /\ opened' = FALSE /\ state' = Idle /\ serving' = 0
  /\ worker' = "recv"

\* Mutant: whoever connects takes a reservation over.
AcceptsAny(d) == state.kind # "Streaming"
Accepts(d) == state.kind = "Idle" \/ (state.kind = "Grace" /\ state.dev = d)

\* Mutant: equal modes are taken to be on show also when the monitor has departed.
ReplaceOtherModes(f) == f # modes

\* Modes already on show for a reservation keep the monitor.
ReplaceMonitor(f) == state.kind = "Idle" \/ f # modes

WorkerConnect ==
  LET c == Head(queue) IN
  /\ Take("Connect") /\ Accepts(c.dev)
  /\ IF ReplaceMonitor(c.fps) THEN Arrive(c.dev) ELSE UNCHANGED displayVars
  /\ modes' = c.fps /\ state' = Streaming(c.dev) /\ serving' = c.sid
  /\ opened' = TRUE /\ startup' = Startup
  /\ DropResources
  /\ worker' = "tail"
  /\ UNCHANGED <<hostVars, events>>

\* Refused, or the driver cannot be opened or started.
WorkerConnectFails ==
  /\ Take("Connect") /\ Teardown(Head(queue).sid)
  /\ UNCHANGED <<hostVars, modes, startup>>

WorkerDisconnect ==
  /\ Take("Disconnect")
  /\ DropResources
  /\ IF Head(queue).immediate
     THEN /\ IF opened THEN DepartMonitor ELSE UNCHANGED displayVars
          /\ state' = Idle /\ serving' = 0
     ELSE /\ state' = IF state.kind = "Streaming" THEN Graced(state.dev) ELSE state
          /\ UNCHANGED <<serving, displayVars>>
  /\ worker' = "tail"
  /\ UNCHANGED <<hostVars, events, opened, modes, startup>>

WorkerDisconnectFails ==
  /\ Take("Disconnect") /\ Head(queue).immediate /\ opened
  /\ Teardown(serving)
  /\ UNCHANGED <<hostVars, modes, startup>>

WorkerInput ==
  /\ Take("Input") /\ worker' = "tail"
  /\ UNCHANGED <<hostVars, events, frame, state, serving, nativeVars, modes, startup,
                 displayVars>>

WorkerInputFails ==
  /\ Take("Input") /\ injector /\ Teardown(serving)
  /\ UNCHANGED <<hostVars, modes, startup>>

\* Mutant: the new monitor gets what is left of the old one's startup limit.
WorkerModeKeepsClock ==
  LET f == Head(queue).fps IN
  /\ Take("Mode") /\ modes # 0
  /\ IF f = modes
     THEN UNCHANGED <<encoder, injector, frame, modes, displayVars>>
     ELSE /\ DropResources /\ modes' = f
          /\ IF state.kind = "Streaming" THEN Arrive(state.dev) ELSE UNCHANGED displayVars
  /\ worker' = "tail"
  /\ UNCHANGED <<hostVars, events, state, serving, opened, startup>>

\* Another refresh rate replaces the monitor, but only while streaming.
WorkerMode ==
  LET f == Head(queue).fps IN
  /\ Take("Mode") /\ modes # 0
  /\ IF f = modes
     THEN UNCHANGED <<encoder, injector, frame, modes, startup, displayVars>>
     ELSE /\ DropResources /\ modes' = f /\ startup' = Startup
          /\ IF state.kind = "Streaming" THEN Arrive(state.dev) ELSE UNCHANGED displayVars
  /\ worker' = "tail"
  /\ UNCHANGED <<hostVars, events, state, serving, opened>>

\* Out of range, never advertised, or the restart fails after modes changed.
WorkerModeFails ==
  /\ Take("Mode") /\ Teardown(serving)
  /\ \/ UNCHANGED <<modes, startup>>
     \/ /\ state.kind = "Streaming" /\ Head(queue).fps # modes
        /\ modes' = Head(queue).fps /\ UNCHANGED startup
  /\ UNCHANGED hostVars

WorkerPlacement ==
  /\ Take("Placement") /\ worker' = "tail"
  /\ UNCHANGED <<hostVars, events, frame, state, serving, nativeVars, modes, startup,
                 displayVars>>

WorkerTimeout ==
  /\ worker = "recv" /\ queue = <<>> /\ worker' = "tail"
  /\ UNCHANGED <<hostVars, channelVars, state, serving, nativeVars, modes, startup,
                 displayVars>>

WorkerShutdown ==
  /\ Take("Shutdown") /\ worker' = "stopped"
  /\ encoder' = "none" /\ injector' = FALSE /\ opened' = FALSE
  /\ IF opened THEN DepartMonitor ELSE UNCHANGED displayVars
  /\ UNCHANGED <<hostVars, events, frame, state, serving, modes, startup>>

\* Mutant: the deadline is looked at only when no command is waiting.
ExpiredWhenQuiet == state.kind = "Grace" /\ state.left = 0 /\ queue = <<>>
Expired == state.kind = "Grace" /\ state.left = 0

WorkerExpire ==
  /\ worker = "tail" /\ Expired
  /\ IF opened THEN DepartMonitor ELSE UNCHANGED displayVars
  /\ state' = Idle /\ serving' = 0 /\ worker' = "recv"
  /\ UNCHANGED <<hostVars, channelVars, nativeVars, modes, startup>>

WorkerRest ==
  /\ worker = "tail" /\ state.kind # "Streaming" /\ ~Expired
  /\ worker' = "recv"
  /\ UNCHANGED <<hostVars, channelVars, state, serving, nativeVars, modes, startup,
                 displayVars>>

\* A reconcile attempt that found the monitor's path creates the injector.
WorkerReconcile ==
  /\ worker = "tail" /\ state.kind = "Streaming"
  /\ monitor # NoDevice /\ ~injector
  /\ injector' = TRUE
  /\ UNCHANGED <<hostVars, channelVars, worker, state, serving, opened, encoder, modes,
                 startup, displayVars>>

\* No frame buffer yet, or no input mapping, and the 8 s are not over.
WorkerNotReady ==
  /\ worker = "tail" /\ state.kind = "Streaming"
  /\ ~active \/ ~injector
  /\ startup # 0
  /\ worker' = "recv"
  /\ UNCHANGED <<hostVars, channelVars, state, serving, nativeVars, modes, startup,
                 displayVars>>

Ready == worker = "tail" /\ state.kind = "Streaming" /\ active /\ injector

\* A first or an outdated encoder is replaced, its surfaces are registered and
\* the session is told, if the event channel has room.
WorkerOpenEncoder ==
  /\ Ready /\ encoder # "current" /\ Len(events) < EventCap
  /\ encoder' = "current" /\ startup' = Off
  /\ events' = Append(events, [kind |-> "Ready", sid |-> serving])
  /\ UNCHANGED <<hostVars, queue, frame, worker, state, serving, opened, injector, modes,
                 displayVars>>

\* Output is drained into the watch, fresh slots are offered to the encoder.
WorkerEncode ==
  /\ Ready /\ encoder = "current"
  /\ frame' \in {frame, serving}
  /\ worker' = "recv"
  /\ UNCHANGED <<hostVars, queue, events, state, serving, nativeVars, modes, startup,
                 displayVars>>

\* stop() at expiry, status(), Injector::new, MfEncoder and surfaces() can all
\* fail, the event channel can be full at Ready, and the startup limit can pass.
WorkerFails ==
  /\ worker = "tail" /\ (state.kind = "Streaming" \/ (Expired /\ opened))
  /\ Teardown(serving)
  /\ UNCHANGED <<hostVars, queue, modes, startup>>
-----------------------------------------------------------------------------
(* Windows, the display driver, and time.                                  *)

\* Windows commits a path for the arrived monitor and assigns a swapchain.
DisplayActivates ==
  /\ monitor # NoDevice /\ ~active /\ active' = TRUE
  /\ UNCHANGED <<hostVars, channelVars, workerVars, monitor>>

\* Another mode or swapchain: the driver's generation moves on.
GenerationChanges ==
  /\ active /\ encoder = "current" /\ encoder' = "outdated"
  /\ UNCHANGED <<hostVars, channelVars, worker, state, serving, opened, injector, modes,
                 startup, displayVars>>

\* The path is disabled (status.width is 0), or the monitor is gone.
DisplayLost ==
  /\ \/ active /\ UNCHANGED monitor
     \/ monitor # NoDevice /\ monitor' = NoDevice
  /\ active' = FALSE
  /\ encoder' = IF encoder = "current" THEN "outdated" ELSE encoder
  /\ UNCHANGED <<hostVars, channelVars, worker, state, serving, opened, injector, modes,
                 startup>>

CountDown(n) == IF n > 0 THEN n - 1 ELSE 0
Starting == state.kind = "Streaming" /\ startup \in 1..Startup

Tick ==
  /\ reserve.left > 0 \/ state.left > 0 \/ Starting
  /\ reserve' = IF reserve.left > 1 THEN [reserve EXCEPT !.left = @ - 1] ELSE NoReserve
  /\ state' = [state EXCEPT !.left = CountDown(@)]
  /\ startup' = IF Starting THEN startup - 1 ELSE startup
  /\ UNCHANGED <<host, sid, peer, conn, stopped, exit, task, channelVars, worker,
                 serving, nativeVars, modes, displayVars>>
-----------------------------------------------------------------------------
SessionEvent == SessionReady \/ SessionFailed \/ SessionFrame

HostNext ==
  \/ \E d \in Device : Attach(d)
  \/ \E f \in Fps : SendConnect(f)
  \/ PreludeFails \/ ConnectionLost \/ SessionStop \/ SessionClosed
  \/ \E f \in Fps : SessionCommand(Mode(f))
  \/ SessionCommand(Plain("Placement"))
  \/ SessionEvent \/ EndSession
  \/ IdleDisconnect \/ IdlePlacement \/ UserExits \/ IdleStops
  \/ SendShutdown \/ Joined

InputNext ==
  \/ AcceptInput
  \/ \E s \in Session :
       InputPacket(s) \/ InputSend(s) \/ InputFails(s) \/ InputDetach(s)

WorkerNext ==
  \/ WorkerConnect \/ WorkerConnectFails
  \/ WorkerDisconnect \/ WorkerDisconnectFails
  \/ WorkerInput \/ WorkerInputFails
  \/ WorkerMode \/ WorkerModeFails
  \/ WorkerPlacement \/ WorkerTimeout \/ WorkerShutdown
  \/ WorkerExpire \/ WorkerRest \/ WorkerReconcile \/ WorkerNotReady
  \/ WorkerOpenEncoder \/ WorkerEncode \/ WorkerFails

DisplayNext == DisplayActivates \/ GenerationChanges \/ DisplayLost

\* The process is gone.
Exited == host = "exited" /\ UNCHANGED vars

Next == HostNext \/ InputNext \/ WorkerNext \/ DisplayNext \/ Tick \/ Exited

Safety == Init /\ [][Next]_vars

\* Steps that wait for nobody outside the process (the prelude has a 5 s limit);
\* each leads to another place in its task, so one fairness condition serves all.
HostStep     == PreludeFails \/ EndSession \/ IdleStops \/ SendShutdown \/ Joined
InputStep(s) == InputSend(s) \/ InputDetach(s)

\* The worker thread and the clock always get on, whatever the tasks do.
WorkerFairness == WF_vars(WorkerNext) /\ WF_vars(Tick)
-----------------------------------------------------------------------------
(* Properties.                                                             *)

\* A monitor exists only under the device of the worker's state, and only while
\* the worker holds the driver handle that will make it depart.
MonitorOwned ==
  monitor # NoDevice => (opened /\ state.kind # "Idle" /\ monitor = state.dev)

\* The encoder and the injector, whose drop releases held keys and buttons, do
\* not outlive the stream: no path through disconnect, reconnect, grace, failure
\* or shutdown keeps either.
ResourcesOnlyWhileStreaming ==
  (injector \/ encoder # "none") => (state.kind = "Streaming" /\ worker # "stopped")

\* State and channels are of their types and lengths, and resources end with streams.
StreamInv == TypeOK /\ ResourcesOnlyWhileStreaming

\* However the host task, aborted input tasks and the worker interleave, a
\* Connect never reaches a worker that still streams for an earlier session.
ConnectFindsNoStream ==
  (queue # <<>> /\ Head(queue).op = "Connect") => state.kind # "Streaming"

\* The watch offers a frame only of the stream the worker serves: every command
\* that stops or restarts a stream also takes its last frame back.
FrameOfCurrentStream ==
  frame # 0 => (state.kind = "Streaming" /\ frame = serving)

\* A stream that has no encoder yet is under the startup limit: whatever dropped
\* the encoder also restarted the clock that ends a stream without a display.
StartupLimited ==
  (state.kind = "Streaming" /\ encoder = "none" /\ worker # "stopped") => startup # Off

\* The lease of the virtual monitor that all of this implements.
Phase  == IF worker = "stopped" \/ state.kind = "Idle" THEN "Free"
          ELSE IF state.kind = "Streaming" THEN "Held" ELSE "Reserved"
Holder == IF Phase = "Free" THEN NoDevice ELSE state.dev

Lease == INSTANCE DisplayLease WITH phase <- Phase, holder <- Holder, shown <- monitor

\* Every step of the tasks, the worker and Windows is a step of the lease or
\* leaves it alone: in particular the monitor passes from one iPad to another
\* only by departing first, and only the reservation's iPad resumes it.
ImplementsLease == Lease!LeaseSafety

\* No reservation lasts for ever: the worker lets it expire also while other
\* commands keep arriving.
ReservationEnds == Lease!LeaseSpec

\* A monitor no session uses goes away: whichever way the last session ended and
\* in whichever order the worker learns of it, an idle host ends without one.
AbandonedMonitorDeparts == []<>(host = "listen" => monitor = NoDevice)
=============================================================================
