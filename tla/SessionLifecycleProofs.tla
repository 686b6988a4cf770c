------------------------ MODULE SessionLifecycleProofs ------------------------
(***************************************************************************)
(* What SessionLifecycle promises for any number of iPads, sessions and    *)
(* refresh rates, any queue capacities and any deadlines.                  *)
(***************************************************************************)
EXTENDS SessionLifecycle, SequenceTheorems, TLAPS

-----------------------------------------------------------------------------
(* Typing.                                                                 *)

\* What the fields of a command are, by its kind.
LEMMA CommandFields ==
  ASSUME NEW c \in Command
  PROVE  /\ c.op = "Connect" => c.dev \in Device /\ c.fps \in Fps /\ c.sid \in Session
         /\ c.op = "Disconnect" => c.immediate \in BOOLEAN
         /\ c.op = "Mode" => c.fps \in Fps
BY DEF Command, Connect, Disconnect, Mode, Plain

\* Commands that the tasks send.
LEMMA CommandsMade ==
  /\ \A d \in Device, f \in Fps, s \in Session : Connect(d, f, s) \in Command
  /\ \A i \in BOOLEAN : Disconnect(i) \in Command
  /\ \A f \in Fps : Mode(f) \in Command
  /\ \A op \in {"Input", "Placement", "Shutdown"} : Plain(op) \in Command
BY DEF Command

LEMMA SendKeepsQueue ==
  ASSUME QueueOK, NEW c \in Command, Send(c)
  PROVE  QueueOK'
<1>1. Append(queue, c) \in Seq(Command) /\ Len(Append(queue, c)) = Len(queue) + 1
  BY AppendProperties DEF QueueOK
<1>2. Len(queue) \in Nat
  BY LenProperties DEF QueueOK
<1> QED BY <1>1, <1>2, LifecycleAssumption DEF QueueOK, Send, Room

LEMMA TakeKeepsQueue ==
  ASSUME QueueOK, NEW op, Take(op)
  PROVE  QueueOK' /\ Head(queue) \in Command /\ Head(queue).op = op
<1>1. Head(queue) \in Command /\ Tail(queue) \in Seq(Command) /\ Len(Tail(queue)) = Len(queue) - 1
  BY HeadTailProperties DEF QueueOK, Take
<1>2. Len(queue) \in Nat
  BY LenProperties DEF QueueOK
<1> QED BY <1>1, <1>2, LifecycleAssumption DEF QueueOK, Take

LEMMA TailKeepsEvents ==
  ASSUME EventsOK, events # <<>>, events' = Tail(events)
  PROVE  EventsOK'
<1>1. Tail(events) \in Seq(Event) /\ Len(Tail(events)) = Len(events) - 1
  BY HeadTailProperties DEF EventsOK
<1>2. Len(events) \in Nat
  BY LenProperties DEF EventsOK
<1> QED BY <1>1, <1>2, LifecycleAssumption DEF EventsOK

LEMMA AppendKeepsEvents ==
  ASSUME EventsOK, NEW e \in Event, Len(events) < EventCap, events' = Append(events, e)
  PROVE  EventsOK'
<1>1. Append(events, e) \in Seq(Event) /\ Len(Append(events, e)) = Len(events) + 1
  BY AppendProperties DEF EventsOK
<1>2. Len(events) \in Nat
  BY LenProperties DEF EventsOK
<1> QED BY <1>1, <1>2, LifecycleAssumption DEF EventsOK

\* The event a failure leaves, and the state it leaves the worker in.
LEMMA TeardownTypes ==
  ASSUME EventsOK, NEW s \in 0..MaxSessions, Teardown(s)
  PROVE  /\ EventsOK' /\ frame' = 0 /\ worker' = "recv" /\ state' = Idle /\ serving' = 0
         /\ opened' = FALSE /\ injector' = FALSE /\ encoder' = "none"
         /\ monitor' = NoDevice /\ active' = FALSE
<1>1. [kind |-> "Failed", sid |-> s] \in Event
  BY DEF Event
<1>2. EventsOK'
  <2>1. CASE Len(events) < EventCap
    BY <1>1, <2>1, AppendKeepsEvents DEF Teardown
  <2>2. CASE ~(Len(events) < EventCap)
    BY <2>2 DEF Teardown, EventsOK
  <2> QED BY <2>1, <2>2
<1> QED BY <1>2 DEF Teardown, DropResources, DepartMonitor

LEMMA InitTypes == Init => TypeOK
<1> SUFFICES ASSUME Init PROVE TypeOK
  OBVIOUS
<1>1. <<>> \in Seq(Command) /\ <<>> \in Seq(Event) /\ Len(<<>>) = 0
  BY EmptySeq
<1>2. QueueOK /\ EventsOK
  BY <1>1, LifecycleAssumption DEF Init, QueueOK, EventsOK
<1>3. HostTypeOK
  BY LifecycleAssumption DEF Init, HostTypeOK, NoReserve
<1>4. WorkerTypeOK /\ frame \in 0..MaxSessions
  BY LifecycleAssumption DEF Init, WorkerTypeOK, Idle, Off
<1>5. FlagsOK
  BY DEF Init, FlagsOK
<1> QED BY <1>2, <1>3, <1>4, <1>5 DEF TypeOK

\* The host's and the input tasks leave the worker and the display alone; they may
\* only take the frame out of the watch.
LEMMA TasksLeaveWorker ==
  ASSUME HostNext \/ InputNext
  PROVE  UNCHANGED <<workerVars, displayVars>> /\ frame' \in {0, frame}
BY DEF HostNext, InputNext, Attach, SendConnect, PreludeFails, ConnectionLost, SessionStop,
       SessionClosed, SessionCommand, SessionEvent, SessionReady, SessionFailed, SessionFrame,
       EndSession, IdleDisconnect, IdlePlacement, UserExits, IdleStops, SendShutdown, Joined,
       AcceptInput, InputPacket, InputSend, InputFails, InputDetach,
       channelVars, hostVars

LEMMA HostTypeStep ==
  ASSUME TypeOK, HostNext \/ InputNext
  PROVE  HostTypeOK'
<1> USE LifecycleAssumption DEF TypeOK, HostTypeOK, Session
<1>1. ASSUME NEW d \in Device, Attach(d) PROVE HostTypeOK'
  BY <1>1 DEF Attach
<1>2. ASSUME NEW f \in Fps, SendConnect(f) PROVE HostTypeOK'
  BY <1>2 DEF SendConnect
<1>3. CASE PreludeFails
  BY <1>3 DEF PreludeFails, Leave
<1>4. CASE SessionStop
  BY <1>4 DEF SessionStop, Leave
<1>5. CASE SessionClosed
  BY <1>5 DEF SessionClosed, Leave
<1>6. ASSUME NEW c, SessionCommand(c) PROVE HostTypeOK'
  BY <1>6 DEF SessionCommand, Leave
<1>7. CASE SessionEvent
  BY <1>7 DEF SessionEvent, SessionReady, SessionFailed, SessionFrame, Leave, hostVars
<1>8. CASE EndSession
  BY <1>8 DEF EndSession, SendOrStop, NoReserve
<1>9. CASE IdleDisconnect
  <2>1. reserve' = NoReserve /\ host' \in {"listen", "stopping"}
        /\ UNCHANGED <<sid, peer, task>>
    BY <1>9, Zenon DEF IdleDisconnect, SendOrStop
  <2> QED BY <2>1 DEF NoReserve
<1>14. CASE IdlePlacement
  BY <1>14 DEF IdlePlacement, SendOrStop
<1>10. CASE ConnectionLost \/ UserExits \/ IdleStops \/ SendShutdown \/ Joined
  BY <1>10 DEF ConnectionLost, UserExits, IdleStops, SendShutdown, Joined
<1>11. CASE AcceptInput
  BY <1>11 DEF AcceptInput
<1>12. ASSUME NEW s \in Session, InputPacket(s) \/ InputFails(s) \/ InputDetach(s)
       PROVE  HostTypeOK'
  BY <1>12 DEF InputPacket, InputFails, InputDetach, CloseConnection
<1>13. ASSUME NEW s \in Session, InputSend(s) PROVE HostTypeOK'
  BY <1>13 DEF InputSend, CloseConnection
<1> QED
  BY <1>1, <1>2, <1>3, <1>4, <1>5, <1>6, <1>7, <1>8, <1>9, <1>10, <1>11, <1>12, <1>13, <1>14
     DEF HostNext, InputNext

\* A session in hand has a number and an authenticated iPad.
InHand ==
  host \in {"prelude", "session", "ending"} => peer \in Device /\ sid \in Session

LEMMA InHandStep ==
  ASSUME TypeOK, InHand, HostNext \/ InputNext
  PROVE  InHand'
<1> USE LifecycleAssumption DEF TypeOK, HostTypeOK, InHand, Session
<1>1. ASSUME NEW d \in Device, Attach(d) PROVE InHand'
  BY <1>1 DEF Attach
<1>2. CASE EndSession
  BY <1>2, Zenon DEF EndSession, SendOrStop
<1>3. CASE IdleDisconnect \/ IdlePlacement
  BY <1>3, Zenon DEF IdleDisconnect, IdlePlacement, SendOrStop
<1>4. CASE IdleStops \/ SendShutdown \/ Joined
  BY <1>4 DEF IdleStops, SendShutdown, Joined
<1>5. ASSUME NEW c, SessionCommand(c) PROVE InHand'
  BY <1>5 DEF SessionCommand, Leave
<1>6. CASE PreludeFails \/ SessionStop \/ SessionClosed \/ SessionEvent
  BY <1>6 DEF PreludeFails, SessionStop, SessionClosed, SessionEvent,
     SessionReady, SessionFailed, SessionFrame, Leave, hostVars
<1>7. CASE ConnectionLost \/ UserExits \/ InputNext \/ \E f \in Fps : SendConnect(f)
  BY <1>7 DEF ConnectionLost, UserExits, InputNext, AcceptInput, InputPacket, InputSend,
     InputFails, InputDetach, SendConnect
<1> QED
  BY <1>1, <1>2, <1>3, <1>4, <1>5, <1>6, <1>7 DEF HostNext

LEMMA TaskQueueStep ==
  ASSUME TypeOK, InHand, HostNext \/ InputNext
  PROVE  QueueOK'
<1> USE DEF TypeOK
<1>c. /\ \A i \in BOOLEAN : Disconnect(i) \in Command
      /\ \A f \in Fps : Mode(f) \in Command
      /\ \A op \in {"Input", "Placement", "Shutdown"} : Plain(op) \in Command
  BY CommandsMade
<1>s. \A c \in Command : Send(c) => QueueOK'
  BY SendKeepsQueue
<1>u. UNCHANGED queue => QueueOK'
  BY DEF QueueOK
<1>1. ASSUME NEW f \in Fps, SendConnect(f) PROVE QueueOK'
  <2>1. Connect(peer, f, sid) \in Command
    BY <1>1, CommandsMade DEF SendConnect, InHand
  <2> QED BY <1>1, <1>s, <2>1 DEF SendConnect
<1>2. ASSUME NEW c \in Command, SessionCommand(c) PROVE QueueOK'
  BY <1>2, <1>s, <1>u DEF SessionCommand
<1>3. CASE EndSession
  <2>1. (stopped \/ exit) \in BOOLEAN
    OBVIOUS
  <2>2. Disconnect(stopped \/ exit) \in Command
    BY <2>1, <1>c, Zenon
  <2> QED BY <1>3, <1>s, <1>u, <2>2, Zenon DEF EndSession, SendOrStop
<1>4. CASE IdleDisconnect \/ IdlePlacement
  BY <1>4, <1>c, <1>s, <1>u, Zenon DEF IdleDisconnect, IdlePlacement, SendOrStop
<1>5. CASE SendShutdown
  BY <1>5, <1>c, <1>s DEF SendShutdown
<1>6. ASSUME NEW s \in Session, InputSend(s) \/ InputDetach(s) PROVE QueueOK'
  <2>1. Disconnect(FALSE) \in Command /\ Plain("Input") \in Command
    BY <1>c, Zenon
  <2> QED BY <1>6, <1>s, <1>u, <2>1, Zenon DEF InputSend, InputDetach
<1>7. ASSUME NEW d \in Device, Attach(d) PROVE QueueOK'
  BY <1>7, <1>u DEF Attach
<1>8. CASE \/ PreludeFails \/ ConnectionLost \/ SessionStop \/ SessionClosed \/ SessionEvent
           \/ UserExits \/ IdleStops \/ Joined
  BY <1>8, <1>u DEF PreludeFails, ConnectionLost, SessionStop, SessionClosed, SessionEvent,
     SessionReady, SessionFailed, SessionFrame, UserExits, IdleStops, Joined, channelVars
<1>9. CASE AcceptInput \/ \E s \in Session : InputPacket(s) \/ InputFails(s)
  BY <1>9, <1>u DEF AcceptInput, InputPacket, InputFails, channelVars
<1> QED
  BY <1>1, <1>2, <1>3, <1>4, <1>5, <1>6, <1>7, <1>8, <1>9, CommandsMade
     DEF HostNext, InputNext

LEMMA TaskEventsStep ==
  ASSUME TypeOK, HostNext \/ InputNext
  PROVE  EventsOK'
<1>u. UNCHANGED events => EventsOK'
  BY DEF EventsOK, TypeOK
<1>1. ASSUME NEW d \in Device, Attach(d) PROVE EventsOK'
  BY <1>1, EmptySeq, LifecycleAssumption DEF Attach, EventsOK
<1>2. CASE SessionReady \/ SessionFailed
  BY <1>2, TailKeepsEvents DEF SessionReady, SessionFailed, TypeOK
<1>3. CASE SessionFrame
  BY <1>3, <1>u DEF SessionFrame
<1>4. CASE \/ \E f \in Fps : SendConnect(f)
           \/ PreludeFails \/ ConnectionLost \/ SessionStop \/ SessionClosed
  BY <1>4, <1>u DEF SendConnect, PreludeFails, ConnectionLost, SessionStop, SessionClosed,
     channelVars
<1>5. ASSUME NEW c, SessionCommand(c) PROVE EventsOK'
  BY <1>5, <1>u DEF SessionCommand
<1>6. CASE EndSession \/ IdleDisconnect \/ IdlePlacement
  BY <1>6, <1>u, Zenon DEF EndSession, IdleDisconnect, IdlePlacement
<1>7. CASE UserExits \/ IdleStops \/ SendShutdown \/ Joined
  BY <1>7, <1>u DEF UserExits, IdleStops, SendShutdown, Joined, channelVars
<1>8. CASE InputNext
  BY <1>8, <1>u DEF InputNext, AcceptInput, InputPacket, InputSend, InputFails, InputDetach,
     channelVars
<1> QED
  BY <1>1, <1>2, <1>3, <1>4, <1>5, <1>6, <1>7, <1>8 DEF HostNext, SessionEvent

LEMMA TaskFlagsStep ==
  ASSUME TypeOK, HostNext \/ InputNext
  PROVE  FlagsOK'
<1>0. UNCHANGED <<opened, injector, active>>
  BY TasksLeaveWorker DEF workerVars, nativeVars, displayVars
<1>1. conn' \in BOOLEAN /\ stopped' \in BOOLEAN /\ exit' \in BOOLEAN
  BY Zenon DEF TypeOK, FlagsOK, HostNext, InputNext, Attach, SendConnect, PreludeFails,
     ConnectionLost, SessionStop, SessionClosed, SessionCommand, SessionEvent, SessionReady,
     SessionFailed, SessionFrame, EndSession, IdleDisconnect, IdlePlacement, UserExits,
     IdleStops, SendShutdown, Joined, AcceptInput, InputPacket, InputSend, InputFails,
     InputDetach, CloseConnection, Leave, hostVars
<1> QED BY <1>0, <1>1, Zenon DEF TypeOK, FlagsOK

LEMMA TasksKeepTypes ==
  ASSUME TypeOK, InHand, HostNext \/ InputNext
  PROVE  TypeOK' /\ InHand'
<1>1. WorkerTypeOK' /\ frame' \in 0..MaxSessions
  BY TasksLeaveWorker, LifecycleAssumption
     DEF TypeOK, WorkerTypeOK, workerVars, nativeVars, displayVars, Off
<1> QED
  BY <1>1, HostTypeStep, InHandStep, TaskQueueStep, TaskEventsStep, TaskFlagsStep DEF TypeOK

\* The worker and Windows leave the tasks alone.
LEMMA WorkerLeavesTasks ==
  ASSUME WorkerNext \/ DisplayNext
  PROVE  UNCHANGED hostVars
BY DEF WorkerNext, DisplayNext, WorkerConnect, WorkerConnectFails, WorkerDisconnect,
       WorkerDisconnectFails, WorkerInput, WorkerInputFails, WorkerMode, WorkerModeFails,
       WorkerPlacement, WorkerTimeout, WorkerShutdown, WorkerExpire, WorkerRest,
       WorkerReconcile, WorkerNotReady, WorkerOpenEncoder, WorkerEncode, WorkerFails,
       DisplayActivates, GenerationChanges, DisplayLost

LEMMA WorkerTypeStep ==
  ASSUME TypeOK, WorkerNext
  PROVE  WorkerTypeOK' /\ frame' \in 0..MaxSessions
<1> DEFINE Goal == WorkerTypeOK' /\ frame' \in 0..MaxSessions
<1> USE LifecycleAssumption DEF TypeOK, WorkerTypeOK, Session
<1>t. \A op : Take(op) => Head(queue) \in Command /\ Head(queue).op = op
  BY TakeKeepsQueue
<1>d. ASSUME NEW s \in 0..MaxSessions, Teardown(s), modes' \in Fps \cup {0},
             startup' \in 0..Off
      PROVE  Goal
  <2>1. EventsOK
    OBVIOUS
  <2>2. frame' = 0 /\ worker' = "recv" /\ state' = Idle /\ serving' = 0
        /\ encoder' = "none" /\ monitor' = NoDevice
    BY <2>1, <1>d, TeardownTypes, Zenon
  <2> QED BY <1>d, <2>2 DEF Idle
<1>1. CASE WorkerConnect
  <2>1. Head(queue).dev \in Device /\ Head(queue).fps \in Fps /\ Head(queue).sid \in Session
    BY <1>1, <1>t, CommandFields DEF WorkerConnect
  <2> QED
    BY <1>1, <2>1 DEF WorkerConnect, DropResources, Arrive, Streaming, displayVars, Off
<1>2. CASE WorkerConnectFails
  <2>1. Head(queue).sid \in Session
    BY <1>2, <1>t, CommandFields DEF WorkerConnectFails
  <2> QED BY <1>2, <2>1, <1>d DEF WorkerConnectFails
<1>3. CASE WorkerDisconnect
  <2>1. state' \in {Idle, Graced(state.dev), state} /\ serving' \in {0, serving}
        /\ frame' = 0 /\ encoder' = "none" /\ worker' = "tail"
        /\ UNCHANGED <<modes, startup>> /\ monitor' \in {NoDevice, monitor}
    BY <1>3, Zenon DEF WorkerDisconnect, DropResources, DepartMonitor, displayVars
  <2> QED BY <2>1 DEF Idle, Graced, Off
<1>4. CASE WorkerDisconnectFails
  BY <1>4, <1>d DEF WorkerDisconnectFails
<1>5. CASE WorkerInput \/ WorkerPlacement \/ WorkerTimeout
  <2>1. frame' = frame /\ worker' = "tail"
        /\ UNCHANGED <<state, serving, encoder, modes, startup, monitor>>
    BY <1>5, Zenon DEF WorkerInput, WorkerPlacement, WorkerTimeout, nativeVars, displayVars,
       channelVars
  <2> QED BY <2>1 DEF Off
<1>6. CASE WorkerInputFails
  BY <1>6, <1>d DEF WorkerInputFails
<1>7. CASE WorkerMode
  <2>1. Head(queue).fps \in Fps
    BY <1>7, <1>t, CommandFields DEF WorkerMode
  <2> QED BY <1>7, <2>1 DEF WorkerMode, DropResources, Arrive, displayVars, Off
<1>8. CASE WorkerModeFails
  <2>1. Head(queue).fps \in Fps
    BY <1>8, <1>t, CommandFields DEF WorkerModeFails
  <2> QED BY <1>8, <2>1, <1>d DEF WorkerModeFails
<1>9. CASE WorkerShutdown
  BY <1>9 DEF WorkerShutdown, DepartMonitor, displayVars, Off
<1>10. CASE WorkerExpire
  BY <1>10 DEF WorkerExpire, DepartMonitor, displayVars, channelVars, nativeVars, Idle, Off
<1>11. CASE WorkerRest \/ WorkerReconcile \/ WorkerNotReady
  BY <1>11 DEF WorkerRest, WorkerReconcile, WorkerNotReady, displayVars, channelVars, nativeVars,
     Off
<1>12. CASE WorkerOpenEncoder \/ WorkerEncode
  <2>1. CASE WorkerOpenEncoder
    BY <2>1 DEF WorkerOpenEncoder, Ready, displayVars, Off
  <2>2. CASE WorkerEncode
    BY <2>2 DEF WorkerEncode, Ready, displayVars, nativeVars, Off
  <2> QED BY <1>12, <2>1, <2>2
<1>13. CASE WorkerFails
  BY <1>13, <1>d DEF WorkerFails
<1> QED
  BY <1>1, <1>2, <1>3, <1>4, <1>5, <1>6, <1>7, <1>8, <1>9, <1>10, <1>11, <1>12, <1>13
     DEF WorkerNext

LEMMA WorkerQueueStep ==
  ASSUME TypeOK, WorkerNext
  PROVE  QueueOK'
<1>t. \A op : Take(op) => QueueOK'
  BY TakeKeepsQueue DEF TypeOK
<1>u. UNCHANGED queue => QueueOK'
  BY DEF TypeOK, QueueOK
<1> QED
  BY <1>t, <1>u, Zenon
     DEF WorkerNext, WorkerConnect, WorkerConnectFails, WorkerDisconnect,
         WorkerDisconnectFails, WorkerInput, WorkerInputFails, WorkerMode, WorkerModeFails,
         WorkerPlacement, WorkerTimeout, WorkerShutdown, WorkerExpire, WorkerRest,
         WorkerReconcile, WorkerNotReady, WorkerOpenEncoder, WorkerEncode, WorkerFails,
         channelVars

LEMMA WorkerEventsStep ==
  ASSUME TypeOK, WorkerNext
  PROVE  EventsOK'
<1> USE DEF TypeOK
<1>u. UNCHANGED events => EventsOK'
  BY DEF EventsOK
<1>d. \A s \in 0..MaxSessions : Teardown(s) => EventsOK'
  BY TeardownTypes
<1>s. serving \in 0..MaxSessions
  BY DEF WorkerTypeOK
<1>1. CASE WorkerConnectFails
  <2>1. Head(queue).sid \in 0..MaxSessions
    BY <1>1, TakeKeepsQueue, CommandFields, LifecycleAssumption
       DEF WorkerConnectFails, Session
  <2> QED BY <1>1, <2>1, <1>d DEF WorkerConnectFails
<1>2. CASE WorkerDisconnectFails \/ WorkerInputFails \/ WorkerModeFails \/ WorkerFails
  BY <1>2, <1>d, <1>s, Zenon
     DEF WorkerDisconnectFails, WorkerInputFails, WorkerModeFails, WorkerFails
<1>3. CASE WorkerOpenEncoder
  <2>1. [kind |-> "Ready", sid |-> serving] \in Event
    BY <1>s DEF Event
  <2> QED BY <1>3, <2>1, AppendKeepsEvents DEF WorkerOpenEncoder
<1>4. CASE WorkerNext /\ UNCHANGED events
  BY <1>4, <1>u
<1> QED
  BY <1>1, <1>2, <1>3, <1>4, Zenon
     DEF WorkerNext, WorkerConnect, WorkerDisconnect, WorkerInput, WorkerMode,
         WorkerPlacement, WorkerTimeout, WorkerShutdown, WorkerExpire, WorkerRest,
         WorkerReconcile, WorkerNotReady, WorkerEncode, channelVars

LEMMA WorkerFlagsStep ==
  ASSUME TypeOK, WorkerNext
  PROVE  opened' \in BOOLEAN /\ injector' \in BOOLEAN /\ active' \in BOOLEAN
BY Zenon
   DEF TypeOK, FlagsOK, WorkerNext, WorkerConnect, WorkerConnectFails, WorkerDisconnect,
       WorkerDisconnectFails, WorkerInput, WorkerInputFails, WorkerMode, WorkerModeFails,
       WorkerPlacement, WorkerTimeout, WorkerShutdown, WorkerExpire, WorkerRest,
       WorkerReconcile, WorkerNotReady, WorkerOpenEncoder, WorkerEncode, WorkerFails,
       Teardown, DropResources, DepartMonitor, Arrive, displayVars, nativeVars

LEMMA WorkerKeepsTypes ==
  ASSUME TypeOK, InHand, WorkerNext
  PROVE  TypeOK' /\ InHand'
<1>1. UNCHANGED hostVars
  BY WorkerLeavesTasks
<1>2. HostTypeOK' /\ InHand'
  BY <1>1 DEF TypeOK, HostTypeOK, InHand, hostVars
<1>3. FlagsOK'
  BY <1>1, WorkerFlagsStep, Zenon DEF TypeOK, FlagsOK, hostVars
<1> QED
  BY <1>2, <1>3, WorkerTypeStep, WorkerQueueStep, WorkerEventsStep DEF TypeOK

LEMMA DisplayKeepsTypes ==
  ASSUME TypeOK, InHand, DisplayNext
  PROVE  TypeOK' /\ InHand'
<1>1. UNCHANGED <<hostVars, channelVars>>
  BY DEF DisplayNext, DisplayActivates, GenerationChanges, DisplayLost
<1>2. HostTypeOK' /\ InHand'
  BY <1>1 DEF TypeOK, HostTypeOK, InHand, hostVars
<1>3. QueueOK' /\ EventsOK' /\ frame' \in 0..MaxSessions
  BY <1>1 DEF TypeOK, QueueOK, EventsOK, channelVars
<1>4. /\ UNCHANGED <<worker, state, serving, modes, startup, opened, injector>>
      /\ encoder' \in {encoder, "outdated"} /\ monitor' \in {monitor, NoDevice}
      /\ active' \in BOOLEAN
  <2>1. CASE DisplayActivates
    BY <2>1, Zenon DEF DisplayActivates, workerVars, nativeVars
  <2>2. CASE GenerationChanges
    BY <2>2, Zenon DEF GenerationChanges, displayVars, TypeOK, FlagsOK
  <2>3. CASE DisplayLost
    BY <2>3, Zenon DEF DisplayLost
  <2> QED BY <2>1, <2>2, <2>3 DEF DisplayNext
<1>5. WorkerTypeOK'
  BY <1>4 DEF TypeOK, WorkerTypeOK, Off
<1>6. FlagsOK'
  BY <1>1, <1>4, Zenon DEF TypeOK, FlagsOK, hostVars
<1> QED BY <1>2, <1>3, <1>5, <1>6 DEF TypeOK

LEMMA TickKeepsTypes ==
  ASSUME TypeOK, InHand, Tick
  PROVE  TypeOK' /\ InHand'
<1> USE LifecycleAssumption DEF TypeOK, Tick
<1>1. HostTypeOK' /\ InHand'
  BY DEF HostTypeOK, InHand, NoReserve
<1>2. QueueOK' /\ EventsOK' /\ frame' \in 0..MaxSessions
  BY DEF QueueOK, EventsOK, channelVars
<1>3. WorkerTypeOK'
  BY DEF WorkerTypeOK, CountDown, Starting, nativeVars, displayVars, Off
<1>4. FlagsOK'
  BY Zenon DEF FlagsOK, nativeVars, displayVars
<1> QED BY <1>1, <1>2, <1>3, <1>4

LEMMA TypesKept == TypeOK /\ InHand /\ [Next]_vars => TypeOK' /\ InHand'
<1> SUFFICES ASSUME TypeOK, InHand, [Next]_vars PROVE TypeOK' /\ InHand'
  OBVIOUS
<1>1. CASE HostNext \/ InputNext
  BY <1>1, TasksKeepTypes
<1>2. CASE WorkerNext
  BY <1>2, WorkerKeepsTypes
<1>3. CASE DisplayNext
  BY <1>3, DisplayKeepsTypes
<1>4. CASE Tick
  BY <1>4, TickKeepsTypes
<1>5. CASE UNCHANGED vars
  <2>1. HostTypeOK' /\ InHand'
    BY <1>5 DEF TypeOK, HostTypeOK, InHand, vars, hostVars
  <2>2. QueueOK' /\ EventsOK' /\ frame' \in 0..MaxSessions
    BY <1>5 DEF TypeOK, QueueOK, EventsOK, vars, channelVars
  <2>3. WorkerTypeOK'
    BY <1>5 DEF TypeOK, WorkerTypeOK, vars, workerVars, nativeVars, displayVars, Off
  <2>4. FlagsOK'
    BY <1>5, Zenon DEF TypeOK, FlagsOK, vars, hostVars, workerVars, nativeVars, displayVars
  <2> QED BY <2>1, <2>2, <2>3, <2>4 DEF TypeOK
<1> QED BY <1>1, <1>2, <1>3, <1>4, <1>5 DEF Next, Exited

\* Every behaviour of the host keeps TypeOK, for any number of sessions and iPads and
\* any bounds: the queue and the event channel never exceed their capacity, and the
\* commands, events and deadlines are the kinds the worker expects.
THEOREM Typing == Safety => []TypeOK
<1>1. Init => TypeOK /\ InHand
  BY InitTypes DEF Init, InHand
<1>2. Safety => [](TypeOK /\ InHand)
  BY <1>1, TypesKept, PTL DEF Safety
<1> QED BY <1>2, PTL
-----------------------------------------------------------------------------
(* Who owns the monitor, the encoder, the injector and the frame.          *)

\* The worker streams and reserves for an iPad, streams with an open driver, and
\* closes it when it stops.
Owner ==
  /\ state.kind # "Idle" => state.dev \in Device
  /\ (state.kind = "Streaming" /\ worker # "stopped") => opened
  /\ worker = "stopped" => ~opened

Owned == Owner /\ MonitorOwned

LEMMA UnchangedOwned ==
  ASSUME Owned, UNCHANGED <<worker, opened, monitor>>,
         state'.kind = state.kind, state'.dev = state.dev
  PROVE  Owned'
BY DEF Owned, Owner, MonitorOwned

\* Teardown, and whatever else leaves neither lease nor monitor.
LEMMA FreeOwned ==
  ASSUME state' = Idle, monitor' = NoDevice, worker' = "recv"
  PROVE  Owned'
BY DEF Owned, Owner, MonitorOwned, Idle

LEMMA WorkerKeepsOwned ==
  ASSUME TypeOK, Owned, WorkerNext
  PROVE  Owned'
<1> USE DEF Owned, Owner, MonitorOwned
<1>1. CASE WorkerConnect
  <2>1. Head(queue).dev \in Device
    BY <1>1, TakeKeepsQueue, CommandFields DEF TypeOK, WorkerConnect
  <2>2. state' = Streaming(Head(queue).dev) /\ opened' = TRUE /\ worker' = "tail"
        /\ monitor' \in {monitor, Head(queue).dev}
        /\ (monitor' # Head(queue).dev => state.kind # "Idle")
        /\ Accepts(Head(queue).dev)
    BY <1>1, Zenon DEF WorkerConnect, Arrive, displayVars, ReplaceMonitor
  <2> QED BY <2>1, <2>2, Zenon DEF Accepts, Streaming
<1>2. CASE WorkerDisconnect
  <2>1. CASE Head(queue).immediate
    BY <1>2, <2>1 DEF WorkerDisconnect, DepartMonitor, displayVars, Idle
  <2>2. CASE ~Head(queue).immediate
    BY <1>2, <2>2 DEF WorkerDisconnect, displayVars, Graced
  <2> QED BY <2>1, <2>2
<1>3. CASE WorkerMode
  BY <1>3 DEF WorkerMode, Arrive, displayVars, Take
<1>4. CASE WorkerShutdown
  BY <1>4 DEF WorkerShutdown, DepartMonitor, displayVars
<1>5. CASE WorkerExpire
  BY <1>5 DEF WorkerExpire, DepartMonitor, displayVars, Idle
<1>6. CASE \/ WorkerConnectFails \/ WorkerDisconnectFails \/ WorkerInputFails
           \/ WorkerModeFails \/ WorkerFails
  BY <1>6, FreeOwned, Zenon
     DEF WorkerConnectFails, WorkerDisconnectFails, WorkerInputFails, WorkerModeFails,
         WorkerFails, Teardown, DepartMonitor
<1>7. CASE \/ WorkerInput \/ WorkerPlacement \/ WorkerTimeout \/ WorkerRest
           \/ WorkerReconcile \/ WorkerNotReady \/ WorkerOpenEncoder \/ WorkerEncode
  <2>1. UNCHANGED <<state, opened, monitor>> /\ worker # "stopped" /\ worker' # "stopped"
    BY <1>7
       DEF WorkerInput, WorkerPlacement, WorkerTimeout, WorkerRest, WorkerReconcile,
           WorkerNotReady, WorkerOpenEncoder, WorkerEncode, nativeVars, displayVars, Take, Ready
  <2> QED BY <2>1
<1> QED BY <1>1, <1>2, <1>3, <1>4, <1>5, <1>6, <1>7 DEF WorkerNext

\* The encoder, the injector and the frame in the watch belong to the stream.
StreamOwned == ResourcesOnlyWhileStreaming /\ FrameOfCurrentStream

LEMMA WorkerKeepsStreamOwned ==
  ASSUME TypeOK, StreamOwned, WorkerNext
  PROVE  StreamOwned'
<1> USE DEF StreamOwned, ResourcesOnlyWhileStreaming, FrameOfCurrentStream
<1>1. CASE WorkerConnect \/ WorkerDisconnect
  BY <1>1 DEF WorkerConnect, WorkerDisconnect, DropResources
<1>2. CASE \/ WorkerConnectFails \/ WorkerDisconnectFails \/ WorkerInputFails
           \/ WorkerModeFails \/ WorkerFails
  BY <1>2 DEF WorkerConnectFails, WorkerDisconnectFails, WorkerInputFails, WorkerModeFails,
         WorkerFails, Teardown, DropResources
<1>3. CASE WorkerMode
  BY <1>3 DEF WorkerMode, DropResources, Take
<1>4. CASE WorkerShutdown
  BY <1>4 DEF WorkerShutdown
<1>5. CASE WorkerExpire
  BY <1>5 DEF WorkerExpire, Expired, channelVars, nativeVars
<1>6. CASE WorkerInput \/ WorkerPlacement \/ WorkerTimeout \/ WorkerRest \/ WorkerNotReady
  BY <1>6 DEF WorkerInput, WorkerPlacement, WorkerTimeout, WorkerRest, WorkerNotReady,
     channelVars, nativeVars, Take
<1>7. CASE WorkerReconcile
  BY <1>7 DEF WorkerReconcile, channelVars
<1>8. CASE WorkerOpenEncoder \/ WorkerEncode
  BY <1>8 DEF WorkerOpenEncoder, WorkerEncode, Ready, nativeVars
<1> QED BY <1>1, <1>2, <1>3, <1>4, <1>5, <1>6, <1>7, <1>8 DEF WorkerNext

Inv == TypeOK /\ InHand /\ Owned /\ StreamOwned

LEMMA InvStep == Inv /\ [Next]_vars => Inv'
<1> SUFFICES ASSUME Inv, [Next]_vars PROVE Inv'
  OBVIOUS
<1>1. TypeOK' /\ InHand'
  BY TypesKept DEF Inv
<1>2. CASE HostNext \/ InputNext
  <2>1. UNCHANGED <<workerVars, displayVars>> /\ frame' \in {0, frame}
    BY <1>2, TasksLeaveWorker
  <2>2. Owned'
    BY <2>1, UnchangedOwned DEF Inv, workerVars, nativeVars, displayVars
  <2>3. StreamOwned'
    BY <2>1 DEF Inv, StreamOwned, ResourcesOnlyWhileStreaming, FrameOfCurrentStream,
       workerVars, nativeVars
  <2> QED BY <1>1, <2>2, <2>3 DEF Inv
<1>3. CASE WorkerNext
  BY <1>1, <1>3, WorkerKeepsOwned, WorkerKeepsStreamOwned DEF Inv
<1>4. CASE DisplayNext
  <2>0. UNCHANGED <<worker, state, opened>> /\ monitor' \in {monitor, NoDevice}
    BY <1>4, Zenon DEF DisplayNext, DisplayActivates, GenerationChanges, DisplayLost,
       workerVars, nativeVars, displayVars
  <2>1. Owned'
    BY <2>0 DEF Inv, Owned, Owner, MonitorOwned
  <2>2. StreamOwned'
    BY <1>4 DEF Inv, StreamOwned, ResourcesOnlyWhileStreaming, FrameOfCurrentStream,
       DisplayNext, DisplayActivates, GenerationChanges, DisplayLost, workerVars,
       nativeVars, channelVars
  <2> QED BY <1>1, <2>1, <2>2 DEF Inv
<1>5. CASE Tick
  <2>1. state'.kind = state.kind /\ state'.dev = state.dev
    BY <1>5 DEF Tick, Inv, TypeOK, WorkerTypeOK
  <2>2. Owned'
    BY <1>5, <2>1, UnchangedOwned DEF Inv, Tick, nativeVars, displayVars
  <2>3. StreamOwned'
    BY <1>5, <2>1 DEF Inv, Tick, StreamOwned, ResourcesOnlyWhileStreaming,
       FrameOfCurrentStream, nativeVars, channelVars
  <2> QED BY <1>1, <2>2, <2>3 DEF Inv
<1>6. CASE UNCHANGED vars
  <2>1. Owned'
    BY <1>6, UnchangedOwned DEF Inv, vars, workerVars, nativeVars, displayVars
  <2>2. StreamOwned'
    BY <1>6 DEF Inv, StreamOwned, ResourcesOnlyWhileStreaming, FrameOfCurrentStream,
       vars, workerVars, nativeVars, channelVars
  <2> QED BY <1>1, <2>1, <2>2 DEF Inv
<1> QED BY <1>2, <1>3, <1>4, <1>5, <1>6 DEF Next, Exited

LEMMA Invariance == Safety => []Inv
<1>1. Init => Inv
  BY InitTypes DEF Init, Inv, InHand, Owned, Owner, MonitorOwned, StreamOwned,
     ResourcesOnlyWhileStreaming, FrameOfCurrentStream, Idle
<1> QED BY <1>1, InvStep, PTL DEF Safety

\* The monitor exists only under the device of the worker's lease and while the worker
\* holds the handle that makes it depart, whatever the tasks had queued.
THEOREM OwnedMonitor == Safety => []MonitorOwned
<1>1. Inv => MonitorOwned
  BY DEF Inv, Owned
<1> QED BY <1>1, Invariance, PTL

\* Neither the encoder nor the injector outlives the stream it was made for, and no
\* channel holds more than its capacity.
THEOREM StreamResources == Safety => []StreamInv
<1>1. Inv => StreamInv
  BY DEF Inv, StreamOwned, StreamInv
<1> QED BY <1>1, Invariance, PTL

\* The watch never offers a session the frame of a stream that has ended.
THEOREM CurrentFrame == Safety => []FrameOfCurrentStream
<1>1. Inv => FrameOfCurrentStream
  BY DEF Inv, StreamOwned
<1> QED BY <1>1, Invariance, PTL

\* A monitor on show is the lease holder's: a second iPad never sees it, and a free
\* lease shows none, also after the worker has stopped.
THEOREM ExclusiveMonitor == Safety => []Lease!ShownIsHolders
<1>1. Inv => Lease!ShownIsHolders
  BY DEF Inv, Owned, Owner, MonitorOwned, Phase, Holder, Lease!ShownIsHolders
<1> QED BY <1>1, Invariance, PTL
-----------------------------------------------------------------------------
(* Connects in the queue, and the startup limit.                           *)

\* A Connect at place i of the queue is due when no stream runs: a Disconnect comes after
\* the last Connect before it, or there is none and the worker has no stream.
Cleared(i) ==
  \/ \E j \in 1..(i - 1) : /\ queue[j].op = "Disconnect"
                           /\ \A k \in (j + 1)..(i - 1) : queue[k].op # "Connect"
  \/ state.kind # "Streaming" /\ \A k \in 1..(i - 1) : queue[k].op # "Connect"

\* A host task that may send the next Connect has sent a Disconnect for the last one.
ConnectsCleared ==
  /\ \A i \in 1..Len(queue) : queue[i].op = "Connect" => Cleared(i)
  /\ host \in {"listen", "prelude"} => Cleared(Len(queue) + 1)

LEMMA KeptCleared ==
  ASSUME queue' = queue, state'.kind = "Streaming" => state.kind = "Streaming", NEW i, Cleared(i)
  PROVE  Cleared(i)'
BY DEF Cleared

LEMMA SentCleared ==
  ASSUME QueueOK, NEW c, queue' = Append(queue, c), state' = state,
         NEW i \in 1..(Len(queue) + 1), Cleared(i)
  PROVE  /\ Cleared(i)'
         /\ (i = Len(queue) + 1 /\ c.op # "Connect") => Cleared(i + 1)'
<1>1. Len(queue) \in Nat /\ \A k \in 1..Len(queue) : queue'[k] = queue[k]
  BY DEF QueueOK
<1>2. queue'[Len(queue) + 1] = c
  BY DEF QueueOK
<1>3. \A k \in 1..(i - 1) : queue'[k] = queue[k]
  BY <1>1
<1>4. Cleared(i)'
  BY <1>1, <1>3 DEF Cleared
<1>5. ASSUME i = Len(queue) + 1, c.op # "Connect" PROVE Cleared(i + 1)'
  <2>0. i \in Nat /\ (i + 1) - 1 = i
    BY <1>1, <1>5
  <2>1. \A k \in 1..i : k \in 1..(i - 1) \/ queue'[k].op # "Connect"
    BY <1>1, <1>2, <1>5
  <2>2. CASE state.kind # "Streaming" /\ \A k \in 1..(i - 1) : queue[k].op # "Connect"
    <3>1. state'.kind # "Streaming" /\ \A k \in 1..i : queue'[k].op # "Connect"
      BY <1>3, <2>1, <2>2
    <3> QED BY <2>0, <3>1 DEF Cleared
  <2>3. CASE \E j \in 1..(i - 1) : /\ queue[j].op = "Disconnect"
                                   /\ \A k \in (j + 1)..(i - 1) : queue[k].op # "Connect"
    <3>1. PICK j \in 1..(i - 1) : /\ queue[j].op = "Disconnect"
                                  /\ \A k \in (j + 1)..(i - 1) : queue[k].op # "Connect"
      BY <2>3
    <3>2. queue'[j].op = "Disconnect" /\ j \in 1..i
      BY <1>3, <2>0, <3>1
    <3>3. \A k \in (j + 1)..i : queue'[k].op # "Connect"
      BY <1>3, <2>0, <2>1, <3>1
    <3> QED BY <2>0, <3>2, <3>3 DEF Cleared
  <2> QED BY <2>2, <2>3 DEF Cleared
<1> QED BY <1>4, <1>5

LEMMA DisconnectClears ==
  ASSUME QueueOK, NEW c, queue' = Append(queue, c), c.op = "Disconnect",
         NEW i \in Nat, i = Len(queue) + 1
  PROVE  Cleared(i + 1)'
<1>1. queue'[i] = c /\ i \in 1..((i + 1) - 1) /\ (i + 1)..((i + 1) - 1) = {}
  BY DEF QueueOK
<1> QED BY <1>1 DEF Cleared

LEMMA TakenCleared ==
  ASSUME QueueOK, queue # <<>>, queue' = Tail(queue),
         Head(queue).op = "Disconnect" => state'.kind # "Streaming",
         Head(queue).op # "Connect" => (state' = state \/ state'.kind # "Streaming"),
         NEW i \in 2..(Len(queue) + 1), Cleared(i)
  PROVE  Cleared(i - 1)'
<1>1. /\ Len(queue) \in Nat /\ Len(queue) > 0 /\ Head(queue) = queue[1]
      /\ \A k \in 1..(Len(queue) - 1) : queue'[k] = queue[k + 1]
  BY DEF QueueOK
<1>2. CASE state.kind # "Streaming" /\ \A k \in 1..(i - 1) : queue[k].op # "Connect"
  <2>1. state'.kind # "Streaming"
    BY <1>1, <1>2
  <2>2. \A k \in 1..((i - 1) - 1) : queue'[k].op # "Connect"
    BY <1>1, <1>2
  <2> QED BY <2>1, <2>2 DEF Cleared
<1>3. CASE \E j \in 1..(i - 1) : /\ queue[j].op = "Disconnect"
                                 /\ \A k \in (j + 1)..(i - 1) : queue[k].op # "Connect"
  <2>1. PICK j \in 1..(i - 1) : /\ queue[j].op = "Disconnect"
                                /\ \A k \in (j + 1)..(i - 1) : queue[k].op # "Connect"
    BY <1>3
  <2>2. CASE j = 1
    <3>1. state'.kind # "Streaming" /\ \A k \in 1..((i - 1) - 1) : queue'[k].op # "Connect"
      BY <1>1, <2>1, <2>2
    <3> QED BY <3>1 DEF Cleared
  <2>3. CASE j # 1
    <3>1. j - 1 \in 1..((i - 1) - 1) /\ queue'[j - 1].op = "Disconnect"
      BY <1>1, <2>1, <2>3
    <3>2. \A k \in ((j - 1) + 1)..((i - 1) - 1) : queue'[k].op # "Connect"
      BY <1>1, <2>1, <2>3
    <3> QED BY <3>1, <3>2 DEF Cleared
  <2> QED BY <2>2, <2>3
<1> QED BY <1>2, <1>3 DEF Cleared

\* What a step of the worker does to the queue and to the stream.
LEMMA WorkerTakes ==
  ASSUME WorkerNext
  PROVE  \/ queue' = queue /\ (state' = state \/ state'.kind # "Streaming")
         \/ /\ queue # <<>> /\ queue' = Tail(queue)
            /\ Head(queue).op = "Disconnect" => state'.kind # "Streaming"
            /\ Head(queue).op # "Connect" => (state' = state \/ state'.kind # "Streaming")
<1>1. CASE WorkerConnect
  BY <1>1 DEF WorkerConnect, Take
<1>2. CASE WorkerDisconnect
  <2>1. /\ Take("Disconnect")
        /\ \/ state' = Idle
           \/ state' = IF state.kind = "Streaming" THEN Graced(state.dev) ELSE state
    BY <1>2, Zenon DEF WorkerDisconnect
  <2> QED BY <2>1 DEF Take, Idle, Graced
<1>3. CASE WorkerConnectFails \/ WorkerDisconnectFails \/ WorkerInputFails \/ WorkerModeFails
  BY <1>3 DEF WorkerConnectFails, WorkerDisconnectFails, WorkerInputFails, WorkerModeFails, Take,
     Teardown, Idle
<1>4. CASE WorkerFails
  BY <1>4 DEF WorkerFails, Teardown, Idle
<1>5. CASE WorkerInput \/ WorkerMode \/ WorkerPlacement \/ WorkerShutdown
  BY <1>5 DEF WorkerInput, WorkerMode, WorkerPlacement, WorkerShutdown, Take
<1>6. CASE WorkerTimeout \/ WorkerRest \/ WorkerReconcile \/ WorkerNotReady \/ WorkerEncode
           \/ WorkerOpenEncoder
  BY <1>6 DEF WorkerTimeout, WorkerRest, WorkerReconcile, WorkerNotReady, WorkerEncode,
     WorkerOpenEncoder, channelVars
<1>7. CASE WorkerExpire
  BY <1>7 DEF WorkerExpire, channelVars, Idle
<1> QED BY <1>1, <1>2, <1>3, <1>4, <1>5, <1>6, <1>7 DEF WorkerNext

\* What a step of the tasks does to the queue: a Connect is only sent from the prelude, and
\* the way to the next one leads through a Disconnect.
LEMMA TasksSend ==
  ASSUME HostNext \/ InputNext
  PROVE  \/ queue' = queue /\ (host' \in {"listen", "prelude"} => host \in {"listen", "prelude"})
         \/ \E c : /\ queue' = Append(queue, c)
                   /\ c.op = "Connect" => host = "prelude" /\ host' = "session"
                   /\ \/ host' \in {"listen", "prelude"} => host \in {"listen", "prelude"}
                      \/ c.op = "Disconnect"
<1>1. ASSUME NEW f \in Fps, SendConnect(f)
      PROVE  /\ queue' = Append(queue, Connect(peer, f, sid))
             /\ host = "prelude" /\ host' = "session"
  BY <1>1 DEF SendConnect, Send
<1>2. ASSUME NEW c, SessionCommand(c)
      PROVE  queue' \in {queue, Append(queue, c)} /\ host' \in {"session", "ending"}
  BY <1>2 DEF SessionCommand, Send, Leave
<1>3. CASE EndSession
  <2>1. \/ queue' = queue /\ host' = "stopping"
        \/ queue' = Append(queue, Disconnect(stopped \/ exit))
    BY <1>3, Zenon DEF EndSession, SendOrStop, Send
  <2> QED BY <2>1 DEF Disconnect
<1>4. CASE IdleDisconnect \/ IdlePlacement
  <2>1. /\ host = "listen"
        /\ \/ queue' = queue
           \/ queue' = Append(queue, Disconnect(TRUE)) \/ queue' = Append(queue, Plain("Placement"))
    BY <1>4, Zenon DEF IdleDisconnect, IdlePlacement, SendOrStop, Send
  <2> QED BY <2>1 DEF Disconnect, Plain
<1>5. CASE SendShutdown
  BY <1>5 DEF SendShutdown, Send, Plain
<1>6. ASSUME NEW s \in Session, InputSend(s) \/ InputDetach(s)
      PROVE  /\ host' = host
             /\ queue' \in {queue, Append(queue, Disconnect(FALSE)), Append(queue, Plain("Input"))}
  BY <1>6, Zenon DEF InputSend, InputDetach, Send
<1>7. CASE \/ \E d \in Device : Attach(d)
           \/ PreludeFails \/ ConnectionLost \/ SessionStop \/ SessionClosed \/ SessionEvent
           \/ UserExits \/ IdleStops \/ Joined
           \/ AcceptInput \/ \E s \in Session : InputPacket(s) \/ InputFails(s)
  BY <1>7 DEF Attach, PreludeFails, ConnectionLost, SessionStop, SessionClosed, SessionEvent,
     SessionReady, SessionFailed, SessionFrame, UserExits, IdleStops, Joined, AcceptInput,
     InputPacket, InputFails, Leave, channelVars, hostVars
<1>8. CASE \E f \in Fps : SendConnect(f)
  BY <1>1, <1>8
<1>9. CASE \/ \E f \in Fps : SessionCommand(Mode(f))
           \/ SessionCommand(Plain("Placement"))
  <2>1. (\A f \in Fps : Mode(f).op # "Connect") /\ Plain("Placement").op # "Connect"
    BY DEF Mode, Plain
  <2>2. PICK c : SessionCommand(c) /\ c.op # "Connect"
    BY <1>9, <2>1, Zenon
  <2>3. queue' \in {queue, Append(queue, c)} /\ host' \in {"session", "ending"}
    BY <1>2, <2>2
  <2> QED BY <2>2, <2>3
<1>10. CASE \E s \in Session : InputSend(s) \/ InputDetach(s)
  <2>1. Disconnect(FALSE).op # "Connect" /\ Plain("Input").op # "Connect"
    BY DEF Disconnect, Plain
  <2>2. /\ host' = host
        /\ queue' \in {queue, Append(queue, Disconnect(FALSE)), Append(queue, Plain("Input"))}
    BY <1>6, <1>10
  <2> QED BY <2>1, <2>2
<1> QED BY <1>3, <1>4, <1>5, <1>7, <1>8, <1>9, <1>10 DEF HostNext, InputNext

LEMMA ConnectsStep ==
  ASSUME TypeOK, ConnectsCleared, [Next]_vars
  PROVE  ConnectsCleared'
<1> USE DEF TypeOK
<1>0. Len(queue) \in Nat
  BY DEF QueueOK
<1>1. ASSUME queue' = queue, state'.kind = "Streaming" => state.kind = "Streaming",
             host' \in {"listen", "prelude"} => host \in {"listen", "prelude"}
      PROVE  ConnectsCleared'
  BY <1>1, KeptCleared DEF ConnectsCleared
<1>2. ASSUME NEW c, queue' = Append(queue, c), state' = state,
             c.op = "Connect" => host = "prelude" /\ host' = "session",
             \/ host' \in {"listen", "prelude"} => host \in {"listen", "prelude"}
             \/ c.op = "Disconnect"
      PROVE  ConnectsCleared'
  <2>1. /\ Len(queue') = Len(queue) + 1 /\ queue'[Len(queue) + 1] = c
        /\ \A i \in 1..Len(queue) : queue'[i] = queue[i]
    BY <1>2 DEF QueueOK
  <2>2. ASSUME NEW i \in 1..(Len(queue) + 1), Cleared(i)
        PROVE  /\ Cleared(i)'
               /\ (i = Len(queue) + 1 /\ c.op # "Connect") => Cleared(i + 1)'
    BY <1>2, <2>2, SentCleared
  <2>3. ASSUME NEW i \in 1..Len(queue'), queue'[i].op = "Connect" PROVE Cleared(i)'
    <3>1. CASE i \in 1..Len(queue)
      BY <1>0, <2>1, <2>2, <2>3, <3>1 DEF ConnectsCleared
    <3>2. CASE i = Len(queue) + 1
      BY <1>0, <1>2, <2>1, <2>2, <2>3, <3>2 DEF ConnectsCleared
    <3> QED BY <1>0, <2>1, <3>1, <3>2
  <2>4. ASSUME host' \in {"listen", "prelude"}, NEW i \in Nat, i = Len(queue) + 1
        PROVE  Cleared(i + 1)'
    <3>1. CASE c.op = "Disconnect"
      BY <1>2, <2>4, <3>1, DisconnectClears
    <3>2. CASE host \in {"listen", "prelude"} /\ c.op # "Disconnect"
      <4>1. c.op # "Connect" /\ Cleared(i) /\ i \in 1..(Len(queue) + 1)
        BY <1>0, <1>2, <2>4, <3>2 DEF ConnectsCleared
      <4> QED BY <2>2, <2>4, <4>1
    <3> QED BY <1>2, <2>4, <3>1, <3>2
  <2>5. ASSUME host' \in {"listen", "prelude"} PROVE Cleared(Len(queue) + 1)'
    <3>1. PICK i \in Nat : i = Len(queue) + 1
      BY <1>0
    <3>2. Cleared(i + 1)' /\ i + 1 = Len(queue') + 1
      BY <1>0, <2>1, <2>4, <2>5, <3>1
    <3> QED BY <3>2 DEF Cleared
  <2> QED BY <2>3, <2>5 DEF ConnectsCleared
<1>3. ASSUME queue # <<>>, queue' = Tail(queue), host' = host,
             Head(queue).op = "Disconnect" => state'.kind # "Streaming",
             Head(queue).op # "Connect" => (state' = state \/ state'.kind # "Streaming")
      PROVE  ConnectsCleared'
  <2>1. /\ Len(queue') = Len(queue) - 1
        /\ \A i \in 1..Len(queue') : queue'[i] = queue[i + 1]
    BY <1>3 DEF QueueOK
  <2>2. ASSUME NEW i \in 2..(Len(queue) + 1), Cleared(i) PROVE Cleared(i - 1)'
    BY <1>3, <2>2, TakenCleared
  <2>3. ASSUME NEW i \in 1..Len(queue'), queue'[i].op = "Connect" PROVE Cleared(i)'
    <3>1. i + 1 \in 2..(Len(queue) + 1) /\ Cleared(i + 1) /\ (i + 1) - 1 = i
      BY <1>0, <2>1, <2>3 DEF ConnectsCleared
    <3>2. Cleared((i + 1) - 1)'
      BY <2>2, <3>1
    <3> QED BY <3>1, <3>2
  <2>4. ASSUME host' \in {"listen", "prelude"} PROVE Cleared(Len(queue) + 1)'
    <3>1. PICK i \in Nat : i = Len(queue) + 1
      BY <1>0
    <3>2. i \in 2..(Len(queue) + 1) /\ Cleared(i) /\ i - 1 = Len(queue') + 1
      BY <1>0, <1>3, <2>1, <2>4, <3>1 DEF ConnectsCleared, QueueOK
    <3>3. Cleared(i - 1)'
      BY <2>2, <3>2
    <3> QED BY <3>2, <3>3 DEF Cleared
  <2> QED BY <2>3, <2>4 DEF ConnectsCleared
<1>4. CASE HostNext \/ InputNext
  <2>1. state' = state
    BY <1>4, TasksLeaveWorker DEF workerVars
  <2> QED BY <1>1, <1>2, <1>4, <2>1, TasksSend
<1>5. CASE WorkerNext
  <2>1. host' = host
    BY <1>5, WorkerLeavesTasks DEF hostVars
  <2> QED BY <1>1, <1>3, <1>5, <2>1, WorkerTakes
<1>6. CASE DisplayNext \/ UNCHANGED vars
  BY <1>1, <1>6 DEF DisplayNext, DisplayActivates, GenerationChanges, DisplayLost, vars, hostVars,
     channelVars, workerVars
<1>7. CASE Tick
  <2>1. queue' = queue /\ host' = host /\ state'.kind = state.kind
    BY <1>7 DEF Tick, channelVars, WorkerTypeOK
  <2> QED BY <1>1, <2>1
<1> QED BY <1>4, <1>5, <1>6, <1>7 DEF Next, Exited

LEMMA StartupStep ==
  ASSUME TypeOK, StartupLimited, [Next]_vars
  PROVE  StartupLimited'
<1> USE LifecycleAssumption DEF TypeOK, WorkerTypeOK, StartupLimited
<1>0. Startup # Off
  BY DEF Off
<1>1. ASSUME UNCHANGED <<state, startup, worker>>, encoder' = "none" => encoder = "none"
      PROVE  StartupLimited'
  BY <1>1
<1>2. CASE HostNext \/ InputNext \/ UNCHANGED vars
  BY <1>1, <1>2, TasksLeaveWorker DEF vars, workerVars, nativeVars
<1>3. CASE DisplayNext
  BY <1>1, <1>3 DEF DisplayNext, DisplayActivates, GenerationChanges, DisplayLost, workerVars,
     nativeVars
<1>4. CASE Tick
  BY <1>4 DEF Tick, Starting, nativeVars, Off
<1>5. CASE WorkerConnect
  BY <1>0, <1>5 DEF WorkerConnect
<1>6. CASE WorkerDisconnect
  <2>1. \/ state' = Idle
        \/ state' = IF state.kind = "Streaming" THEN Graced(state.dev) ELSE state
    BY <1>6, Zenon DEF WorkerDisconnect
  <2> QED BY <2>1 DEF Idle, Graced
<1>7. CASE WorkerMode
  BY <1>0, <1>7 DEF WorkerMode, Take
<1>8. CASE WorkerConnectFails \/ WorkerDisconnectFails \/ WorkerInputFails \/ WorkerModeFails
           \/ WorkerFails \/ WorkerExpire
  <2>1. state' = Idle
    BY <1>8, Zenon DEF WorkerConnectFails, WorkerDisconnectFails, WorkerInputFails,
       WorkerModeFails, WorkerFails, WorkerExpire, Teardown
  <2> QED BY <2>1 DEF Idle
<1>9. CASE WorkerShutdown
  BY <1>9 DEF WorkerShutdown
<1>10. CASE \/ WorkerInput \/ WorkerPlacement \/ WorkerTimeout \/ WorkerRest \/ WorkerReconcile
            \/ WorkerNotReady \/ WorkerEncode
  <2>1. UNCHANGED <<state, startup, encoder>> /\ worker # "stopped"
    BY <1>10 DEF WorkerInput, WorkerPlacement, WorkerTimeout, WorkerRest, WorkerReconcile,
       WorkerNotReady, WorkerEncode, nativeVars, Take, Ready
  <2> QED BY <2>1
<1>11. CASE WorkerOpenEncoder
  BY <1>11 DEF WorkerOpenEncoder
<1> QED
  BY <1>2, <1>3, <1>4, <1>5, <1>6, <1>7, <1>8, <1>9, <1>10, <1>11
     DEF Next, Exited, WorkerNext

LEMMA QueueInvariance == Safety => [](TypeOK /\ ConnectsCleared /\ StartupLimited)
<1>1. Init => TypeOK
  BY InitTypes
<1>2. Init => ConnectsCleared /\ StartupLimited
  BY DEF Init, ConnectsCleared, Cleared, StartupLimited, Idle
<1>3. TypeOK /\ ConnectsCleared /\ StartupLimited /\ [Next]_vars
        => ConnectsCleared' /\ StartupLimited'
  BY ConnectsStep, StartupStep
<1> QED BY <1>1, <1>2, <1>3, Typing, PTL DEF Safety

\* However many sessions come and go while commands wait in the queue, a Connect is taken by
\* a worker that has ended the stream of the session before: the Disconnect that run() sends
\* for each session stands between them, or run() has stopped.
THEOREM ConnectAfterStream == Safety => []ConnectFindsNoStream
<1>1. TypeOK /\ ConnectsCleared => ConnectFindsNoStream
  <2> SUFFICES ASSUME TypeOK, ConnectsCleared, queue # <<>>, Head(queue).op = "Connect"
               PROVE  state.kind # "Streaming"
    BY DEF ConnectFindsNoStream
  <2>1. 1 \in 1..Len(queue) /\ Head(queue) = queue[1]
    BY DEF TypeOK, QueueOK
  <2>2. Cleared(1)
    BY <2>1 DEF ConnectsCleared
  <2> QED BY <2>2 DEF Cleared
<1> QED BY <1>1, QueueInvariance, PTL

\* A stream without an encoder has its startup deadline, whichever command or failure took
\* the encoder away.
THEOREM StartupDeadline == Safety => []StartupLimited
BY QueueInvariance, PTL
-----------------------------------------------------------------------------
(* The lease: every step is a step of DisplayLease or leaves it alone.     *)

LEMMA SameLease ==
  ASSUME UNCHANGED <<worker, monitor>>, state'.kind = state.kind, state'.dev = state.dev
  PROVE  UNCHANGED Lease!leaseVars
BY DEF Lease!leaseVars, Phase, Holder

\* A step that ends the lease, with its monitor.
LEMMA LeaseEnds ==
  ASSUME Inv, monitor' = NoDevice, Phase' = "Free"
  PROVE  [Lease!LeaseNext]_(Lease!leaseVars)
<1>1. CASE Phase = "Free"
  BY <1>1 DEF Inv, Owned, Owner, MonitorOwned, Phase, Holder, Lease!leaseVars, Lease!LeaseNext, Lease!Lose
<1>2. CASE Phase # "Free"
  BY <1>2 DEF Phase, Holder, Lease!LeaseNext, Lease!Depart
<1> QED BY <1>1, <1>2

\* A step that leaves lease and holder alone, and the monitor alone or lost.
LEMMA LeaseKept ==
  ASSUME UNCHANGED <<worker, state>>, monitor' \in {monitor, NoDevice}
  PROVE  [Lease!LeaseNext]_(Lease!leaseVars)
BY DEF Phase, Holder, Lease!leaseVars, Lease!LeaseNext, Lease!Lose

LEMMA WorkerStepsLease ==
  ASSUME Inv, WorkerNext
  PROVE  [Lease!LeaseNext]_(Lease!leaseVars)
<1>1. CASE WorkerConnect
  <2> DEFINE d == Head(queue).dev
  <2>1. d \in Device
    BY <1>1, TakeKeepsQueue, CommandFields DEF Inv, TypeOK, WorkerConnect
  <2>2. /\ state' = Streaming(d) /\ worker' = "tail" /\ worker = "recv"
        /\ Accepts(d) /\ monitor' \in {monitor, d}
        /\ (monitor' # d => state.kind # "Idle")
    BY <1>1, Zenon DEF WorkerConnect, Arrive, displayVars, ReplaceMonitor, Take
  <2>3. Phase' = "Held" /\ Holder' = d
    BY <2>2 DEF Phase, Holder, Streaming
  <2>4. CASE state.kind = "Idle"
    <3>1. Lease!Grant(d)
      BY <2>2, <2>3, <2>4 DEF Lease!Grant, Phase
    <3> QED BY <2>1, <3>1 DEF Lease!LeaseNext
  <2>5. CASE state.kind # "Idle"
    <3>1. Lease!Resume(d)
      BY <2>2, <2>3, <2>5 DEF Lease!Resume, Phase, Holder, Accepts
    <3> QED BY <2>1, <3>1 DEF Lease!LeaseNext
  <2> QED BY <2>4, <2>5
<1>2. CASE WorkerDisconnect
  <2>1. CASE Head(queue).immediate
    BY <1>2, <2>1, LeaseEnds
       DEF Inv, Owned, MonitorOwned, WorkerDisconnect, DepartMonitor, displayVars, Idle, Phase
  <2>2. CASE ~Head(queue).immediate /\ state.kind = "Streaming"
    <3>1. Lease!Suspend
      BY <1>2, <2>2 DEF WorkerDisconnect, Take, Graced, displayVars, Phase, Holder, Lease!Suspend
    <3> QED BY <3>1 DEF Lease!LeaseNext
  <2>3. CASE ~Head(queue).immediate /\ state.kind # "Streaming"
    BY <1>2, <2>3
       DEF WorkerDisconnect, Take, displayVars, Phase, Holder, Lease!leaseVars
  <2> QED BY <2>1, <2>2, <2>3
<1>3. CASE WorkerMode
  <2>1. UNCHANGED state /\ worker = "recv" /\ worker' = "tail"
        /\ (monitor' = monitor \/ (state.kind = "Streaming" /\ monitor' = state.dev))
    BY <1>3, Zenon DEF WorkerMode, Take, Arrive, displayVars
  <2>2. CASE monitor' = monitor
    BY <2>1, <2>2 DEF Phase, Holder, Lease!leaseVars
  <2>3. CASE monitor' = state.dev /\ state.kind = "Streaming"
    <3>1. Lease!Restart
      BY <2>1, <2>3 DEF Phase, Holder, Lease!Restart
    <3> QED BY <3>1 DEF Lease!LeaseNext
  <2> QED BY <2>1, <2>2, <2>3
<1>4. CASE WorkerShutdown
  BY <1>4, LeaseEnds
     DEF Inv, Owned, MonitorOwned, WorkerShutdown, DepartMonitor, displayVars, Phase
<1>5. CASE WorkerExpire
  BY <1>5, LeaseEnds
     DEF Inv, Owned, MonitorOwned, WorkerExpire, DepartMonitor, displayVars, Idle, Phase
<1>6. CASE \/ WorkerConnectFails \/ WorkerDisconnectFails \/ WorkerInputFails
           \/ WorkerModeFails \/ WorkerFails
  <2>1. monitor' = NoDevice /\ state' = Idle
    BY <1>6, Zenon DEF WorkerConnectFails, WorkerDisconnectFails, WorkerInputFails,
       WorkerModeFails, WorkerFails, Teardown, DepartMonitor
  <2> QED BY <2>1, LeaseEnds DEF Idle, Phase
<1>7. CASE \/ WorkerInput \/ WorkerPlacement \/ WorkerTimeout \/ WorkerRest
           \/ WorkerReconcile \/ WorkerNotReady \/ WorkerOpenEncoder \/ WorkerEncode
  <2>1. UNCHANGED <<state, monitor>> /\ worker # "stopped" /\ worker' # "stopped"
    BY <1>7
       DEF WorkerInput, WorkerPlacement, WorkerTimeout, WorkerRest, WorkerReconcile,
           WorkerNotReady, WorkerOpenEncoder, WorkerEncode, displayVars, Take, Ready
  <2> QED BY <2>1 DEF Phase, Holder, Lease!leaseVars
<1> QED BY <1>1, <1>2, <1>3, <1>4, <1>5, <1>6, <1>7 DEF WorkerNext

\* The tasks, the worker, the clock and Windows together implement the lease: for any
\* number of sessions, iPads and queued commands the monitor changes hands only by
\* departing, and only the reservation's own iPad resumes it.
THEOREM Refinement == Safety => ImplementsLease
<1>1. Init => Lease!LeaseInit
  BY DEF Init, Idle, Phase, Holder, Lease!LeaseInit
<1>2. Inv /\ [Next]_vars => [Lease!LeaseNext]_(Lease!leaseVars)
  <2> SUFFICES ASSUME Inv, [Next]_vars PROVE [Lease!LeaseNext]_(Lease!leaseVars)
    OBVIOUS
  <2>1. CASE HostNext \/ InputNext
    BY <2>1, TasksLeaveWorker, LeaseKept DEF workerVars, displayVars
  <2>2. CASE WorkerNext
    BY <2>2, WorkerStepsLease
  <2>3. CASE DisplayNext
    <3>1. UNCHANGED <<worker, state>> /\ monitor' \in {monitor, NoDevice}
      BY <2>3, Zenon DEF DisplayNext, DisplayActivates, GenerationChanges, DisplayLost,
         workerVars, displayVars
    <3> QED BY <3>1, LeaseKept
  <2>4. CASE Tick
    <3>1. state'.kind = state.kind /\ state'.dev = state.dev
      BY <2>4 DEF Tick, Inv, TypeOK, WorkerTypeOK
    <3> QED BY <2>4, <3>1, SameLease DEF Tick, displayVars
  <2>5. CASE UNCHANGED vars
    BY <2>5, LeaseKept DEF vars, workerVars, displayVars
  <2> QED BY <2>1, <2>2, <2>3, <2>4, <2>5 DEF Next, Exited
<1> QED BY <1>1, <1>2, Invariance, PTL DEF Safety, ImplementsLease, Lease!LeaseSafety
=============================================================================
