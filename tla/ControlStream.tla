------------------------------ MODULE ControlStream ------------------------------
(***************************************************************************)
(* The control stream between host and iPad as bytes: who writes which     *)
(* packet with which sequence number and session token, how QUIC cuts      *)
(* the bytes into pieces, and how both sides find the packets in them      *)
(* again.  Control, read_packet() and write_packet() of network/mod.rs,    *)
(* authenticate() and session() of runtime.rs; Transport.swift, Wire.swift *)
(* and packet() of SessionModel.swift.                                     *)
(*                                                                         *)
(* ClientSession has the contents of the same exchange and its failures;   *)
(* here nothing fails, so that every refusal is a fault of the protocol.   *)
(***************************************************************************)
EXTENDS WireFormat, FiniteSetsExt

CONSTANTS QueueCap,     \* the 32 packets between reader and session
          MaxConfigs,   \* bound: encoders opened during the session
          MaxTicks      \* bound: statistics the iPad sends

ASSUME ControlAssumption ==
  QueueCap \in Nat \ {0} /\ MaxConfigs \in Nat /\ MaxTicks \in Nat

VARIABLES
  toHost, toClient,           \* packets written, in order
  atHost, atClient,           \* bytes of them that have arrived
  stage,                      \* what the host waits for
  hostSequence, hostGuard, token,
  start, got,                 \* the reader: where its packet begins, bytes it has of it
  queue,                      \* packets between the reader task and session()
  parsed,                     \* bytes StreamParser has turned into packets
  clientSequence, lastSequence, clientToken, configured, streaming,
  configs, ticks,
  refused                     \* history: why a side has given up

wire       == <<toHost, toClient, atHost, atClient>>
readerVars == <<start, got>>
hostVars   == <<stage, hostSequence, hostGuard, token, queue>>
clientVars == <<parsed, clientSequence, lastSequence, clientToken, configured, streaming>>
controlVars == <<wire, readerVars, hostVars, clientVars, configs, ticks, refused>>

PacketOf(kind, lengths, sequence, session) ==
  [kind |-> kind, body |-> Write(kind, lengths), sequence |-> sequence, session |-> session,
   size |-> PacketSize(kind, lengths)]

\* Byte at which packet i begins; one more than the packets: where the next will.
Begin(packets, i) == SumOf([j \in 1..(i - 1) |-> packets[j].size])
Bytes(packets)    == Begin(packets, Len(packets) + 1)
PacketAt(packets, byte) == {i \in DOMAIN packets : Begin(packets, i) = byte}

ControlTypeOK ==
  /\ 0 <= atHost /\ atHost <= Bytes(toHost) /\ 0 <= atClient /\ atClient <= Bytes(toClient)
  /\ stage \in {"hello", "proof", "capabilities", "session", "stopped"}
  /\ start + got <= atHost /\ parsed <= atClient
  /\ Len(queue) <= QueueCap
  /\ \A i \in DOMAIN toHost : toHost[i].size <= MaxControl
  /\ token \in 0..1 /\ clientToken \in 0..1
  /\ configured \in BOOLEAN /\ streaming \in BOOLEAN
  /\ configs \in 0..MaxConfigs /\ ticks \in 0..MaxTicks

\* The stream is open when the first bytes have arrived: onReady sends the Handshake.
ControlInit ==
  /\ toHost = <<PacketOf("Handshake", <<16, 4>>, 1, 0)>> /\ toClient = <<>>
  /\ atHost = 0 /\ atClient = 0
  /\ stage = "hello" /\ hostSequence = 0 /\ hostGuard = 0 /\ token = 0
  /\ start = 0 /\ got = 0 /\ queue = <<>>
  /\ parsed = 0 /\ clientSequence = 1 /\ lastSequence = 0 /\ clientToken = 0
  /\ configured = FALSE /\ streaming = FALSE
  /\ configs = 0 /\ ticks = 0 /\ refused = {}
-----------------------------------------------------------------------------
(* QUIC delivers in order, in pieces of any size: up to some byte inside a *)
(* header, its end, or the end of a packet.                                *)

PieceEnds(packets) ==
  UNION {{Begin(packets, i) + 1, Begin(packets, i) + Header, Begin(packets, i + 1)} :
           i \in DOMAIN packets}

ArriveAtHost ==
  /\ atHost' \in {n \in PieceEnds(toHost) : n > atHost}
  /\ UNCHANGED <<toHost, toClient, atClient, readerVars, hostVars, clientVars, configs,
                 ticks, refused>>

ArriveAtClient ==
  /\ atClient' \in {n \in PieceEnds(toClient) : n > atClient}
  /\ UNCHANGED <<toHost, toClient, atHost, readerVars, hostVars, clientVars, configs,
                 ticks, refused>>
-----------------------------------------------------------------------------
(* The host's reader: read_packet() awaits a header, then a body.          *)

\* Bytes up to the end of what read_exact() waits for.
Wanted ==
  IF got < Header THEN Header
  ELSE toHost[CHOOSE i \in PacketAt(toHost, start) : TRUE].size

Framed == PacketAt(toHost, start) # {}

ReadSome ==
  /\ stage # "stopped" /\ start + got < atHost
  /\ IF got >= Header /\ ~Framed
     THEN refused' = refused \cup {"framing"} /\ stage' = "stopped" /\ UNCHANGED got
     ELSE /\ got < Wanted /\ got' = Min({Wanted, atHost - start})
          /\ UNCHANGED <<stage, refused>>
  /\ UNCHANGED <<wire, start, hostSequence, hostGuard, token, queue, clientVars, configs,
                 ticks>>

PacketRead == got >= Header /\ Framed /\ got = Wanted
Incoming   == toHost[CHOOSE i \in PacketAt(toHost, start) : TRUE]
NextPacket == start' = start + got /\ got' = 0

\* What comes back, numbered on; each send is awaited before anything else is read.
Reply(kinds, lengths, session) ==
  [i \in DOMAIN kinds |->
     PacketOf(kinds[i], lengths[i], hostSequence + i, session)]

HostWrites(packets) ==
  /\ toClient' = toClient \o packets /\ hostSequence' = hostSequence + Len(packets)

\* Control::receive(): the number, then the token.
Receivable(p, session, kind) ==
  p.sequence > hostGuard /\ p.session = session /\ p.kind = kind /\ Accepts(kind, p.body)

Refuse(why) == refused' = refused \cup {why} /\ stage' = "stopped"

\* authenticate(): Handshake; the iPad is trusted or not.
Greet ==
  /\ stage = "hello" /\ PacketRead /\ NextPacket
  /\ IF Receivable(Incoming, 0, "Handshake")
     THEN /\ HostWrites(Reply(<<"ProtocolVersion", "HostInfo", "Pairing">>,
                              <<<<>>, <<16, 4>>, <<32, 0, 0>>>>, 0))
          /\ hostGuard' = Incoming.sequence /\ stage' = "proof" /\ UNCHANGED refused
     ELSE Refuse("hello") /\ UNCHANGED <<toClient, hostSequence, hostGuard>>
  /\ UNCHANGED <<toHost, atHost, atClient, token, queue, clientVars, configs, ticks>>

\* The iPad's proof; a new device gets a secret.
Prove ==
  /\ stage = "proof" /\ PacketRead /\ NextPacket
  /\ IF Receivable(Incoming, 0, "Pairing")
     THEN /\ \E secret \in {0, 32} :
               HostWrites(Reply(<<"Pairing">>, <<<<32, 32, secret>>>>, 0))
          /\ hostGuard' = Incoming.sequence /\ stage' = "capabilities" /\ UNCHANGED refused
     ELSE Refuse("proof") /\ UNCHANGED <<toClient, hostSequence, hostGuard>>
  /\ UNCHANGED <<toHost, atHost, atClient, token, queue, clientVars, configs, ticks>>

\* session() numbers its packets from 10 on, apart from Control's own count, and
\* starts a guard of its own.
SessionSequence == 10

StartSession ==
  /\ stage = "capabilities" /\ PacketRead /\ NextPacket
  /\ IF Receivable(Incoming, 0, "DisplayCapabilities")
     THEN /\ toClient' = toClient \o Reply(<<"SessionStart", "EncoderCapabilities">>,
                                           <<<<>>, <<>>>>, 1)
          /\ token' = 1 /\ hostSequence' = SessionSequence /\ hostGuard' = 0
          /\ stage' = "session" /\ UNCHANGED refused
     ELSE Refuse("capabilities") /\ UNCHANGED <<toClient, token, hostSequence, hostGuard>>
  /\ UNCHANGED <<toHost, atHost, atClient, queue, clientVars, configs, ticks>>
-----------------------------------------------------------------------------
(* session(): a task reads, select! takes the packets from its channel.    *)

Enqueue ==
  /\ stage = "session" /\ PacketRead /\ Len(queue) < QueueCap
  /\ queue' = Append(queue, Incoming) /\ NextPacket
  /\ UNCHANGED <<wire, stage, hostSequence, hostGuard, token, clientVars, configs, ticks,
                 refused>>

\* "cancelling read_exact in select would lose partial framing", so another branch
\* leaves the reader alone.  Mutant: it is cancelled with the bytes it has.
ReaderCancelled == start' = start + got /\ got' = 0
ReaderKept      == UNCHANGED <<start, got>>

\* Event::Ready.
SendConfig ==
  /\ stage = "session" /\ configs < MaxConfigs /\ configs' = configs + 1
  /\ HostWrites(Reply(<<"VideoConfig">>, <<<<0>>>>, token))
  /\ ReaderKept
  /\ UNCHANGED <<toHost, atHost, atClient, stage, hostGuard, token, queue, clientVars,
                 ticks, refused>>

SessionKinds == {"SessionStop", "KeyframeRequest", "DisplayModeChange", "Statistics", "Ping"}

\* A packet's token, number and kind; the body is checked with its kind.
HandlePacket ==
  /\ stage = "session" /\ queue # <<>> /\ queue' = Tail(queue)
  /\ LET p == Head(queue) IN
     IF p.session = token /\ p.sequence > hostGuard /\ p.kind \in SessionKinds
        /\ Accepts(p.kind, p.body)
     THEN /\ hostGuard' = p.sequence
          /\ IF p.kind = "Ping" THEN HostWrites(Reply(<<"Pong">>, <<<<>>>>, token))
             ELSE UNCHANGED <<toClient, hostSequence>>
          /\ stage' = (IF p.kind = "SessionStop" THEN "stopped" ELSE stage)
          /\ UNCHANGED refused
     ELSE Refuse("session") /\ UNCHANGED <<hostGuard, toClient, hostSequence>>
  /\ UNCHANGED <<toHost, atHost, atClient, readerVars, token, clientVars, configs, ticks>>
-----------------------------------------------------------------------------
(* The iPad, all on its main queue.                                        *)

\* QUICTransport.send(), for a list of messages.
ClientWrites(kinds, lengths) ==
  /\ toHost' = toHost \o [i \in DOMAIN kinds |->
                            PacketOf(kinds[i], lengths[i], clientSequence + i, clientToken')]
  /\ clientSequence' = clientSequence + Len(kinds)

ClientSilent == UNCHANGED <<toHost, clientSequence>>

\* What packet() does with p, whose number and token it has checked.  The user types
\* the code while phase 0 waits.
ClientHandles(p) ==
  \/ /\ p.kind \in {"ProtocolVersion", "HostInfo", "EncoderCapabilities", "Pong"}
     /\ ClientSilent /\ UNCHANGED <<configured, streaming>>
  \/ /\ p.kind = "Pairing" /\ p.body.lengths[2] = 0
     /\ ClientWrites(<<"Pairing">>, <<<<32, 32, 0>>>>)
     /\ UNCHANGED <<configured, streaming>>
  \/ /\ p.kind = "Pairing" /\ p.body.lengths[2] # 0
     /\ ClientWrites(<<"DisplayCapabilities">>, <<<<>>>>)
     /\ configured' = TRUE /\ UNCHANGED streaming
  \/ /\ p.kind = "SessionStart" /\ configured
     /\ ClientSilent /\ UNCHANGED <<configured, streaming>>
  \/ /\ p.kind = "VideoConfig" /\ configured
     /\ ClientWrites(<<"KeyframeRequest">>, <<<<>>>>)
     /\ streaming' = TRUE /\ UNCHANGED configured

Acceptable(p) ==
  /\ p.sequence > lastSequence
  /\ p.kind = "SessionStart" => configured /\ p.session # 0
  /\ p.kind # "SessionStart" => p.session = clientToken
  /\ p.kind \in {"VideoConfig"} => configured
  /\ Accepts(p.kind, p.body)

\* Mutant: the parser does not wait for the rest of the body.
WholeAssumed(p) == TRUE
Whole(p)        == parsed + p.size <= atClient

\* StreamParser.append() and onPacket, once a whole packet is in the buffer.
ClientParses ==
  /\ parsed + Header <= atClient
  /\ IF PacketAt(toClient, parsed) = {}
     THEN /\ "parser" \notin refused /\ refused' = refused \cup {"parser"}
          /\ UNCHANGED <<toHost, clientVars>>
     ELSE LET p == toClient[CHOOSE i \in PacketAt(toClient, parsed) : TRUE] IN
          /\ Whole(p) /\ parsed' = parsed + p.size
          /\ IF Acceptable(p)
             THEN /\ lastSequence' = p.sequence
                  /\ clientToken' = (IF p.kind = "SessionStart" THEN p.session ELSE clientToken)
                  /\ ClientHandles(p) /\ UNCHANGED refused
             ELSE /\ refused' = refused \cup {"client"}
                  /\ ClientSilent
                  /\ UNCHANGED <<lastSequence, clientToken, configured, streaming>>
  /\ UNCHANGED <<toClient, atHost, atClient, readerVars, hostVars, configs, ticks>>

\* tick(), once a second.
ClientTicks ==
  /\ streaming /\ ticks < MaxTicks /\ ticks' = ticks + 1
  /\ UNCHANGED <<parsed, lastSequence, clientToken, configured, streaming>>
  /\ ClientWrites(<<"Ping", "Statistics">>, <<<<>>, <<>>>>)
  /\ UNCHANGED <<toClient, atHost, atClient, readerVars, hostVars, configs, refused>>

\* disconnect(); the transport lives on for 0.2 s.
ClientStops ==
  /\ streaming
  /\ streaming' = FALSE
  /\ UNCHANGED <<parsed, lastSequence, clientToken, configured>>
  /\ ClientWrites(<<"SessionStop">>, <<<<>>>>)
  /\ UNCHANGED <<toClient, atHost, atClient, readerVars, hostVars, configs, ticks, refused>>

ControlNext ==
  \/ ArriveAtHost \/ ArriveAtClient \/ ReadSome
  \/ Greet \/ Prove \/ StartSession
  \/ Enqueue \/ SendConfig \/ HandlePacket
  \/ ClientParses \/ ClientTicks \/ ClientStops

ControlSafety == ControlInit /\ [][ControlNext]_controlVars
-----------------------------------------------------------------------------
(* Properties.                                                             *)

\* "arbitrary QUIC receive segmentation does not affect framing": two honest sides
\* never refuse each other's packets, whatever the pieces they come in and
\* whatever else select! does between two of them: not for framing, number,
\* token, kind or length.
NothingRefused == refused = {}
=============================================================================
