----------------------------- MODULE ClientSession -----------------------------
(***************************************************************************)
(* The life of a session as the iPad sees it, and the pairing it begins    *)
(* with: SessionModel.swift, Transport.swift and TrustStore.swift against  *)
(* the host's authenticate(), Identity and the outline of session().       *)
(*                                                                         *)
(* Everything on the iPad runs on the main actor, one callback at a time:  *)
(* taps, scene changes, callbacks of the transport, and tasks that have    *)
(* slept.  A task whose sleep has ended waits for the main actor as "due", *)
(* where cancel() no longer reaches it.  A link is one QUIC connection,    *)
(* its number is its epoch; link = 0 between close() and the next          *)
(* connect().  What an honest host sends is well formed and in sequence.   *)
(* Video is the subject of VideoReceiver.                                  *)
(***************************************************************************)
EXTENDS Naturals, Sequences

CONSTANTS MaxLinks,     \* bound: connections the iPad makes
          MaxIdentity,  \* bound: identities the host generates
          MaxWire       \* bound: packets on their way

ASSUME ClientAssumption ==
  MaxLinks \in Nat \ {0} /\ MaxIdentity \in Nat \ {0} /\ MaxWire \in Nat \ {0}

VARIABLES
  \* SessionModel: what the user sees
  state, wantsConnection, foreground, idleTimerDisabled, timer,
  reconnectAttempt,   \* 1 stands for any number of attempts
  \* SessionModel: its tasks
  reconnectSleeping, reconnectDue, timeoutSleeping, timeoutDue,
  \* SessionModel: pairing; saved is the keychain's entry for the host
  configured, pairingNew, nonce, pairKey, trusted, saved,
  \* QUICTransport
  link, links, session, certificate,
  graceful,           \* links that closeGracefully() will close
  \* the network
  dialing, dead, toClient,
  toHost,             \* on the link the host serves
  \* the host
  serving, stage, isNew, hostKey, identity, devices,
  disk,               \* devices as last saved
  persisted, proved   \* history: secrets ever saved, links whose proof was verified

uiVars   == <<state, wantsConnection, foreground, idleTimerDisabled, timer,
              reconnectAttempt>>
taskVars == <<reconnectSleeping, reconnectDue, timeoutSleeping, timeoutDue>>
pairVars == <<configured, pairingNew, nonce, pairKey, trusted, saved>>
linkVars == <<link, links, session, certificate, graceful>>
netVars  == <<dialing, dead, toClient, toHost>>
authVars == <<serving, stage, isNew, hostKey>>
idVars   == <<identity, devices, disk, persisted>>
hostVars == <<authVars, idVars, proved>>
clientVars == <<uiVars, taskVars, pairVars, linkVars>>
vars == <<clientVars, netVars, hostVars>>

Link    == 1..MaxLinks
Nobody  == [secret |-> 0, identity |-> 0]
Trusted == [secret : Link, identity : 1..MaxIdentity] \cup {Nobody}

\* A code or a secret is known by the link it was made for; 0 is a mistyped code.
Code(c)   == <<"code", c>>
Secret(c) == <<"secret", c>>
NoKey     == <<"none", 0>>
Key       == ({"code", "secret"} \X (0..MaxLinks)) \cup {NoKey}

State == {"idle", "connecting", "pairing", "streaming", "reconnecting", "failed"}
Stage == {"idle", "hello", "proof", "verified", "capabilities", "session"}

TypeOK ==
  /\ state \in State /\ reconnectAttempt \in 0..1
  /\ wantsConnection \in BOOLEAN /\ foreground \in BOOLEAN
  /\ idleTimerDisabled \in BOOLEAN /\ timer \in BOOLEAN
  /\ reconnectSleeping \in BOOLEAN /\ reconnectDue \in BOOLEAN
  /\ timeoutSleeping \in BOOLEAN /\ timeoutDue \in BOOLEAN
  /\ configured \in BOOLEAN /\ pairingNew \in BOOLEAN
  /\ nonce \in 0..MaxLinks /\ pairKey \in Key
  /\ trusted \in Trusted /\ saved \in Trusted
  /\ link \in 0..MaxLinks /\ links \in 0..MaxLinks /\ session \in 0..MaxLinks
  /\ certificate \in 0..MaxIdentity
  /\ graceful \subseteq Link /\ dialing \subseteq Link /\ dead \subseteq Link
  /\ \A c \in Link : Len(toClient[c]) <= MaxWire + 1
  /\ Len(toHost) <= MaxWire
  /\ serving \in 0..MaxLinks /\ stage \in Stage /\ isNew \in BOOLEAN
  /\ hostKey \in Key /\ identity \in 1..MaxIdentity
  /\ devices \in 0..MaxLinks /\ disk \in 0..MaxLinks
  /\ persisted \subseteq Link /\ proved \subseteq Link

Init ==
  /\ state = "idle" /\ wantsConnection = FALSE /\ foreground = TRUE
  /\ idleTimerDisabled = FALSE /\ timer = FALSE /\ reconnectAttempt = 0
  /\ reconnectSleeping = FALSE /\ reconnectDue = FALSE
  /\ timeoutSleeping = FALSE /\ timeoutDue = FALSE
  /\ configured = FALSE /\ pairingNew = FALSE /\ nonce = 0 /\ pairKey = NoKey
  /\ trusted = Nobody /\ saved = Nobody
  /\ link = 0 /\ links = 0 /\ session = 0 /\ certificate = 0 /\ graceful = {}
  /\ dialing = {} /\ dead = {} /\ toClient = [c \in Link |-> <<>>] /\ toHost = <<>>
  /\ serving = 0 /\ stage = "idle" /\ isNew = FALSE /\ hostKey = NoKey
  /\ identity = 1 /\ devices = 0 /\ disk = 0 /\ persisted = {} /\ proved = {}
-----------------------------------------------------------------------------
(* QUICTransport.                                                          *)

Live(c) == c # 0 /\ c \notin dead

\* close(): the epoch moves on, so callbacks of the link find another one.
Close ==
  /\ link' = 0 /\ session' = 0 /\ certificate' = 0
  /\ dead' = dead \cup ({link} \ {0})

\* connect() closes the link before and dials a new one.
Dial ==
  /\ links < MaxLinks /\ links' = links + 1 /\ link' = links + 1
  /\ session' = 0 /\ certificate' = 0
  /\ dead' = dead \cup ({link} \ {0})
  /\ dialing' = dialing \cup {links + 1}

\* What the iPad sends on a link that has broken goes nowhere.
Send(m) ==
  IF Live(link) /\ serving = link
  THEN Len(toHost) < MaxWire /\ toHost' = Append(toHost, m)
  ELSE UNCHANGED toHost
-----------------------------------------------------------------------------
(* SessionModel: failed() and open(), which other handlers end in.         *)

Retries(error) == foreground /\ trusted # Nobody /\ error # "trust"

GiveUp ==
  wantsConnection' = FALSE /\ state' = "failed"

Retry ==
  /\ state' = "reconnecting" /\ reconnectAttempt' = 1 /\ reconnectSleeping' = TRUE
  /\ UNCHANGED wantsConnection

\* Mutant: only the timers end.
AsleepLater ==
  timer' = FALSE /\ timeoutSleeping' = FALSE /\ UNCHANGED idleTimerDisabled

Asleep == timer' = FALSE /\ timeoutSleeping' = FALSE /\ idleTimerDisabled' = FALSE

\* failed(): the session ends and, for a host that is trusted, a retry is armed.
Failed(error) ==
  /\ Close
  /\ IF ~wantsConnection
     THEN /\ state' = "idle"
          /\ UNCHANGED <<wantsConnection, reconnectAttempt, reconnectSleeping, timer,
                         timeoutSleeping, idleTimerDisabled>>
     ELSE /\ Asleep
          /\ IF Retries(error) THEN Retry
             ELSE GiveUp /\ UNCHANGED <<reconnectAttempt, reconnectSleeping>>
  /\ UNCHANGED foreground

\* open(): reads the keychain, which may refuse, and connects.  connect() has
\* disconnected before: fresh.  (An entry of another format, which no save() writes,
\* would not be a TrustError: it would be read again while the host is trusted.)
Open(attempt, fresh) ==
  \/ /\ Dial /\ trusted' = saved /\ configured' = FALSE
     /\ state' = (IF attempt = 0 THEN "connecting" ELSE "reconnecting")
     /\ timeoutSleeping' = TRUE
     /\ wantsConnection' = TRUE /\ reconnectAttempt' = attempt
     /\ timer' = (timer /\ ~fresh) /\ idleTimerDisabled' = (idleTimerDisabled /\ ~fresh)
  \/ /\ Close /\ GiveUp
     /\ reconnectAttempt' = attempt
     /\ Asleep
     /\ UNCHANGED <<links, dialing, trusted, configured>>
-----------------------------------------------------------------------------
(* SessionModel: the user, the scene, the tasks.                           *)

\* disconnect(), but for the link.
Stopped ==
  /\ wantsConnection' = FALSE /\ state' = "idle" /\ idleTimerDisabled' = FALSE
  /\ timer' = FALSE /\ reconnectSleeping' = FALSE /\ timeoutSleeping' = FALSE
  /\ graceful' = graceful \cup ({link} \ {0})
  /\ IF state = "streaming" THEN Send([kind |-> "stop"]) ELSE UNCHANGED toHost
  /\ UNCHANGED <<foreground, reconnectAttempt, reconnectDue, timeoutDue, configured,
                 pairingNew, nonce, pairKey, link, links, session, certificate,
                 dialing, dead, toClient, hostVars>>

Disconnect ==
  /\ foreground /\ state \in {"connecting", "reconnecting", "streaming"}
  /\ Stopped /\ UNCHANGED <<trusted, saved>>

\* forgetHost(), from the settings or from a failure.
ForgetHost == foreground /\ Stopped /\ saved' = Nobody /\ trusted' = Nobody

\* connect(): disconnect(), then open(), which closes a link that lingers.
Connect ==
  /\ foreground /\ state \in {"idle", "failed"}
  /\ Open(0, TRUE)
  /\ reconnectSleeping' = FALSE /\ graceful' = graceful \cup ({link} \ {0})
  /\ UNCHANGED <<foreground, reconnectDue, timeoutDue, pairingNew, nonce, pairKey,
                 saved, toClient, toHost, hostVars>>

\* pair(): the user types the code on the PC's screen, or another.
Pair(k) ==
  /\ foreground /\ state = "pairing"
  /\ pairKey' = k
  /\ IF nonce # 0 /\ certificate # 0
     THEN Send([kind |-> "proof", key |-> k, nonce |-> nonce]) ELSE UNCHANGED toHost
  /\ UNCHANGED <<uiVars, taskVars, configured, pairingNew, nonce, trusted, saved,
                 linkVars, dialing, dead, toClient, hostVars>>

\* sceneActive(true).
SceneActive ==
  /\ ~foreground /\ foreground' = TRUE
  /\ IF wantsConnection /\ state \notin {"streaming", "connecting", "pairing"}
     THEN Open(0, FALSE)
     ELSE UNCHANGED <<state, wantsConnection, idleTimerDisabled, timer,
                      reconnectAttempt, timeoutSleeping, configured, trusted,
                      link, links, session, certificate, dialing, dead>>
  /\ UNCHANGED <<reconnectSleeping, reconnectDue, timeoutDue, pairingNew, nonce,
                 pairKey, saved, graceful, toClient, toHost, hostVars>>

\* sceneActive(false).
SceneInactive ==
  /\ foreground /\ foreground' = FALSE
  /\ reconnectSleeping' = FALSE /\ timeoutSleeping' = FALSE /\ timer' = FALSE
  /\ Close /\ idleTimerDisabled' = FALSE
  /\ state' = IF wantsConnection THEN "reconnecting" ELSE state
  /\ UNCHANGED <<wantsConnection, reconnectAttempt, reconnectDue, timeoutDue, pairVars,
                 links, graceful, dialing, toClient, toHost, hostVars>>

ReconnectWakes ==
  /\ reconnectSleeping /\ reconnectSleeping' = FALSE /\ reconnectDue' = TRUE
  /\ UNCHANGED <<uiVars, timeoutSleeping, timeoutDue, pairVars, linkVars, netVars,
                 hostVars>>

\* The delay is over: open(), which has a look at what is wanted now.
ReconnectFires ==
  /\ reconnectDue /\ reconnectDue' = FALSE
  /\ IF wantsConnection /\ foreground
     THEN Open(reconnectAttempt, FALSE)
     ELSE UNCHANGED <<state, wantsConnection, idleTimerDisabled, timer,
                      reconnectAttempt, timeoutSleeping, configured, trusted,
                      link, links, session, certificate, dialing, dead>>
  /\ UNCHANGED <<foreground, reconnectSleeping, timeoutDue, pairingNew, nonce,
                 pairKey, saved, graceful, toClient, toHost, hostVars>>

TimeoutWakes ==
  /\ timeoutSleeping /\ timeoutSleeping' = FALSE /\ timeoutDue' = TRUE
  /\ UNCHANGED <<uiVars, reconnectSleeping, reconnectDue, pairVars, linkVars, netVars,
                 hostVars>>

\* Mutant: the user may take any time to type the code.
TimeoutFiresLater ==
  /\ timeoutDue /\ timeoutDue' = FALSE
  /\ IF state \notin {"streaming", "pairing"} THEN Failed("other")
     ELSE /\ timeoutSleeping' = (state = "pairing")
          /\ UNCHANGED <<uiVars, reconnectSleeping, link, session, certificate, dead>>
  /\ UNCHANGED <<reconnectDue, pairVars, links, graceful, dialing, toClient, toHost,
                 hostVars>>

\* 100 s have passed since open(): without video the attempt has failed.
TimeoutFires ==
  /\ timeoutDue /\ timeoutDue' = FALSE
  /\ IF state # "streaming" THEN Failed("other")
     ELSE UNCHANGED <<uiVars, reconnectSleeping, timeoutSleeping, link, session,
                      certificate, dead>>
  /\ UNCHANGED <<reconnectDue, pairVars, links, graceful, dialing, toClient, toHost,
                 hostVars>>

\* 200 ms after closeGracefully(), without a word to SessionModel.
GracefulClose(c) ==
  /\ c \in graceful /\ graceful' = graceful \ {c}
  /\ IF link = c THEN Close ELSE UNCHANGED <<link, session, certificate, dead>>
  /\ UNCHANGED <<uiVars, taskVars, pairVars, links, dialing, toClient, toHost, hostVars>>

\* tick(), input() or requestKeyframe() cannot send: the streams are gone, or 128
\* sends are outstanding.
SendFails ==
  /\ state = "streaming" /\ Failed("other")
  /\ UNCHANGED <<reconnectDue, timeoutDue, pairVars, links, graceful, dialing, toClient,
                 toHost, hostVars>>
-----------------------------------------------------------------------------
(* SessionModel: what arrives on the control stream.  ProtocolVersion and  *)
(* HostInfo come with the first Pairing, EncoderCapabilities with          *)
(* SessionStart; a host that is not reinstalled keeps its host ID.         *)

\* The connection is up: an unknown certificate of a known host ends it,
\* otherwise onReady sends the Handshake.
Ready(m) ==
  IF trusted # Nobody /\ trusted.identity # m.identity
  THEN Failed("trust") /\ UNCHANGED <<pairVars, toHost>>
  ELSE /\ certificate' = m.identity
       /\ Send([kind |-> "hello", trusted |-> trusted # Nobody])
       /\ UNCHANGED <<uiVars, reconnectSleeping, timeoutSleeping, pairVars, link, session,
                      dead>>

\* Phase 0: the user has to type a code.
AskForCode ==
  /\ pairingNew' = TRUE /\ nonce' = link /\ state' = "pairing"
  /\ UNCHANGED <<wantsConnection, foreground, idleTimerDisabled, timer, reconnectAttempt,
                 reconnectSleeping, timeoutSleeping, configured, pairKey, trusted, saved,
                 link, session, certificate, dead, toHost>>

\* Phase 1: the host knows the iPad, which proves it with the secret it has saved.
\* Mutant: a pairing that was begun on an earlier link is still on.
ProveSecretStillNew ==
  IF trusted = Nobody THEN Failed("trust") /\ UNCHANGED <<pairVars, toHost>>
  ELSE /\ nonce' = link /\ pairKey' = Secret(trusted.secret)
       /\ Send([kind |-> "proof", key |-> Secret(trusted.secret), nonce |-> link])
       /\ UNCHANGED <<uiVars, reconnectSleeping, timeoutSleeping, configured, pairingNew,
                      trusted, saved, link, session, certificate, dead>>

ProveSecret ==
  IF trusted = Nobody THEN Failed("trust") /\ UNCHANGED <<pairVars, toHost>>
  ELSE /\ pairingNew' = FALSE /\ nonce' = link /\ pairKey' = Secret(trusted.secret)
       /\ Send([kind |-> "proof", key |-> Secret(trusted.secret), nonce |-> link])
       /\ UNCHANGED <<uiVars, reconnectSleeping, timeoutSleeping, configured, trusted,
                      saved, link, session, certificate, dead>>

\* Phase 3: the host proves itself with the same key; a new secret is saved before
\* the iPad goes on.  The keychain may refuse.
Refuted(m) == m.nonce # nonce \/ m.key # pairKey \/ (pairingNew /\ m.secret = 0)

Paired(m) == [secret |-> m.secret, identity |-> certificate]

Confirm(m) ==
  LET host == IF pairingNew THEN Paired(m) ELSE trusted IN
  \/ /\ ~Refuted(m)
     /\ trusted' = host /\ saved' = (IF pairingNew THEN host ELSE saved)
     /\ pairKey' = NoKey /\ configured' = TRUE /\ state' = "connecting"
     /\ Send([kind |-> "capabilities"])
     /\ UNCHANGED <<wantsConnection, foreground, idleTimerDisabled, timer,
                    reconnectAttempt, reconnectSleeping, timeoutSleeping, pairingNew,
                    nonce, link, session, certificate, dead>>
  \/ /\ Refuted(m) \/ pairingNew
     /\ Failed("trust") /\ UNCHANGED <<pairVars, toHost>>

\* SessionStart brings the token of the session.
Start(m) ==
  IF ~configured THEN Failed("other") /\ UNCHANGED <<pairVars, toHost>>
  ELSE /\ session' = m.session
       /\ UNCHANGED <<uiVars, reconnectSleeping, timeoutSleeping, pairVars, link,
                      certificate, dead, toHost>>

\* VideoConfig: there is video from here on, and the timeout is over.
VideoConfig ==
  IF ~configured THEN Failed("other") /\ UNCHANGED <<pairVars, toHost>>
  ELSE /\ state' = "streaming" /\ reconnectAttempt' = 0 /\ timeoutSleeping' = FALSE
       /\ idleTimerDisabled' = TRUE /\ timer' = TRUE
       /\ UNCHANGED <<wantsConnection, foreground, reconnectSleeping, pairVars, link,
                      session, certificate, dead, toHost>>

\* packet(): a packet of another session than the transport's is an error, unless
\* it is the SessionStart that brings the token.
Replayed(m) == m.kind \in {"code", "secret", "confirm", "config"} /\ m.session # session

Packet(m) ==
  CASE m.kind = "failed" \/ Replayed(m) -> Failed("other") /\ UNCHANGED <<pairVars, toHost>>
    [] m.kind = "ready"   -> Ready(m)
    [] m.kind = "code" /\ ~Replayed(m)    -> AskForCode
    [] m.kind = "secret" /\ ~Replayed(m)  -> ProveSecret
    [] m.kind = "confirm" /\ ~Replayed(m) -> Confirm(m)
    [] m.kind = "start"   -> Start(m)
    [] m.kind = "config" /\ ~Replayed(m)  -> VideoConfig

\* Every callback first compares its epoch with the transport's.
\* Mutant: callbacks of cancelled links are taken for the current one's.
AnyEpoch(c) == TRUE
Current(c)  == link = c

Receive(c) ==
  /\ toClient[c] # <<>>
  /\ toClient' = [toClient EXCEPT ![c] = Tail(@)]
  /\ IF Current(c) THEN Packet(Head(toClient[c]))
     ELSE UNCHANGED <<uiVars, reconnectSleeping, timeoutSleeping, pairVars, link, session,
                      certificate, dead, toHost>>
  /\ UNCHANGED <<reconnectDue, timeoutDue, links, graceful, dialing, hostVars>>
-----------------------------------------------------------------------------
(* The network.                                                            *)

\* Cut(c, n): of what was on its way to the iPad only n packets arrive.
Cut(c, n) ==
  [toClient EXCEPT ![c] = Append(SubSeq(@, 1, n), [kind |-> "failed"])]

Broken(c) == toClient[c] # <<>> /\ toClient[c][Len(toClient[c])].kind = "failed"

\* The idle timeout ends a link without answers, or the connection breaks.
LinkFails ==
  /\ link # 0 /\ ~Broken(link)
  /\ \E n \in 0..Len(toClient[link]) : toClient' = Cut(link, n)
  /\ dead' = dead \cup {link} /\ dialing' = dialing \ {link}
  /\ UNCHANGED <<clientVars, toHost, hostVars>>
-----------------------------------------------------------------------------
(* The host: authenticate() and the outline of session().                  *)

\* Packets to a broken link are lost.
Say(m) ==
  IF Live(serving)
  THEN /\ Len(toClient[serving]) < MaxWire
       /\ toClient' = [toClient EXCEPT ![serving] = Append(@, m)]
  ELSE UNCHANGED toClient

Accept(c) ==
  /\ serving = 0 /\ c \in dialing
  /\ dialing' = dialing \ {c}
  /\ serving' = c /\ stage' = "hello" /\ toHost' = <<>>
  /\ toClient' = IF Live(c)
                 THEN [toClient EXCEPT ![c] = Append(@, [kind |-> "ready", identity |-> identity])]
                 ELSE toClient
  /\ UNCHANGED <<clientVars, dead, isNew, hostKey, idVars, proved>>

\* A session refuses other connections.
Refuse(c) ==
  /\ stage = "session" /\ c \in dialing
  /\ dialing' = dialing \ {c} /\ dead' = dead \cup {c}
  /\ toClient' = IF Live(c) THEN Cut(c, 0) ELSE toClient
  /\ UNCHANGED <<clientVars, toHost, hostVars>>

Hears(kind) == toHost # <<>> /\ Head(toHost).kind = kind
Heard       == toHost' = Tail(toHost)

\* The Handshake: a device the host knows has to prove its secret, another the code
\* that appears on the screen.
Greet ==
  /\ stage = "hello" /\ Hears("hello") /\ Heard /\ stage' = "proof"
  /\ LET known == Head(toHost).trusted /\ devices # 0 IN
       /\ isNew' = ~known
       /\ hostKey' = IF known THEN Secret(devices) ELSE Code(serving)
       /\ Say([kind |-> IF known THEN "secret" ELSE "code", session |-> 0])
  /\ UNCHANGED <<clientVars, dialing, dead, serving, idVars, proved>>

\* authenticate() or session() has returned, its variables are gone.
Idle == serving' = 0 /\ stage' = "idle" /\ isNew' = FALSE /\ hostKey' = NoKey

\* Mutant: the secret is kept in memory and saved at some later time.
TrustUnsaved ==
  /\ devices' = serving /\ stage' = "verified"
  /\ UNCHANGED <<disk, persisted, serving, isNew, hostKey, dead, toClient>>

\* Identity::trust saves the new secret, or fails to.
Trust ==
  /\ devices' = serving
  /\ \/ /\ disk' = serving /\ persisted' = persisted \cup {serving}
        /\ stage' = "verified" /\ UNCHANGED <<serving, isNew, hostKey, dead, toClient>>
     \/ /\ UNCHANGED <<disk, persisted>>
        /\ Idle /\ dead' = dead \cup {serving}
        /\ toClient' = IF Live(serving) THEN Cut(serving, 0) ELSE toClient

\* The iPad's proof is right.
Proves == Head(toHost).key = hostKey /\ Head(toHost).nonce = serving

Verify ==
  /\ stage = "proof" /\ Hears("proof") /\ Proves /\ Heard
  /\ proved' = proved \cup {serving}
  /\ IF isNew THEN Trust
     ELSE /\ stage' = "verified"
          /\ UNCHANGED <<serving, isNew, hostKey, dead, toClient, devices, disk, persisted>>
  /\ UNCHANGED <<clientVars, dialing, identity>>

\* The host's proof, with the new secret for a new device.
Answer ==
  /\ stage = "verified" /\ stage' = "capabilities"
  /\ Say([kind |-> "confirm", session |-> 0, nonce |-> serving, key |-> hostKey,
          secret |-> IF isNew THEN serving ELSE 0])
  /\ UNCHANGED <<clientVars, dialing, dead, toHost, serving, isNew, hostKey, idVars, proved>>

\* session(): the capabilities, then the token of the session.
Begin ==
  /\ stage = "capabilities" /\ Hears("capabilities") /\ Heard /\ stage' = "session"
  /\ Say([kind |-> "start", session |-> serving])
  /\ UNCHANGED <<clientVars, dialing, dead, serving, isNew, hostKey, idVars, proved>>

\* A new encoder: Event::Ready becomes a VideoConfig.
Announce ==
  /\ stage = "session" /\ Live(serving)
  /\ Say([kind |-> "config", session |-> serving])
  /\ UNCHANGED <<clientVars, dialing, dead, toHost, hostVars>>

\* Everything else ends the connection: a packet that is not expected, a wrong
\* proof, SessionStop, a timeout, a broken link, the tray, the pipeline.
End ==
  /\ serving # 0 /\ Idle /\ toHost' = <<>>
  /\ dead' = dead \cup {serving}
  /\ IF Live(serving)
     THEN \E n \in 0..Len(toClient[serving]) : toClient' = Cut(serving, n)
     ELSE UNCHANGED toClient
  /\ UNCHANGED <<clientVars, dialing, idVars, proved>>

\* The host's process ends, by Exit or by a crash, and starts again; with
\* --forget-devices it forgets them, without its identity file it makes a new one.
Restart ==
  /\ Idle /\ toHost' = <<>> /\ dialing' = {}
  /\ dead' = dead \cup dialing \cup ({serving} \ {0})
  /\ \/ devices' = disk /\ UNCHANGED <<disk, identity>>
     \/ devices' = 0 /\ disk' = 0 /\ UNCHANGED identity
     \/ devices' = 0 /\ disk' = 0 /\ identity < MaxIdentity /\ identity' = identity + 1
  /\ UNCHANGED <<clientVars, toClient, persisted, proved>>
-----------------------------------------------------------------------------
User == \/ Connect \/ Disconnect \/ ForgetHost \/ SceneActive \/ SceneInactive
        \/ \E k \in {Code(link), Code(0)} : Pair(k)

Client == \/ ReconnectWakes \/ ReconnectFires \/ TimeoutWakes \/ TimeoutFires
          \/ SendFails \/ \E c \in Link : GracefulClose(c) \/ Receive(c)

Host == \/ \E c \in Link : Accept(c) \/ Refuse(c)
        \/ Greet \/ Verify \/ Answer \/ Begin \/ Announce \/ End \/ Restart

Next == User \/ Client \/ Host \/ LinkFails

Safety == Init /\ [][Next]_vars
Spec   == Safety /\ WF_vars(TimeoutWakes) /\ WF_vars(TimeoutFires)
-----------------------------------------------------------------------------
(* Properties.                                                             *)

\* Whoever wants a connection and looks at the iPad has one, or something is under
\* way that ends the wait: failures in any order, nested in each other or late,
\* never leave the session without a stream, a timeout or a retry.
NeverStranded ==
  wantsConnection /\ foreground =>
    \/ state = "streaming" /\ link # 0
    \/ timeoutSleeping \/ timeoutDue \/ reconnectSleeping \/ reconnectDue

\* The secret the iPad has saved had been on the host's disk before: no crash between
\* the steps of a pairing leaves an iPad that trusts a host which never knew it.
SavedIsPersisted == saved # Nobody => saved.secret \in persisted

\* Sessions begin only on a link on which the host has verified the iPad, whatever
\* was proved on earlier links and whatever of them still arrives.
ConfiguredIsProved == configured /\ link # 0 => link \in proved

\* What both sides trust was proved and is on the host's disk, whatever fails in
\* between.
TrustInv == TypeOK /\ SavedIsPersisted /\ ConfiguredIsProved

\* While a connection is wanted, a stream keeps the iPad awake and its timer running, and
\* nothing else keeps the iPad awake for longer than the timeout of an attempt: a late
\* retry opens a link over a stream without a failed() in between.
AwakeWhileStreaming ==
  wantsConnection =>
    /\ state = "streaming" => idleTimerDisabled /\ timer
    /\ idleTimerDisabled => /\ foreground
                            /\ state = "streaming" \/ timeoutSleeping \/ timeoutDue

\* A host that answers with the key the iPad has proved is believed, even if the
\* iPad was about to pair on an earlier link.
KnownHostConfirms ==
  [][\A c \in Link :
       (/\ link = c /\ toClient'[c] # toClient[c] /\ toClient[c] # <<>>
        /\ toClient'[c] = Tail(toClient[c]) /\ Head(toClient[c]).kind = "confirm"
        /\ Head(toClient[c]).key = pairKey /\ Head(toClient[c]).secret = 0)
       => configured']_vars

\* An attempt to connect does not wait forever.
AttemptEnds == []<>(state \notin {"connecting", "pairing"} \/ ~wantsConnection)

\* "Each transport and browser has a generation counter that rejects callbacks from
\* canceled operations": after disconnect() the session stays over.
CancelledStaysOver == ~wantsConnection => state \in {"idle", "failed"}
=============================================================================
