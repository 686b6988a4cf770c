------------------------------ MODULE ClientProofs ------------------------------
(***************************************************************************)
(* What ClientSession promises for any number of connections, identities   *)
(* of the host and packets under way.                                      *)
(***************************************************************************)
EXTENDS ClientSession, SequenceTheorems, TLAPS

\* Packets to the iPad and to the host.
Failing  == [kind |-> "failed"]
ToClient ==
  {Failing}
    \cup [kind : {"ready"}, identity : 1..MaxIdentity]
    \cup [kind : {"code", "secret"}, session : {0}]
    \cup [kind : {"confirm"}, session : {0}, nonce : Link, key : Key, secret : 0..MaxLinks]
    \cup [kind : {"start", "config"}, session : Link]

ToHost ==
  [kind : {"hello"}, trusted : BOOLEAN]
    \cup [kind : {"proof"}, key : Key, nonce : 0..MaxLinks]
    \cup [kind : {"capabilities", "stop"}]

In(q) == {q[i] : i \in 1..Len(q)}

\* The place of a packet in the conversation of its link; the host has said
\* everything up to the place that its stage has reached.
Rank(m) ==
  CASE m.kind = "ready"              -> 0
    [] m.kind \in {"code", "secret"} -> 1
    [] m.kind = "confirm"            -> 2
    [] m.kind = "start"              -> 3
    [] m.kind = "config"             -> 4
    [] m.kind = "failed"             -> 5

Reached ==
  CASE stage \in {"idle", "hello"}     -> 0
    [] stage \in {"proof", "verified"} -> 1
    [] stage = "capabilities"          -> 2
    [] stage = "session"               -> 4

Verified == stage \in {"verified", "capabilities", "session"}

\* m may come before n.
Before(m, n) == Rank(m) < Rank(n) \/ (m.kind = "config" /\ n.kind = "config")
Sorted(q) == \A i, j \in 1..Len(q) : i < j => Before(q[i], q[j])

\* The links as the network carries them.
Wires ==
  /\ toClient \in [Link -> Seq(ToClient)] /\ toHost \in Seq(ToHost)
  /\ \A c \in Link :
       /\ Sorted(toClient[c])
       /\ Failing \in In(toClient[c]) => c \in dead
       /\ \/ Len(toClient[c]) <= MaxWire
          \/ Failing \in In(toClient[c]) /\ Len(toClient[c]) <= MaxWire + 1
       /\ (c \in dialing \/ c > links) => toClient[c] = <<>>

\* Links are numbered as they are dialed.
Numbers ==
  /\ link <= links /\ nonce <= links /\ serving <= links
  /\ \A c \in dialing \cup graceful : c <= links
  /\ serving \notin dialing

\* The host says what its stage allows, and only what it has proved and saved.
Honest ==
  /\ serving = 0 <=> stage = "idle"
  /\ serving # 0 =>
       \A m \in In(toClient[serving]) :
         /\ m # Failing => Rank(m) <= Reached
         /\ m.kind = "code" => isNew
  /\ Verified => serving \in proved /\ (isNew => serving \in persisted)
  /\ \A c \in Link : \A m \in In(toClient[c]) :
       m.kind = "confirm" =>
         c \in proved /\ m.nonce = c /\ (m.secret # 0 => m.secret \in persisted)

\* The iPad has heard everything on its link up to place r.
Beyond(r) ==
  /\ link \notin dialing /\ (serving = link => r <= Reached)
  /\ \A m \in In(toClient[link]) : r < Rank(m) \/ m.kind = "config"

\* What the iPad has on its link follows from what it has heard there.
Heeds ==
  link # 0 =>
    /\ certificate = 0 =>
         \/ toClient[link] = <<>> /\ link \in dialing \cup dead
         \/ toClient[link] # <<>> /\ Head(toClient[link]).kind \in {"ready", "failed"}
    /\ (state = "streaming" \/ session # 0) => Beyond(3)
    /\ nonce = link => Beyond(1)

\* A host that has verified a proof, and what it says then, met an iPad that knows the
\* nonce, and one that pairs only if the host does.
Agrees ==
  link # 0 =>
    /\ serving = link =>
         /\ Verified => nonce = link
         /\ \A m \in In(toHost) : (m.kind = "proof" /\ m.nonce = link) => nonce = link
         /\ nonce = link /\ ~isNew => ~pairingNew
    /\ \A m \in In(toClient[link]) :
         m.kind = "confirm" => nonce = link /\ (m.secret = 0 => ~pairingNew)

\* The screen, the tasks and the link belong together.
Together ==
  /\ ~foreground => link = 0 /\ (wantsConnection => state = "reconnecting")
  /\ wantsConnection /\ state = "streaming" => link # 0
  /\ link \in graceful => ~wantsConnection
  /\ NeverStranded /\ AwakeWhileStreaming

Trusts == SavedIsPersisted /\ ConfiguredIsProved

\* The types of all but the channels.
PlainTypes ==
  /\ state \in State /\ reconnectAttempt \in 0..1
  /\ nonce \in 0..MaxLinks /\ pairKey \in Key
  /\ trusted \in Trusted /\ saved \in Trusted
  /\ link \in 0..MaxLinks /\ links \in 0..MaxLinks /\ session \in 0..MaxLinks
  /\ certificate \in 0..MaxIdentity
  /\ graceful \subseteq Link /\ dialing \subseteq Link /\ dead \subseteq Link
  /\ serving \in 0..MaxLinks /\ stage \in Stage
  /\ hostKey \in Key /\ identity \in 1..MaxIdentity
  /\ devices \in 0..MaxLinks /\ disk \in 0..MaxLinks
  /\ persisted \subseteq Link /\ proved \subseteq Link

Flags ==
  /\ wantsConnection \in BOOLEAN /\ foreground \in BOOLEAN
  /\ idleTimerDisabled \in BOOLEAN /\ timer \in BOOLEAN
  /\ reconnectSleeping \in BOOLEAN /\ reconnectDue \in BOOLEAN
  /\ timeoutSleeping \in BOOLEAN /\ timeoutDue \in BOOLEAN
  /\ configured \in BOOLEAN /\ pairingNew \in BOOLEAN /\ isNew \in BOOLEAN

CInv ==
  /\ PlainTypes /\ Flags /\ Len(toHost) <= MaxWire
  /\ Wires /\ Numbers /\ Honest /\ Heeds /\ Agrees /\ Together /\ Trusts
-----------------------------------------------------------------------------
(* Packets and channels.                                                   *)

LEMMA Kinds ==
  ASSUME NEW m \in ToClient
  PROVE  /\ m.kind \in {"failed", "ready", "code", "secret", "confirm", "start", "config"}
         /\ m.kind = "failed" <=> m = Failing
         /\ m.kind = "ready" => m.identity \in 1..MaxIdentity
         /\ m.kind = "confirm" =>
              m.nonce \in Link /\ m.key \in Key /\ m.secret \in 0..MaxLinks
         /\ m.kind \in {"start", "config"} => m.session \in Link
         /\ m.kind \in {"code", "secret", "confirm"} => m.session = 0
  BY DEF ToClient, Failing

LEMMA Ranks ==
  ASSUME NEW m \in ToClient
  PROVE  /\ Rank(m) \in 0..5
         /\ m.kind = "ready" => Rank(m) = 0
         /\ m.kind \in {"code", "secret"} => Rank(m) = 1
         /\ m.kind = "confirm" => Rank(m) = 2
         /\ m.kind = "start" => Rank(m) = 3
         /\ m.kind = "config" => Rank(m) = 4
         /\ m = Failing => Rank(m) = 5
  BY Kinds DEF Rank

\* The first packet of a channel and the rest of it.
LEMMA TailIn ==
  ASSUME NEW q \in Seq(ToClient), q # <<>>
  PROVE  /\ Head(q) \in In(q) /\ Head(q) \in ToClient
         /\ Tail(q) \in Seq(ToClient) /\ Len(Tail(q)) = Len(q) - 1 /\ Len(q) \in Nat \ {0}
         /\ In(Tail(q)) \subseteq In(q)
         /\ Sorted(q) => Sorted(Tail(q)) /\ \A m \in In(Tail(q)) : Before(Head(q), m)
  <1>1. Len(q) \in Nat \ {0} /\ Head(q) = q[1] /\ q[1] \in ToClient
    BY EmptySeq
  <1>2. /\ Tail(q) \in Seq(ToClient) /\ Len(Tail(q)) = Len(q) - 1
        /\ \A i \in 1..Len(Tail(q)) : Tail(q)[i] = q[i + 1] /\ i + 1 \in 1..Len(q)
    BY <1>1
  <1>3. In(Tail(q)) \subseteq In(q) /\ Head(q) \in In(q)
    BY <1>1, <1>2 DEF In
  <1>4. ASSUME Sorted(q) PROVE Sorted(Tail(q)) /\ \A m \in In(Tail(q)) : Before(Head(q), m)
    <2>1. Sorted(Tail(q))
      BY <1>1, <1>2, <1>4 DEF Sorted
    <2>2. \A i \in 1..Len(Tail(q)) : Before(Head(q), Tail(q)[i])
      BY <1>1, <1>2, <1>4 DEF Sorted
    <2> QED BY <2>1, <2>2 DEF In
  <1> QED BY <1>1, <1>2, <1>3, <1>4

LEMMA AppendIn ==
  ASSUME NEW q \in Seq(ToClient), NEW m \in ToClient
  PROVE  /\ Append(q, m) \in Seq(ToClient) /\ Len(Append(q, m)) = Len(q) + 1
         /\ Len(q) \in Nat
         /\ Append(q, m) # <<>> /\ In(Append(q, m)) = In(q) \cup {m}
         /\ Head(Append(q, m)) = IF q = <<>> THEN m ELSE Head(q)
         /\ Append(q, m)[Len(q) + 1] = m
         /\ Sorted(q) /\ (\A e \in In(q) : Before(e, m)) => Sorted(Append(q, m))
  <1>1. /\ Append(q, m) \in Seq(ToClient) /\ Len(Append(q, m)) = Len(q) + 1
        /\ Len(q) \in Nat /\ Append(q, m)[Len(q) + 1] = m
        /\ \A i \in 1..Len(q) : Append(q, m)[i] = q[i]
    BY AppendProperties
  <1>2. 1..Len(q) + 1 = (1..Len(q)) \cup {Len(q) + 1}
    BY <1>1
  <1>3. In(Append(q, m)) = In(q) \cup {m}
    <2>1. ASSUME NEW e \in In(Append(q, m)) PROVE e \in In(q) \cup {m}
      BY <1>1, <1>2 DEF In
    <2>2. ASSUME NEW e \in In(q) \cup {m} PROVE e \in In(Append(q, m))
      <3>1. CASE e = m BY <1>1, <1>2, <3>1 DEF In
      <3>2. CASE e \in In(q)
        <4>1. PICK i \in 1..Len(q) : e = q[i]
          BY <3>2 DEF In
        <4> QED BY <4>1, <1>1, <1>2 DEF In
      <3> QED BY <2>2, <3>1, <3>2
    <2> QED BY <2>1, <2>2
  <1>4. Append(q, m) # <<>> /\ Head(Append(q, m)) = IF q = <<>> THEN m ELSE Head(q)
    BY AppendProperties, HeadTailAppend
  <1>5. ASSUME Sorted(q), \A e \in In(q) : Before(e, m) PROVE Sorted(Append(q, m))
    <2>1. \A i \in 1..Len(q) : Before(q[i], m)
      BY <1>5 DEF In
    <2>2. ASSUME NEW i \in 1..Len(q) + 1, NEW j \in 1..Len(q) + 1, i < j
          PROVE  Before(Append(q, m)[i], Append(q, m)[j])
      <3>1. i \in 1..Len(q) BY <2>2, <1>1
      <3>2. CASE j \in 1..Len(q) BY <1>1, <1>5, <2>2, <3>1, <3>2 DEF Sorted
      <3>3. CASE j = Len(q) + 1 BY <1>1, <2>1, <3>1, <3>3
      <3> QED BY <1>2, <2>2, <3>2, <3>3
    <2> QED BY <1>1, <2>2 DEF Sorted
  <1> QED BY <1>1, <1>3, <1>4, <1>5

LEMMA PrefixIn ==
  ASSUME NEW q \in Seq(ToClient), NEW n \in 0..Len(q)
  PROVE  /\ SubSeq(q, 1, n) \in Seq(ToClient) /\ Len(SubSeq(q, 1, n)) = n
         /\ In(SubSeq(q, 1, n)) \subseteq In(q)
         /\ SubSeq(q, 1, n) # <<>> => q # <<>> /\ Head(SubSeq(q, 1, n)) = Head(q)
         /\ Sorted(q) => Sorted(SubSeq(q, 1, n))
  <1>1. /\ SubSeq(q, 1, n) \in Seq(ToClient) /\ Len(SubSeq(q, 1, n)) = n /\ n \in Nat
        /\ Len(q) \in Nat /\ n <= Len(q)
        /\ \A i \in 1..n : SubSeq(q, 1, n)[i] = q[i] /\ i \in 1..Len(q)
    BY SMT
  <1>2. In(SubSeq(q, 1, n)) \subseteq In(q)
    BY <1>1 DEF In
  <1>3. ASSUME SubSeq(q, 1, n) # <<>> PROVE q # <<>> /\ Head(SubSeq(q, 1, n)) = Head(q)
    <2>1. n # 0 BY <1>1, <1>3, EmptySeq
    <2>2. 1 \in 1..n /\ q # <<>> BY <1>1, <2>1, EmptySeq
    <2> QED BY <1>1, <1>3, <2>2
  <1>4. ASSUME Sorted(q) PROVE Sorted(SubSeq(q, 1, n))
    BY <1>1, <1>4 DEF Sorted
  <1> QED BY <1>1, <1>2, <1>3, <1>4

\* In a sorted channel nothing follows the end.
LEMMA FailingIsLast ==
  ASSUME NEW q \in Seq(ToClient), Sorted(q), Failing \in In(q)
  PROVE  q # <<>> /\ q[Len(q)] = Failing
  <1>1. PICK i \in 1..Len(q) : q[i] = Failing
    BY DEF In
  <1>2. Len(q) \in Nat /\ Len(q) \in 1..Len(q) /\ q # <<>>
    BY <1>1
  <1>3. q[i] \in ToClient /\ q[Len(q)] \in ToClient
    BY <1>2, ElementOfSeq
  <1>4. CASE i < Len(q)
    <2>1. Before(q[i], q[Len(q)])
      BY <1>2, <1>4 DEF Sorted
    <2>2. Rank(q[i]) = 5 /\ Rank(q[Len(q)]) \in 0..5 /\ q[i].kind = "failed"
      BY <1>1, <1>3, Ranks, Kinds
    <2> QED BY <2>1, <2>2 DEF Before
  <1>5. CASE i = Len(q)
    BY <1>1, <1>2, <1>5
  <1> QED BY <1>2, <1>4, <1>5
-----------------------------------------------------------------------------
(* What a step does to the channels to the iPad.                           *)

\* Channel c, if any, has m after what was in it, or, when m ends it, after a part;
\* nothing is added to a channel that has ended.
Adds(c, m) ==
  \A d \in Link :
    /\ \A e \in In(toClient'[d]) : e \in In(toClient[d]) \/ (d = c /\ e = m)
    /\ toClient[d] # <<>> => toClient'[d] # <<>>
    /\ toClient'[d] # toClient[d] => Failing \notin In(toClient[d])
    /\ toClient'[d] # <<>> =>
         \/ toClient[d] # <<>> /\ Head(toClient'[d]) = Head(toClient[d])
         \/ d = c /\ (toClient[d] = <<>> \/ m = Failing) /\ Head(toClient'[d]) = m

\* The links and what is on its way to the host, in a step of the network or the host.
Onwards ==
  dead \subseteq dead' /\ dialing' \subseteq dialing /\ links' = links /\ toHost' \in Seq(ToHost)

\* A channel may be replaced by one that is in order as well.
LEMMA KeptWires ==
  ASSUME Wires, Onwards, NEW c \in Link, NEW q \in Seq(ToClient),
         toClient' = [toClient EXCEPT ![c] = q],
         Sorted(q), Failing \in In(q) => c \in dead',
         \/ Len(q) <= MaxWire
         \/ Failing \in In(q) /\ Len(q) <= MaxWire + 1,
         (c \in dialing' \/ c > links) => q = <<>>
  PROVE  Wires'
  <1>1. toClient' \in [Link -> Seq(ToClient)] /\ toHost' \in Seq(ToHost)
    BY DEF Wires, Onwards
  <1>2. ASSUME NEW d \in Link
        PROVE  /\ Sorted(toClient'[d])
               /\ Failing \in In(toClient'[d]) => d \in dead'
               /\ \/ Len(toClient'[d]) <= MaxWire
                  \/ Failing \in In(toClient'[d]) /\ Len(toClient'[d]) <= MaxWire + 1
               /\ (d \in dialing' \/ d > links') => toClient'[d] = <<>>
    <2>1. CASE d = c
      <3>1. toClient'[d] = q BY <2>1 DEF Wires
      <3> QED BY <2>1, <3>1 DEF Onwards
    <2>2. CASE d # c
      <3>1. toClient'[d] = toClient[d] BY <2>2 DEF Wires
      <3> QED BY <3>1 DEF Wires, Onwards
    <2> QED BY <2>1, <2>2
  <1> QED BY <1>1, <1>2 DEF Wires

LEMMA SilentWires ==
  ASSUME Wires, Onwards, UNCHANGED toClient
  PROVE  Wires' /\ \A c \in Link, m \in ToClient : Adds(c, m)
  BY DEF Wires, Onwards, Adds

LEMMA SaidWires ==
  ASSUME Wires, Onwards, NEW c \in Link, NEW m \in ToClient, m # Failing,
         Len(toClient[c]) < MaxWire,
         toClient' = [toClient EXCEPT ![c] = Append(@, m)],
         \A e \in In(toClient[c]) : Before(e, m),
         c \notin dialing', c <= links, links \in Nat
  PROVE  Wires' /\ Adds(c, m) /\ toClient'[c] # <<>>
  <1> DEFINE q == Append(toClient[c], m)
  <1>1. toClient[c] \in Seq(ToClient) /\ toClient \in [Link -> Seq(ToClient)]
    BY DEF Wires
  <1>2. /\ q \in Seq(ToClient) /\ Len(q) = Len(toClient[c]) + 1 /\ Len(toClient[c]) \in Nat
        /\ q # <<>> /\ In(q) = In(toClient[c]) \cup {m}
        /\ Head(q) = IF toClient[c] = <<>> THEN m ELSE Head(toClient[c])
    BY <1>1, AppendIn
  <1>3. Sorted(q)
    BY <1>1, AppendIn DEF Wires
  <1>4. toClient' = [toClient EXCEPT ![c] = q]
    OBVIOUS
  <1>5. (Failing \in In(q) => c \in dead') /\ Len(q) <= MaxWire /\ ~(c > links)
    BY <1>2, ClientAssumption DEF Wires, Onwards, Link
  <1> HIDE DEF q
  <1>6. Wires'
    BY <1>2, <1>3, <1>4, <1>5, KeptWires
  <1>7. ASSUME NEW d \in Link PROVE d # c => toClient'[d] = toClient[d]
    BY <1>1, <1>4
  <1>8. toClient'[c] = q
    BY <1>1, <1>4
  <1>9. Failing \notin In(toClient[c])
    <2>1. Failing \in ToClient /\ Failing.kind = "failed" BY DEF ToClient, Failing
    <2>2. Rank(Failing) = 5 /\ Rank(m) \in 0..5 BY <2>1, Ranks
    <2> QED BY <2>1, <2>2 DEF Before
  <1> QED BY <1>2, <1>6, <1>7, <1>8, <1>9 DEF Adds

LEMMA CutWires ==
  ASSUME Wires, Onwards, NEW c \in Link, NEW n \in 0..Len(toClient[c]),
         Failing \notin In(toClient[c]), toClient' = Cut(c, n),
         c \in dead', c \notin dialing', c <= links, links \in Nat
  PROVE  Wires' /\ Adds(c, Failing) /\ toClient'[c] # <<>>
  <1> DEFINE s == SubSeq(toClient[c], 1, n)
             q == Append(s, Failing)
  <1>1. toClient[c] \in Seq(ToClient) /\ toClient \in [Link -> Seq(ToClient)]
    BY DEF Wires
  <1>2. Failing \in ToClient
    BY DEF ToClient
  <1>3. /\ s \in Seq(ToClient) /\ Len(s) = n /\ In(s) \subseteq In(toClient[c])
        /\ s # <<>> => toClient[c] # <<>> /\ Head(s) = Head(toClient[c])
        /\ Sorted(s)
    BY <1>1, PrefixIn DEF Wires
  <1> HIDE DEF s
  <1>4. /\ q \in Seq(ToClient) /\ Len(q) = n + 1
        /\ q # <<>> /\ In(q) = In(s) \cup {Failing}
        /\ Head(q) = IF s = <<>> THEN Failing ELSE Head(s)
    BY <1>2, <1>3, AppendIn
  <1>5. Sorted(q)
    <2>1. ASSUME NEW e \in In(s) PROVE Before(e, Failing)
      <3>1. e # Failing /\ e \in ToClient
        BY <1>3 DEF In
      <3>2. Rank(e) \in 0..4 /\ Rank(Failing) = 5
        BY <1>2, <3>1, Kinds, Ranks
      <3> QED BY <3>2 DEF Before
    <2> QED BY <1>2, <1>3, <2>1, AppendIn
  <1>6. toClient' = [toClient EXCEPT ![c] = q]
    BY DEF Cut, Failing, s
  <1> HIDE DEF q
  <1>7. Len(q) <= MaxWire + 1 /\ Failing \in In(q) /\ ~(c > links)
    BY <1>1, <1>4, ClientAssumption, LenProperties DEF Wires, Link
  <1>8. Wires'
    BY <1>4, <1>5, <1>6, <1>7, KeptWires
  <1>9. ASSUME NEW d \in Link PROVE d # c => toClient'[d] = toClient[d]
    BY <1>1, <1>6
  <1>10. toClient'[c] = q
    BY <1>1, <1>6
  <1> QED BY <1>3, <1>4, <1>8, <1>9, <1>10 DEF Adds
-----------------------------------------------------------------------------
(* Steps of the host and of the network.                                   *)

\* What may be added to channel c: its end, the first packet of a link, or what the
\* conversation of the link comes to next.
Fits(c, m) ==
  \/ m = Failing
  \/ c \in dialing /\ m.kind = "ready"
  \/ /\ c = serving /\ c \notin dead
     /\ Reached < Rank(m) \/ (m.kind = "config" /\ Reached = 4)
     /\ m.kind = "confirm" => Verified /\ (m.secret = 0 => ~isNew)

\* It is true.
Truthful(c, m) ==
  /\ c = serving' /\ m # Failing => Rank(m) <= Reached' /\ (m.kind = "code" => isNew')
  /\ m.kind = "confirm" =>
       c \in proved /\ m.nonce = c /\ (m.secret # 0 => m.secret \in persisted)

\* At most one packet is added, and whoever leaves the queue is accepted or refused.
Added ==
  \E c \in Link, m \in ToClient :
    /\ Adds(c, m) /\ Fits(c, m) /\ Truthful(c, m)
    /\ \A d \in dialing :
         \/ d \in dialing' \cup dead'
         \/ d = c /\ m.kind = "ready" /\ toClient'[d] # <<>>

\* The host goes on with a link, takes the next one, or has none.
Serves ==
  /\ UNCHANGED clientVars /\ Onwards /\ Added
  /\ \/ serving' = 0
     \/ serving' \in dialing \ dialing' /\ ~Verified' /\ toHost' = <<>>
     \/ /\ serving' = serving /\ Reached <= Reached' /\ In(toHost') \subseteq In(toHost)
        /\ Verified' /\ serving = link => nonce = link
        /\ isNew' = isNew \/ Reached = 0
  /\ stage' \in Stage /\ (serving' = 0 <=> stage' = "idle")
  /\ Verified' => serving' \in proved' /\ (isNew' => serving' \in persisted')
  /\ persisted \subseteq persisted' /\ proved \subseteq proved'

LEMMA ServesHeeds ==
  ASSUME CInv, Serves
  PROVE  Heeds'
  <1>1. PICK c \in Link, m \in ToClient :
          /\ Adds(c, m) /\ Fits(c, m)
          /\ \A d \in dialing :
               \/ d \in dialing' \cup dead'
               \/ d = c /\ m.kind = "ready" /\ toClient'[d] # <<>>
    BY DEF Serves, Added
  <1>2. /\ link' = link /\ certificate' = certificate /\ state' = state
        /\ session' = session /\ nonce' = nonce
        /\ dead \subseteq dead' /\ dialing' \subseteq dialing
    BY DEF Serves, Onwards, clientVars, uiVars, linkVars, pairVars
  <1>3. SUFFICES ASSUME link # 0
                 PROVE  /\ certificate = 0 =>
                             \/ toClient'[link] = <<>> /\ link \in dialing' \cup dead'
                             \/ /\ toClient'[link] # <<>>
                                /\ Head(toClient'[link]).kind \in {"ready", "failed"}
                        /\ (state = "streaming" \/ session # 0) => Beyond(3)'
                        /\ nonce = link => Beyond(1)'
    BY <1>2 DEF Heeds
  <1>4. link \in Link /\ Reached \in 0..4 /\ Reached' \in 0..4 /\ Rank(m) \in 0..5
    <2>1. link \in Link /\ Reached \in 0..4 /\ Reached' \in 0..4
      BY <1>3, ClientAssumption DEF CInv, PlainTypes, Serves, Stage, Reached, Link
    <2> QED BY <2>1, Ranks
  <1>5. /\ \A e \in In(toClient'[link]) : e \in In(toClient[link]) \/ (link = c /\ e = m)
        /\ toClient[link] # <<>> => toClient'[link] # <<>>
        /\ toClient'[link] # <<>> =>
             \/ toClient[link] # <<>> /\ Head(toClient'[link]) = Head(toClient[link])
             \/ /\ link = c /\ (toClient[link] = <<>> \/ m = Failing)
                /\ Head(toClient'[link]) = m
    BY <1>1, <1>4 DEF Adds
  <1>6. ASSUME certificate = 0
        PROVE  \/ toClient'[link] = <<>> /\ link \in dialing' \cup dead'
               \/ /\ toClient'[link] # <<>>
                  /\ Head(toClient'[link]).kind \in {"ready", "failed"}
    <2>1. CASE toClient[link] # <<>>
      <3>1. Head(toClient[link]).kind \in {"ready", "failed"}
        BY <1>3, <1>6, <2>1 DEF CInv, Heeds
      <3> QED BY <1>5, <2>1, <3>1, Kinds
    <2>2. CASE toClient[link] = <<>>
      <3>1. link \in dialing \cup dead
        BY <1>3, <1>6, <2>2 DEF CInv, Heeds
      <3>2. CASE toClient'[link] = <<>>
        BY <1>1, <1>2, <3>1, <3>2
      <3>3. CASE toClient'[link] # <<>>
        <4>1. link = c /\ Head(toClient'[link]) = m
          BY <1>5, <2>2, <3>3
        <4>2. ~(c = serving /\ c \notin dead)
          BY <3>1, <4>1 DEF CInv, Numbers
        <4> QED BY <1>1, <3>3, <4>1, <4>2, Kinds DEF Fits
      <3> QED BY <3>2, <3>3
    <2> QED BY <2>1, <2>2
  <1>7. ASSUME NEW r \in {1, 3}, Beyond(r)
        PROVE  /\ link \notin dialing' /\ (serving' = link => r <= Reached')
               /\ \A e \in In(toClient'[link]) : r < Rank(e) \/ e.kind = "config"
    <2>1. /\ link \notin dialing /\ (serving = link => r <= Reached)
          /\ \A e \in In(toClient[link]) : r < Rank(e) \/ e.kind = "config"
      BY <1>7 DEF Beyond
    <2>2. serving' = link => r <= Reached'
      BY <1>3, <1>4, <2>1 DEF Serves
    <2>3. ASSUME link = c PROVE r < Rank(m) \/ m.kind = "config"
      <3>1. \/ m = Failing
            \/ c = serving /\ (Reached < Rank(m) \/ m.kind = "config")
        BY <1>1, <2>1, <2>3 DEF Fits
      <3>2. CASE m = Failing BY <3>2, Ranks, <1>4
      <3>3. CASE c = serving /\ (Reached < Rank(m) \/ m.kind = "config")
        BY <1>4, <2>1, <2>3, <3>3
      <3> QED BY <3>1, <3>2, <3>3
    <2> QED BY <1>2, <1>5, <2>1, <2>2, <2>3
  <1>8. ASSUME NEW r \in {1, 3}, Beyond(r) PROVE Beyond(r)'
    BY <1>2, <1>7, <1>8 DEF Beyond
  <1> QED BY <1>3, <1>6, <1>8 DEF CInv, Heeds

LEMMA ServesAgrees ==
  ASSUME CInv, Serves
  PROVE  Agrees'
  <1>1. PICK c \in Link, m \in ToClient : Adds(c, m) /\ Fits(c, m)
    BY DEF Serves, Added
  <1>2. link' = link /\ nonce' = nonce /\ pairingNew' = pairingNew
    BY DEF Serves, clientVars, linkVars, pairVars
  <1>3. SUFFICES ASSUME link # 0
                 PROVE  /\ serving' = link =>
                             /\ Verified' => nonce = link
                             /\ \A e \in In(toHost') :
                                  (e.kind = "proof" /\ e.nonce = link) => nonce = link
                             /\ nonce = link /\ ~isNew' => ~pairingNew
                        /\ \A e \in In(toClient'[link]) :
                             e.kind = "confirm" =>
                               nonce = link /\ (e.secret = 0 => ~pairingNew)
    BY <1>2 DEF Agrees
  <1>4. link \in Link
    BY <1>3 DEF CInv, PlainTypes, Link
  <1>5. nonce = link => link \notin dialing /\ (serving = link => 1 <= Reached)
    BY <1>3 DEF CInv, Heeds, Beyond
  <1>6. ASSUME serving' = link
        PROVE  /\ Verified' => nonce = link
               /\ \A e \in In(toHost') :
                    (e.kind = "proof" /\ e.nonce = link) => nonce = link
               /\ nonce = link /\ ~isNew' => ~pairingNew
    <2>1. CASE serving' \in dialing /\ ~Verified' /\ toHost' = <<>>
      BY <1>5, <1>6, <2>1 DEF In
    <2>2. CASE /\ serving' = serving /\ In(toHost') \subseteq In(toHost)
               /\ Verified' /\ serving = link => nonce = link
               /\ isNew' = isNew \/ Reached = 0
      BY <1>3, <1>5, <1>6, <2>2 DEF CInv, Agrees
    <2> QED BY <1>3, <1>6, <2>1, <2>2 DEF Serves
  <1>7. ASSUME NEW e \in In(toClient'[link]), e.kind = "confirm"
        PROVE  nonce = link /\ (e.secret = 0 => ~pairingNew)
    <2>1. CASE e \in In(toClient[link])
      BY <1>3, <1>7, <2>1 DEF CInv, Agrees
    <2>2. CASE link = c /\ e = m
      <3>1. c = serving /\ Verified /\ (m.secret = 0 => ~isNew)
        BY <1>1, <1>7, <2>2, Kinds DEF Fits
      <3> QED BY <1>3, <2>2, <3>1 DEF CInv, Agrees
    <2> QED BY <1>1, <1>4, <2>1, <2>2 DEF Adds
  <1> QED BY <1>3, <1>6, <1>7

LEMMA ServesRest ==
  ASSUME CInv, Serves
  PROVE  Numbers' /\ Together' /\ Trusts'
  <1>1. UNCHANGED <<uiVars, taskVars, linkVars, pairVars>>
    BY DEF Serves, clientVars
  <1>2. Numbers'
    <2>1. /\ link' = link /\ links' = links /\ nonce' = nonce /\ graceful' = graceful
          /\ dialing' \subseteq dialing
      BY <1>1 DEF Serves, Onwards, linkVars, pairVars
    <2>2. serving' \in {0, serving} \cup (dialing \ dialing') /\ links \in Nat
      BY DEF Serves, CInv, PlainTypes
    <2>3. serving' <= links /\ serving' \notin dialing'
      BY <2>1, <2>2, ClientAssumption DEF CInv, Numbers, PlainTypes, Link
    <2> QED BY <2>1, <2>3 DEF CInv, Numbers
  <1>3. Together'
    BY <1>1 DEF CInv, Together, NeverStranded, AwakeWhileStreaming, uiVars, taskVars,
                linkVars
  <1>4. Trusts'
    BY <1>1 DEF Serves, CInv, Trusts, SavedIsPersisted, ConfiguredIsProved, linkVars,
                pairVars
  <1> QED BY <1>2, <1>3, <1>4

LEMMA ServesHonest ==
  ASSUME CInv, Serves
  PROVE  Honest'
  <1>1. PICK c \in Link, m \in ToClient : Adds(c, m) /\ Fits(c, m) /\ Truthful(c, m)
    BY DEF Serves, Added
  <1>2. /\ Reached \in 0..4 /\ Reached' \in 0..4 /\ Rank(m) \in 0..5
        /\ serving' # 0 => serving' \in Link
    <2>1. serving' # 0 => serving' \in Link
      <3>1. serving' \in {0, serving} \cup dialing BY DEF Serves
      <3>2. serving \in 0..MaxLinks /\ dialing \subseteq Link BY DEF CInv, PlainTypes
      <3> QED BY <3>1, <3>2, ClientAssumption DEF Link
    <2>2. stage \in Stage /\ stage' \in Stage
      BY DEF Serves, CInv, PlainTypes
    <2> QED BY <2>1, <2>2, Ranks DEF Stage, Reached
  <1>3. ASSUME NEW e \in In(toClient'[serving']), serving' # 0
        PROVE  /\ e # Failing => Rank(e) <= Reached'
               /\ e.kind = "code" => isNew'
    <2>1. CASE serving' = c /\ e = m
      BY <1>1, <2>1, Kinds DEF Truthful, Failing
    <2>2. CASE e \in In(toClient[serving'])
      <3>1. /\ e \in ToClient /\ toClient[serving'] # <<>>
        BY <1>2, <1>3, <2>2 DEF In, CInv, Wires
      <3>2. serving' = serving /\ Reached <= Reached' /\ (isNew' = isNew \/ Reached = 0)
        BY <1>2, <1>3, <3>1 DEF Serves, CInv, Wires
      <3>3. Rank(e) \in 0..5 /\ (e.kind = "code" => Rank(e) = 1 /\ e # Failing)
        BY <3>1, Ranks, Kinds
      <3>4. /\ e # Failing => Rank(e) <= Reached
            /\ e.kind = "code" => isNew
        BY <1>3, <2>2, <3>2 DEF CInv, Honest
      <3> QED BY <1>2, <3>2, <3>3, <3>4
    <2> QED BY <1>1, <1>2, <1>3, <2>1, <2>2 DEF Adds
  <1>4. ASSUME NEW d \in Link, NEW e \in In(toClient'[d]), e.kind = "confirm"
        PROVE  d \in proved' /\ e.nonce = d /\ (e.secret # 0 => e.secret \in persisted')
    <2>1. d \in proved /\ e.nonce = d /\ (e.secret # 0 => e.secret \in persisted)
      <3>1. CASE d = c /\ e = m BY <1>1, <1>4, <3>1 DEF Truthful
      <3>2. CASE e \in In(toClient[d]) BY <1>4, <3>2 DEF CInv, Honest
      <3> QED BY <1>1, <3>1, <3>2 DEF Adds
    <2> QED BY <2>1 DEF Serves
  <1>5. /\ serving' = 0 <=> stage' = "idle"
        /\ Verified' => serving' \in proved' /\ (isNew' => serving' \in persisted')
    BY DEF Serves
  <1> QED BY <1>3, <1>4, <1>5 DEF Honest

\* The host takes what is next on its link.
LEMMA HeardIt ==
  ASSUME CInv, toHost # <<>>, Heard
  PROVE  /\ toHost' \in Seq(ToHost) /\ Len(toHost') <= MaxWire
         /\ In(toHost') \subseteq In(toHost)
         /\ Head(toHost) \in ToHost /\ Head(toHost) \in In(toHost)
  <1>1. toHost \in Seq(ToHost) /\ Len(toHost) <= MaxWire
    BY DEF CInv, Wires
  <1>2. /\ Len(toHost) \in Nat \ {0} /\ Head(toHost) = toHost[1]
    BY <1>1, EmptySeq
  <1>3. /\ Head(toHost) \in ToHost /\ Tail(toHost) \in Seq(ToHost)
        /\ Len(Tail(toHost)) = Len(toHost) - 1
        /\ \A i \in 1..Len(Tail(toHost)) : Tail(toHost)[i] = toHost[i + 1]
    BY <1>1, HeadTailProperties
  <1>4. Len(Tail(toHost)) <= MaxWire
    BY <1>1, <1>2, <1>3, ClientAssumption
  <1>5. In(Tail(toHost)) \subseteq In(toHost)
    BY <1>2, <1>3 DEF In
  <1> QED BY <1>2, <1>3, <1>4, <1>5 DEF Heard, In

\* What the host says either arrives or is lost with the link.
LEMMA Says ==
  ASSUME CInv, Onwards, serving # 0, NEW m \in ToClient, m # Failing, Say(m),
         Reached < Rank(m) \/ (m.kind = "config" /\ Reached = 4),
         m.kind = "confirm" => Verified /\ (m.secret = 0 => ~isNew),
         Truthful(serving, m)
  PROVE  /\ Wires'
         /\ \E e \in {m, Failing} :
              Adds(serving, e) /\ Fits(serving, e) /\ Truthful(serving, e)
  <1>1. serving \in Link /\ links \in Nat /\ serving <= links /\ serving \notin dialing'
    BY DEF CInv, PlainTypes, Numbers, Onwards, Link
  <1>2. CASE UNCHANGED toClient
    <2>1. Failing \in ToClient /\ Failing.kind = "failed"
      BY DEF ToClient, Failing
    <2>2. Truthful(serving, Failing)
      BY <2>1 DEF Truthful
    <2>3. Wires' /\ Adds(serving, Failing)
      BY <1>1, <1>2, <2>1, SilentWires DEF CInv
    <2> QED BY <2>2, <2>3 DEF Fits
  <1>3. CASE /\ serving \notin dead /\ Len(toClient[serving]) < MaxWire
             /\ toClient' = [toClient EXCEPT ![serving] = Append(@, m)]
    <2>1. ASSUME NEW e \in In(toClient[serving]) PROVE Before(e, m)
      <3>1. e \in ToClient /\ e # Failing /\ Rank(e) <= Reached
        BY <1>1, <1>3 DEF CInv, Wires, Honest, In
      <3>2. Rank(e) \in 0..5 /\ Rank(m) \in 0..5 /\ Reached \in 0..4
        <4>1. stage \in Stage BY DEF CInv, PlainTypes
        <4> QED BY <3>1, <4>1, Ranks DEF Stage, Reached
      <3>3. CASE Reached < Rank(m)
        BY <3>1, <3>2, <3>3 DEF Before
      <3>4. CASE m.kind = "config" /\ Reached = 4
        <4>1. Rank(m) = 4 BY <3>4, Ranks
        <4>2. Rank(e) = 4 => e.kind = "config"
          BY <3>1, Ranks, Kinds
        <4> QED BY <3>1, <3>2, <3>4, <4>1, <4>2 DEF Before
      <3> QED BY <3>3, <3>4
    <2>2. Wires' /\ Adds(serving, m)
      BY <1>1, <1>3, <2>1, SaidWires DEF CInv
    <2>3. Fits(serving, m)
      BY <1>3 DEF Fits
    <2> QED BY <2>2, <2>3
  <1> QED BY <1>2, <1>3 DEF Say, Live

\* The types of what the host and the network keep.
HostTypes ==
  /\ dialing \subseteq Link /\ dead \subseteq Link
  /\ serving \in 0..MaxLinks /\ stage \in Stage /\ isNew \in BOOLEAN
  /\ hostKey \in Key /\ identity \in 1..MaxIdentity
  /\ devices \in 0..MaxLinks /\ disk \in 0..MaxLinks
  /\ persisted \subseteq Link /\ proved \subseteq Link

LEMMA HostKeepsTypes ==
  ASSUME CInv, Host \/ LinkFails
  PROVE  HostTypes'
  <1> USE ClientAssumption
  <1>1. HostTypes
    BY DEF CInv, PlainTypes, Flags, HostTypes
  <1>2. ASSUME Idle
        PROVE  /\ serving' \in 0..MaxLinks /\ stage' \in Stage /\ hostKey' \in Key
               /\ isNew' \in BOOLEAN
    <2>1. isNew' \in BOOLEAN BY <1>2 DEF Idle
    <2> QED BY <1>2, <2>1 DEF Idle, Stage, Key
  <1>3. ASSUME NEW c \in Link, Accept(c) PROVE HostTypes'
    BY <1>1, <1>3 DEF Accept, Stage, HostTypes, idVars, Link
  <1>4. ASSUME NEW c \in Link, Refuse(c) PROVE HostTypes'
    BY <1>1, <1>4 DEF Refuse, HostTypes, hostVars, authVars, idVars
  <1>5. ASSUME Greet PROVE HostTypes'
    <2>1. hostKey' \in Key
      BY <1>1, <1>5 DEF Greet, HostTypes, Key, Code, Secret
    <2>2. isNew' \in BOOLEAN /\ stage' \in Stage
      BY <1>5 DEF Greet, Stage
    <2>3. dead' = dead /\ dialing' = dialing /\ UNCHANGED <<serving, idVars, proved>>
      BY <1>5 DEF Greet
    <2> QED BY <1>1, <2>1, <2>2, <2>3 DEF HostTypes, idVars
  <1>6. ASSUME Verify PROVE HostTypes'
    <2>1. serving \in Link
      BY <1>1, <1>6 DEF Verify, CInv, Honest, HostTypes, Link
    <2>2. proved' \subseteq Link /\ dialing' = dialing /\ identity' = identity
      BY <1>1, <1>6, <2>1 DEF Verify, HostTypes
    <2>3. CASE isNew /\ Trust
      BY <1>1, <1>2, <2>1, <2>2, <2>3 DEF Trust, Idle, HostTypes, Stage, Link
    <2>4. CASE ~isNew
      BY <1>1, <1>6, <2>2, <2>4 DEF Verify, HostTypes, Stage
    <2> QED BY <1>6, <2>3, <2>4 DEF Verify
  <1>7. ASSUME Answer \/ Begin \/ Announce PROVE HostTypes'
    BY <1>1, <1>7 DEF Answer, Begin, Announce, HostTypes, Stage, hostVars, authVars, idVars
  <1>8. ASSUME End PROVE HostTypes'
    <2>1. Idle /\ dead' \subseteq Link
      BY <1>1, <1>8 DEF End, HostTypes, Link
    <2>2. UNCHANGED <<dialing, identity, devices, disk, persisted, proved>>
      BY <1>8 DEF End, idVars
    <2> QED BY <1>1, <1>2, <2>1, <2>2 DEF HostTypes
  <1>9. ASSUME Restart PROVE HostTypes'
    <2>1. Idle /\ dead' \subseteq Link /\ dialing' \subseteq Link
      BY <1>1, <1>9 DEF Restart, HostTypes, Link
    <2>2. /\ devices' \in 0..MaxLinks /\ disk' \in 0..MaxLinks
          /\ identity' \in 1..MaxIdentity
      BY <1>1, <1>9 DEF Restart, HostTypes
    <2>3. UNCHANGED <<persisted, proved>>
      BY <1>9 DEF Restart
    <2> QED BY <1>1, <1>2, <2>1, <2>2, <2>3 DEF HostTypes
  <1>10. ASSUME LinkFails PROVE HostTypes'
    BY <1>1, <1>10 DEF LinkFails, HostTypes, hostVars, authVars, idVars, CInv, PlainTypes,
                       Link
  <1> QED BY <1>3, <1>4, <1>5, <1>6, <1>7, <1>8, <1>9, <1>10 DEF Host

LEMMA HostTypesKept ==
  ASSUME CInv, Host \/ LinkFails
  PROVE  PlainTypes' /\ Flags'
  <1>1. UNCHANGED <<uiVars, taskVars, linkVars, pairVars>>
    BY DEF Host, LinkFails, Accept, Refuse, Greet, Verify, Answer, Begin, Announce, End,
           Restart, clientVars
  <1>2. HostTypes'
    BY HostKeepsTypes
  <1>3. Flags'
    BY <1>1, <1>2 DEF HostTypes, CInv, Flags, uiVars, taskVars, pairVars
  <1>4. PlainTypes'
    BY <1>1, <1>2 DEF HostTypes, CInv, PlainTypes, uiVars, taskVars, pairVars, linkVars
  <1> QED BY <1>3, <1>4

LEMMA AcceptServes ==
  ASSUME CInv, NEW c \in Link, Accept(c)
  PROVE  Serves /\ Wires' /\ Len(toHost') <= MaxWire
  <1> USE ClientAssumption
  <1>1. /\ serving = 0 /\ c \in dialing /\ dialing' = dialing \ {c} /\ dead' = dead
        /\ serving' = c /\ stage' = "hello" /\ toHost' = <<>>
        /\ UNCHANGED clientVars /\ persisted' = persisted /\ proved' = proved
    BY DEF Accept, idVars
  <1>2. toClient[c] = <<>> /\ Len(toClient[c]) = 0 /\ In(toClient[c]) = {} /\ c <= links
    BY <1>1 DEF CInv, Wires, Numbers, In
  <1>3. Onwards /\ links \in Nat
    BY <1>1 DEF Onwards, clientVars, linkVars, CInv, PlainTypes
  <1>4. Wires' /\ Added
    <2>1. CASE c \notin dead
      <3> DEFINE m == [kind |-> "ready", identity |-> identity]
      <3>1. m \in ToClient /\ m # Failing /\ m.kind = "ready" /\ Rank(m) = 0
        <4>1. m \in ToClient BY DEF ToClient, CInv, PlainTypes
        <4> QED BY <4>1, Kinds, Ranks
      <3>2. toClient' = [toClient EXCEPT ![c] = Append(@, m)]
        BY <1>1, <2>1 DEF Accept, Live, Link
      <3> HIDE DEF m
      <3>3. Wires' /\ Adds(c, m) /\ toClient'[c] # <<>>
        <4>1. /\ Len(toClient[c]) < MaxWire /\ c \notin dialing'
              /\ \A e \in In(toClient[c]) : Before(e, m)
          BY <1>1, <1>2
        <4> QED BY <1>2, <1>3, <3>1, <3>2, <4>1, SaidWires DEF CInv
      <3>4. Reached' = 0
        BY <1>1 DEF Reached
      <3> QED BY <1>1, <3>1, <3>3, <3>4 DEF Fits, Truthful, Added
    <2>2. CASE c \in dead
      <3>1. Failing \in ToClient /\ Failing.kind = "failed"
        BY DEF ToClient, Failing
      <3>2. UNCHANGED toClient
        BY <2>2 DEF Accept, Live
      <3>3. Wires' /\ Adds(c, Failing)
        BY <1>3, <3>1, <3>2, SilentWires DEF CInv
      <3> QED BY <1>1, <2>2, <3>1, <3>3 DEF Fits, Truthful, Added
    <2> QED BY <2>1, <2>2
  <1>5. /\ ~Verified' /\ stage' \in Stage /\ stage' # "idle" /\ serving' # 0
        /\ serving' \in dialing \ dialing'
    BY <1>1 DEF Verified, Stage, Link
  <1>6. Len(toHost') <= MaxWire
    BY <1>1
  <1> QED BY <1>1, <1>3, <1>4, <1>5, <1>6 DEF Serves

\* The host says something and goes on with its link.
LEMMA SaysServes ==
  ASSUME CInv, UNCHANGED clientVars, dialing' = dialing, dead' = dead, serving' = serving,
         toHost' \in Seq(ToHost), In(toHost') \subseteq In(toHost),
         UNCHANGED <<idVars, proved>>, stage \in Stage \ {"idle"},
         stage' \in Stage \ {"idle"}, Reached <= Reached',
         isNew' = isNew \/ Reached = 0, Verified' => Verified /\ isNew' = isNew,
         NEW m \in ToClient, m # Failing, Say(m),
         Reached < Rank(m) \/ (m.kind = "config" /\ Reached = 4),
         m.kind = "confirm" => Verified /\ (m.secret = 0 => ~isNew),
         Truthful(serving, m)
  PROVE  Serves /\ Wires'
  <1>1. Onwards
    BY DEF Onwards, clientVars, linkVars
  <1>2. serving # 0 /\ serving \in Link
    BY DEF CInv, Honest, PlainTypes, Link
  <1>3. /\ Wires'
        /\ \E e \in {m, Failing} :
              Adds(serving, e) /\ Fits(serving, e) /\ Truthful(serving, e)
    BY <1>1, <1>2, Says
  <1>4. Failing \in ToClient
    BY DEF ToClient
  <1>5. Verified' => /\ serving = link => nonce = link
                     /\ serving \in proved /\ (isNew' => serving \in persisted)
    BY <1>2 DEF CInv, Honest, Agrees
  <1>6. Added
    BY <1>2, <1>3, <1>4 DEF Added
  <1> QED BY <1>1, <1>2, <1>3, <1>5, <1>6 DEF Serves, idVars

LEMMA GreetServes ==
  ASSUME CInv, Greet
  PROVE  Serves /\ Wires' /\ Len(toHost') <= MaxWire
  <1> DEFINE known == Head(toHost).trusted /\ devices # 0
             m == [kind |-> IF known THEN "secret" ELSE "code", session |-> 0]
  <1>1. /\ stage = "hello" /\ stage' = "proof" /\ toHost # <<>> /\ Heard
        /\ UNCHANGED clientVars /\ dialing' = dialing /\ dead' = dead /\ serving' = serving
        /\ UNCHANGED <<idVars, proved>> /\ Say(m) /\ isNew' = ~known
    BY DEF Greet, Hears
  <1>2. /\ toHost' \in Seq(ToHost) /\ Len(toHost') <= MaxWire
        /\ In(toHost') \subseteq In(toHost)
    BY <1>1, HeardIt
  <1>3. m \in ToClient /\ m.kind \in {"code", "secret"} /\ (m.kind = "code" <=> ~known)
    BY DEF ToClient
  <1> HIDE DEF m
  <1>4. m # Failing /\ Rank(m) = 1
    BY <1>3, Kinds, Ranks
  <1>5. Reached = 0 /\ Reached' = 1 /\ ~Verified'
    BY <1>1 DEF Reached, Verified
  <1>6. Truthful(serving, m)
    <2>1. m.kind = "code" => isNew' BY <1>1, <1>3
    <2> QED BY <1>3, <1>4, <1>5, <2>1 DEF Truthful
  <1>7. stage \in Stage \ {"idle"} /\ stage' \in Stage \ {"idle"}
    BY <1>1 DEF Stage
  <1> QED BY <1>1, <1>2, <1>3, <1>4, <1>5, <1>6, <1>7, SaysServes

LEMMA AnswerServes ==
  ASSUME CInv, Answer
  PROVE  Serves /\ Wires' /\ Len(toHost') <= MaxWire
  <1> DEFINE m == [kind |-> "confirm", session |-> 0, nonce |-> serving, key |-> hostKey,
                   secret |-> IF isNew THEN serving ELSE 0]
  <1>1. /\ stage = "verified" /\ stage' = "capabilities" /\ Say(m) /\ isNew' = isNew
        /\ UNCHANGED clientVars /\ dialing' = dialing /\ dead' = dead /\ serving' = serving
        /\ UNCHANGED <<idVars, proved>> /\ toHost' = toHost
    BY DEF Answer
  <1>2. /\ toHost' \in Seq(ToHost) /\ Len(toHost') <= MaxWire
        /\ In(toHost') \subseteq In(toHost)
    BY <1>1 DEF CInv, Wires
  <1>3. serving \in Link /\ serving # 0 /\ serving \in proved
        /\ (isNew => serving \in persisted)
    BY <1>1, ClientAssumption DEF CInv, Honest, PlainTypes, Verified, Link
  <1>4. /\ m.kind = "confirm" /\ m.nonce = serving
        /\ m.secret = IF isNew THEN serving ELSE 0
    OBVIOUS
  <1>5. m \in ToClient
    BY <1>3, ClientAssumption DEF ToClient, CInv, PlainTypes, Link
  <1> HIDE DEF m
  <1>6. m # Failing /\ Rank(m) = 2
    BY <1>4, <1>5, Kinds, Ranks
  <1>7. Reached = 1 /\ Reached' = 2 /\ Verified
    BY <1>1 DEF Reached, Verified
  <1>8. Truthful(serving, m)
    BY <1>3, <1>4, <1>6, <1>7 DEF Truthful
  <1>9. stage \in Stage \ {"idle"} /\ stage' \in Stage \ {"idle"}
    BY <1>1 DEF Stage
  <1>10. m.secret = 0 => ~isNew
    BY <1>3, <1>4
  <1> QED BY <1>1, <1>2, <1>4, <1>5, <1>6, <1>7, <1>8, <1>9, <1>10, SaysServes

LEMMA BeginServes ==
  ASSUME CInv, Begin
  PROVE  Serves /\ Wires' /\ Len(toHost') <= MaxWire
  <1> DEFINE m == [kind |-> "start", session |-> serving]
  <1>1. /\ stage = "capabilities" /\ stage' = "session" /\ Say(m) /\ isNew' = isNew
        /\ UNCHANGED clientVars /\ dialing' = dialing /\ dead' = dead /\ serving' = serving
        /\ UNCHANGED <<idVars, proved>> /\ toHost # <<>> /\ Heard
    BY DEF Begin, Hears
  <1>2. /\ toHost' \in Seq(ToHost) /\ Len(toHost') <= MaxWire
        /\ In(toHost') \subseteq In(toHost)
    BY <1>1, HeardIt
  <1>3. serving \in Link
    BY <1>1, ClientAssumption DEF CInv, Honest, PlainTypes, Link
  <1>4. m \in ToClient /\ m.kind = "start"
    BY <1>3 DEF ToClient
  <1> HIDE DEF m
  <1>5. m # Failing /\ Rank(m) = 3
    BY <1>4, Kinds, Ranks
  <1>6. Reached = 2 /\ Reached' = 4 /\ Verified
    BY <1>1 DEF Reached, Verified
  <1>7. Truthful(serving, m)
    BY <1>4, <1>5, <1>6 DEF Truthful
  <1>8. stage \in Stage \ {"idle"} /\ stage' \in Stage \ {"idle"}
    BY <1>1 DEF Stage
  <1> QED BY <1>1, <1>2, <1>4, <1>5, <1>6, <1>7, <1>8, SaysServes

LEMMA AnnounceServes ==
  ASSUME CInv, Announce
  PROVE  Serves /\ Wires' /\ Len(toHost') <= MaxWire
  <1> DEFINE m == [kind |-> "config", session |-> serving]
  <1>1. /\ stage = "session" /\ stage' = stage /\ Say(m) /\ isNew' = isNew
        /\ UNCHANGED clientVars /\ dialing' = dialing /\ dead' = dead /\ serving' = serving
        /\ UNCHANGED <<idVars, proved>> /\ toHost' = toHost
    BY DEF Announce, hostVars, authVars
  <1>2. /\ toHost' \in Seq(ToHost) /\ Len(toHost') <= MaxWire
        /\ In(toHost') \subseteq In(toHost)
    BY <1>1 DEF CInv, Wires
  <1>3. serving \in Link
    BY <1>1, ClientAssumption DEF CInv, Honest, PlainTypes, Link
  <1>4. m \in ToClient /\ m.kind = "config"
    BY <1>3 DEF ToClient
  <1> HIDE DEF m
  <1>5. m # Failing /\ Rank(m) = 4
    BY <1>4, Kinds, Ranks
  <1>6. Reached = 4 /\ Reached' = 4 /\ Verified
    BY <1>1 DEF Reached, Verified
  <1>7. Truthful(serving, m)
    BY <1>4, <1>5, <1>6 DEF Truthful
  <1>8. stage \in Stage \ {"idle"} /\ stage' \in Stage \ {"idle"}
    BY <1>1 DEF Stage
  <1> QED BY <1>1, <1>2, <1>4, <1>5, <1>6, <1>7, <1>8, SaysServes

\* The host says nothing.
LEMMA NothingAdded ==
  ASSUME CInv, Onwards, UNCHANGED toClient, dialing \subseteq dialing' \cup dead'
  PROVE  Wires' /\ Added
  <1>1. Failing \in ToClient /\ Failing.kind = "failed" /\ 1 \in Link
    BY ClientAssumption DEF ToClient, Failing, Link
  <1>2. Wires' /\ Adds(1, Failing)
    BY <1>1, SilentWires DEF CInv
  <1> QED BY <1>1, <1>2 DEF Added, Fits, Truthful

\* A link breaks that was alive, or had been told nothing.
LEMMA BrokenAdded ==
  ASSUME CInv, Onwards, dialing \subseteq dialing' \cup dead',
         NEW c \in Link, NEW n \in 0..Len(toClient[c]), toClient' = Cut(c, n),
         Failing \notin In(toClient[c]), c <= links, c \in dead', c \notin dialing'
  PROVE  Wires' /\ Added
  <1>1. Failing \in ToClient /\ Failing.kind = "failed" /\ links \in Nat
    BY DEF ToClient, Failing, CInv, PlainTypes
  <1>2. Wires' /\ Adds(c, Failing)
    BY <1>1, CutWires DEF CInv
  <1> QED BY <1>1, <1>2 DEF Added, Fits, Truthful

\* The host is done with its link.
LEMMA IdleServes ==
  ASSUME CInv, UNCHANGED clientVars, Idle, Onwards, dialing \subseteq dialing' \cup dead',
         \/ UNCHANGED toClient
         \/ /\ Live(serving) /\ serving \in dead'
            /\ \E n \in 0..Len(toClient[serving]) : toClient' = Cut(serving, n),
         persisted \subseteq persisted', proved \subseteq proved'
  PROVE  Serves /\ Wires'
  <1>1. Wires' /\ Added
    <2>1. CASE UNCHANGED toClient BY <2>1, NothingAdded
    <2>2. CASE /\ Live(serving) /\ serving \in dead'
               /\ \E n \in 0..Len(toClient[serving]) : toClient' = Cut(serving, n)
      <3>1. PICK n \in 0..Len(toClient[serving]) : toClient' = Cut(serving, n)
        BY <2>2
      <3>2. serving \in Link /\ serving <= links /\ serving \notin dialing'
        BY <2>2, ClientAssumption DEF Live, CInv, PlainTypes, Numbers, Onwards, Link
      <3>3. Failing \notin In(toClient[serving])
        BY <2>2, <3>2 DEF Live, CInv, Wires
      <3> QED BY <2>2, <3>1, <3>2, <3>3, BrokenAdded
    <2> QED BY <2>1, <2>2
  <1>2. serving' = 0 /\ stage' = "idle" /\ ~Verified' /\ stage' \in Stage
    BY DEF Idle, Verified, Stage
  <1> QED BY <1>1, <1>2 DEF Serves

LEMMA VerifyServes ==
  ASSUME CInv, Verify
  PROVE  Serves /\ Wires' /\ Len(toHost') <= MaxWire
  <1>1. /\ stage = "proof" /\ toHost # <<>> /\ Head(toHost).kind = "proof" /\ Heard
        /\ Head(toHost).nonce = serving /\ proved' = proved \cup {serving}
        /\ UNCHANGED clientVars /\ dialing' = dialing
    BY DEF Verify, Hears, Proves
  <1>2. /\ toHost' \in Seq(ToHost) /\ Len(toHost') <= MaxWire
        /\ In(toHost') \subseteq In(toHost) /\ Head(toHost) \in In(toHost)
    BY <1>1, HeardIt
  <1>3. serving # 0 /\ serving \in Link
    BY <1>1 DEF CInv, Honest, PlainTypes, Link
  <1>4. CASE /\ stage' = "verified" /\ persisted \subseteq persisted'
             /\ isNew => serving \in persisted'
             /\ UNCHANGED <<serving, isNew, dead, toClient>>
    <2>1. Onwards
      BY <1>1, <1>2, <1>4 DEF Onwards, clientVars, linkVars
    <2>2. Wires' /\ Added
      BY <1>1, <2>1, <1>4, NothingAdded
    <2>3. serving = link => nonce = link
      BY <1>1, <1>2, <1>3 DEF CInv, Agrees
    <2>4. Reached = 1 /\ Reached' = 1 /\ stage' \in Stage /\ stage' # "idle"
      BY <1>1, <1>4 DEF Reached, Stage
    <2> QED BY <1>1, <1>2, <1>3, <1>4, <2>1, <2>2, <2>3, <2>4 DEF Serves
  <1>5. CASE /\ Idle /\ dead' = dead \cup {serving} /\ persisted' = persisted
             /\ toClient' = IF Live(serving) THEN Cut(serving, 0) ELSE toClient
    <2>1. Onwards
      BY <1>1, <1>2, <1>5 DEF Onwards, clientVars, linkVars
    <2>2. 0 \in 0..Len(toClient[serving])
      BY <1>3, LenProperties DEF CInv, Wires
    <2>3. Serves /\ Wires'
      BY <1>1, <1>5, <2>1, <2>2, IdleServes
    <2> QED BY <1>2, <2>3
  <1> QED BY <1>4, <1>5 DEF Verify, Trust

LEMMA RefuseServes ==
  ASSUME CInv, NEW c \in Link, Refuse(c)
  PROVE  Serves /\ Wires' /\ Len(toHost') <= MaxWire
  <1>1. /\ stage = "session" /\ c \in dialing /\ dialing' = dialing \ {c}
        /\ dead' = dead \cup {c} /\ toHost' = toHost
        /\ UNCHANGED clientVars /\ UNCHANGED <<serving, stage, isNew, persisted, proved>>
    BY DEF Refuse, hostVars, authVars, idVars
  <1>2. Onwards /\ Len(toHost') <= MaxWire
    BY <1>1 DEF Onwards, clientVars, linkVars, CInv, Wires
  <1>3. Wires' /\ Added
    <2>1. CASE UNCHANGED toClient BY <1>1, <1>2, <2>1, NothingAdded
    <2>2. CASE toClient' = Cut(c, 0)
      <3>1. toClient[c] = <<>> /\ c <= links
        BY <1>1 DEF CInv, Wires, Numbers
      <3>2. In(toClient[c]) = {} /\ 0 \in 0..Len(toClient[c])
        BY <3>1 DEF In
      <3> QED BY <1>1, <1>2, <2>2, <3>1, <3>2, BrokenAdded
    <2> QED BY <2>1, <2>2 DEF Refuse
  <1>4. /\ Reached' = Reached /\ Reached = 4 /\ Verified /\ Verified'
    BY <1>1 DEF Reached, Verified
  <1>5. stage' \in Stage /\ stage' # "idle" /\ serving # 0 /\ serving \in Link
    BY <1>1 DEF Stage, CInv, Honest, PlainTypes, Link
  <1>6. /\ serving = link => nonce = link
        /\ serving \in proved /\ (isNew => serving \in persisted)
    BY <1>4, <1>5 DEF CInv, Honest, Agrees
  <1> QED BY <1>1, <1>2, <1>3, <1>4, <1>5, <1>6 DEF Serves

LEMMA LinkFailsServes ==
  ASSUME CInv, LinkFails
  PROVE  Serves /\ Wires' /\ Len(toHost') <= MaxWire
  <1>1. /\ link # 0 /\ ~Broken(link) /\ dialing' = dialing \ {link}
        /\ dead' = dead \cup {link} /\ toHost' = toHost
        /\ UNCHANGED clientVars /\ UNCHANGED <<serving, stage, isNew, persisted, proved>>
    BY DEF LinkFails, hostVars, authVars, idVars
  <1>2. Onwards /\ Len(toHost') <= MaxWire
    BY <1>1 DEF Onwards, clientVars, linkVars, CInv, Wires
  <1>3. link \in Link /\ link <= links
    BY <1>1 DEF CInv, PlainTypes, Numbers, Link
  <1>4. Failing \notin In(toClient[link])
    <2>1. toClient[link] \in Seq(ToClient) /\ Sorted(toClient[link])
      BY <1>3 DEF CInv, Wires
    <2> QED BY <1>1, <2>1, FailingIsLast DEF Broken, Failing
  <1>5. Wires' /\ Added
    <2>1. PICK n \in 0..Len(toClient[link]) : toClient' = Cut(link, n)
      BY DEF LinkFails
    <2> QED BY <1>1, <1>2, <1>3, <1>4, <2>1, BrokenAdded
  <1>6. Reached' = Reached /\ Reached \in 0..4 /\ (Verified' <=> Verified) /\ stage' \in Stage
    BY <1>1 DEF Reached, Verified, CInv, PlainTypes, Stage
  <1>7. /\ serving' = 0 <=> stage' = "idle"
        /\ Verified => /\ serving = link => nonce = link
                       /\ serving \in proved /\ (isNew => serving \in persisted)
    BY <1>1 DEF CInv, Honest, Agrees
  <1> QED BY <1>1, <1>2, <1>5, <1>6, <1>7 DEF Serves

LEMMA EndServes ==
  ASSUME CInv, End \/ Restart
  PROVE  Serves /\ Wires' /\ Len(toHost') <= MaxWire
  <1>1. /\ Idle /\ toHost' = <<>> /\ UNCHANGED clientVars
        /\ persisted' = persisted /\ proved' = proved
    BY DEF End, Restart, idVars
  <1>2. toHost' \in Seq(ToHost) /\ Len(toHost') <= MaxWire
    BY <1>1, ClientAssumption
  <1>3. CASE End
    <2>1. Onwards /\ dialing' = dialing /\ serving \in dead'
      BY <1>1, <1>2, <1>3 DEF Onwards, clientVars, linkVars, End
    <2>2. \/ UNCHANGED toClient
          \/ Live(serving) /\ \E n \in 0..Len(toClient[serving]) : toClient' = Cut(serving, n)
      BY <1>3 DEF End
    <2> QED BY <1>1, <1>2, <2>1, <2>2, IdleServes
  <1>4. CASE Restart
    <2>1. Onwards /\ dialing \subseteq dead' /\ UNCHANGED toClient
      BY <1>1, <1>2, <1>4 DEF Onwards, clientVars, linkVars, Restart
    <2> QED BY <1>1, <1>2, <2>1, IdleServes
  <1> QED BY <1>3, <1>4

LEMMA AllServe ==
  ASSUME CInv, Host \/ LinkFails
  PROVE  Serves /\ Wires' /\ Len(toHost') <= MaxWire
  BY AcceptServes, RefuseServes, GreetServes, VerifyServes, AnswerServes, BeginServes,
     AnnounceServes, EndServes, LinkFailsServes DEF Host

\* Whatever the host and the network do, what the iPad believes of them stays true.
LEMMA HostStep ==
  ASSUME CInv, Host \/ LinkFails
  PROVE  CInv'
  <1>1. Serves /\ Wires' /\ Len(toHost') <= MaxWire
    BY AllServe
  <1>2. PlainTypes' /\ Flags'
    BY HostTypesKept
  <1>3. Honest' /\ Heeds' /\ Agrees' /\ Numbers' /\ Together' /\ Trusts'
    BY <1>1, ServesHonest, ServesHeeds, ServesAgrees, ServesRest
  <1> QED BY <1>1, <1>2, <1>3 DEF CInv
-----------------------------------------------------------------------------
(* Steps of the iPad that take no packet.                                  *)

\* The link stays, is closed, or is followed by the next one; what the iPad sends
\* tells of the nonce it has, and it neither starts to stream nor to trust.
Acts ==
  /\ UNCHANGED <<toClient, hostVars, nonce, pairingNew>>
  /\ toHost' \in Seq(ToHost) /\ Len(toHost') <= MaxWire
  /\ \A m \in In(toHost') : m \in In(toHost) \/ (m.kind = "proof" => m.nonce = nonce)
  /\ \/ UNCHANGED <<link, links, session, certificate, dialing, dead>>
     \/ Close /\ UNCHANGED <<links, dialing>>
     \/ Dial
  /\ graceful' \subseteq graceful \cup ({link} \ {0})
  /\ state' = "streaming" /\ link' # 0 => state = "streaming" /\ link' = link
  /\ configured' /\ link' # 0 => configured /\ link' = link
  /\ saved' \in {saved, Nobody} /\ trusted' \in {trusted, saved, Nobody}
  /\ state' \in State /\ reconnectAttempt' \in 0..1 /\ pairKey' \in Key

LEMMA ActsTypes ==
  ASSUME CInv, Acts
  PROVE  PlainTypes'
  <1> USE ClientAssumption
  <1>1. /\ dead' \subseteq Link /\ link' \in 0..MaxLinks /\ links' \in 0..MaxLinks
        /\ session' \in 0..MaxLinks /\ certificate' \in 0..MaxIdentity
        /\ dialing' \subseteq Link
    <2>1. CASE UNCHANGED <<link, links, session, certificate, dialing, dead>>
      BY <2>1 DEF CInv, PlainTypes
    <2>2. CASE Close /\ UNCHANGED <<links, dialing>>
      BY <2>2 DEF CInv, PlainTypes, Close, Link
    <2>3. CASE Dial
      BY <2>3 DEF CInv, PlainTypes, Dial, Link
    <2> QED BY <2>1, <2>2, <2>3 DEF Acts
  <1>2. graceful' \subseteq Link /\ nonce' \in 0..MaxLinks
    BY DEF Acts, CInv, PlainTypes, Link
  <1>3. saved' \in Trusted /\ trusted' \in Trusted
    BY DEF Acts, CInv, PlainTypes, Trusted
  <1>4. UNCHANGED <<serving, stage, hostKey, identity, devices, disk, persisted, proved>>
    BY DEF Acts, hostVars, authVars, idVars
  <1>5. state' \in State /\ reconnectAttempt' \in 0..1 /\ pairKey' \in Key
    BY DEF Acts
  <1> QED BY <1>1, <1>2, <1>3, <1>4, <1>5 DEF CInv, PlainTypes

LEMMA ActsKeeps ==
  ASSUME CInv, Acts
  PROVE  Wires' /\ Numbers' /\ Honest' /\ Heeds' /\ Agrees' /\ Trusts'
  <1> USE ClientAssumption
  <1>1. /\ toClient' = toClient /\ nonce' = nonce /\ pairingNew' = pairingNew
        /\ UNCHANGED <<serving, stage, isNew, persisted, proved>>
        /\ link \in 0..links /\ links \in Nat /\ serving \in 0..links /\ nonce \in 0..links
        /\ toClient \in [Link -> Seq(ToClient)] /\ links' \in 0..MaxLinks
    BY ActsTypes DEF Acts, hostVars, authVars, idVars, CInv, PlainTypes, Numbers, Wires
  <1>2. \/ UNCHANGED <<link, links, session, certificate, dialing, dead>>
        \/ link' = 0 /\ dead \subseteq dead' /\ UNCHANGED <<links, dialing>>
        \/ /\ link' = links + 1 /\ links' = links + 1 /\ dead \subseteq dead'
           /\ dialing' = dialing \cup {links + 1} /\ session' = 0
    BY DEF Acts, Close, Dial
  <1>3. Wires'
    <2>1. toHost' \in Seq(ToHost) BY DEF Acts
    <2>2. ASSUME NEW c \in Link
          PROVE  /\ Sorted(toClient[c])
                 /\ Failing \in In(toClient[c]) => c \in dead
                 /\ \/ Len(toClient[c]) <= MaxWire
                    \/ Failing \in In(toClient[c]) /\ Len(toClient[c]) <= MaxWire + 1
                 /\ (c \in dialing \/ c > links) => toClient[c] = <<>>
      BY DEF CInv, Wires
    <2>3. dead \subseteq dead'
      BY <1>2
    <2>4. ASSUME NEW c \in Link, c \in dialing' \/ c > links' PROVE c \in dialing \/ c > links
      BY <1>1, <1>2, <2>4 DEF Link
    <2> QED BY <1>1, <2>1, <2>2, <2>3, <2>4 DEF Wires
  <1>4. Numbers'
    <2>1. /\ link' <= links' /\ links <= links' /\ links' \in Nat
          /\ \A c \in dialing' : c \in dialing \/ c = links'
          /\ serving \notin dialing'
      BY <1>1, <1>2 DEF CInv, Numbers
    <2>2. \A c \in dialing \cup graceful \cup ({link} \ {0}) : c \in Nat /\ c <= links
      BY <1>1 DEF CInv, Numbers, PlainTypes, Link
    <2>3. graceful' \subseteq graceful \cup ({link} \ {0})
      BY DEF Acts
    <2>4. \A c \in dialing' \cup graceful' : c <= links'
      BY <1>1, <2>1, <2>2, <2>3
    <2> QED BY <1>1, <2>1, <2>4 DEF Numbers
  <1>5. Honest'
    <2>1. (Reached' = Reached) /\ (Verified' <=> Verified)
      BY <1>1 DEF Reached, Verified
    <2> QED BY <1>1, <2>1 DEF CInv, Honest
  <1>6. CASE link' = 0
    BY <1>1, <1>3, <1>4, <1>5, <1>6 DEF Heeds, Agrees, Trusts, ConfiguredIsProved,
       SavedIsPersisted, Acts, CInv
  <1>7. CASE UNCHANGED <<link, links, session, certificate, dialing, dead>>
    <2>1. (Reached' = Reached) /\ (Verified' <=> Verified)
      BY <1>1 DEF Reached, Verified
    <2>2. (Beyond(1)' <=> Beyond(1)) /\ (Beyond(3)' <=> Beyond(3))
      BY <1>1, <1>7, <2>1 DEF Beyond
    <2>3. Heeds'
      BY <1>1, <1>7, <2>2 DEF CInv, Heeds, Acts
    <2>4. Agrees'
      BY <1>1, <1>7, <2>1 DEF CInv, Agrees, Acts
    <2>5. Trusts'
      BY <1>1, <1>7 DEF CInv, Trusts, SavedIsPersisted, ConfiguredIsProved, Acts
    <2> QED BY <1>3, <1>4, <1>5, <2>3, <2>4, <2>5
  <1>8. CASE link' = links + 1 /\ links' = links + 1 /\ links + 1 \in dialing' /\ session' = 0
    <2>1. toClient'[link'] = <<>> /\ link' \in Link /\ In(toClient'[link']) = {}
      <3>1. links + 1 \in Link /\ links + 1 > links
        BY <1>1, <1>8 DEF Link
      <3>2. toClient[links + 1] = <<>>
        BY <3>1 DEF CInv, Wires
      <3> QED BY <1>1, <1>8, <3>1, <3>2 DEF In
    <2>2. link' # link /\ nonce' # link' /\ serving' # link' /\ link' # 0
      BY <1>1, <1>8
    <2>3. Heeds'
      BY <1>1, <1>8, <2>1, <2>2 DEF Heeds, Acts
    <2>4. Agrees'
      BY <1>1, <2>1, <2>2 DEF Agrees
    <2>5. Trusts'
      BY <1>1, <2>2 DEF CInv, Trusts, SavedIsPersisted, ConfiguredIsProved, Acts
    <2> QED BY <1>3, <1>4, <1>5, <2>3, <2>4, <2>5
  <1> QED BY <1>2, <1>6, <1>7, <1>8

LEMMA SendIn ==
  ASSUME CInv, NEW m \in ToHost, Send(m)
  PROVE  /\ toHost' \in Seq(ToHost) /\ Len(toHost') <= MaxWire
         /\ \A e \in In(toHost') : e \in In(toHost) \/ e = m
  <1>1. toHost \in Seq(ToHost) /\ Len(toHost) <= MaxWire /\ Len(toHost) \in Nat
    BY DEF CInv, Wires
  <1>2. CASE UNCHANGED toHost
    BY <1>1, <1>2
  <1>3. CASE Len(toHost) < MaxWire /\ toHost' = Append(toHost, m)
    <2>1. /\ toHost' \in Seq(ToHost) /\ Len(toHost') = Len(toHost) + 1
          /\ \A i \in 1..Len(toHost) : toHost'[i] = toHost[i]
          /\ toHost'[Len(toHost) + 1] = m
      BY <1>1, <1>3, AppendProperties
    <2>2. Len(toHost') <= MaxWire
      BY <1>1, <1>3, <2>1, ClientAssumption
    <2>3. \A i \in 1..Len(toHost') : i \in 1..Len(toHost) \/ i = Len(toHost) + 1
      BY <1>1, <2>1
    <2>4. \A e \in In(toHost') : e \in In(toHost) \/ e = m
      BY <2>1, <2>3 DEF In
    <2> QED BY <2>1, <2>2, <2>4
  <1> QED BY <1>2, <1>3 DEF Send

LEMMA QuietHost ==
  ASSUME CInv, UNCHANGED toHost
  PROVE  /\ toHost' \in Seq(ToHost) /\ Len(toHost') <= MaxWire
         /\ \A e \in In(toHost') : e \in In(toHost)
  BY DEF CInv, Wires

\* Disconnect and ForgetHost.
LEMMA StoppedActs ==
  ASSUME CInv, Stopped, saved' \in {saved, Nobody}, trusted' \in {trusted, Nobody}
  PROVE  Acts /\ Flags' /\ Together'
  <1>1. /\ toHost' \in Seq(ToHost) /\ Len(toHost') <= MaxWire
        /\ \A m \in In(toHost') : m \in In(toHost) \/ (m.kind = "proof" => m.nonce = nonce)
    <2>1. CASE UNCHANGED toHost BY <2>1, QuietHost
    <2>2. CASE Send([kind |-> "stop"])
      <3>1. [kind |-> "stop"] \in ToHost BY DEF ToHost
      <3> QED BY <2>2, <3>1, SendIn
    <2> QED BY <2>1, <2>2 DEF Stopped
  <1>2. Acts
    BY <1>1 DEF Acts, Stopped, State, CInv, PlainTypes
  <1>3. Flags'
    BY DEF CInv, Flags, Stopped, hostVars, authVars
  <1>4. Together'
    BY DEF CInv, Together, NeverStranded, AwakeWhileStreaming, Stopped
  <1> QED BY <1>2, <1>3, <1>4

\* open(): the part of Acts that it decides.
LEMMA OpenActs ==
  ASSUME CInv, NEW attempt \in 0..1, NEW fresh \in BOOLEAN, Open(attempt, fresh)
  PROVE  /\ \/ Close /\ UNCHANGED <<links, dialing>>
            \/ Dial
         /\ state' \in {"connecting", "reconnecting", "failed"}
         /\ state' = "failed" => ~wantsConnection' /\ link' = 0
         /\ state' # "failed" => wantsConnection' /\ timeoutSleeping' /\ link' = links + 1
         /\ state' = "failed" \/ fresh => idleTimerDisabled' = FALSE
         /\ idleTimerDisabled' => idleTimerDisabled
         /\ trusted' \in {trusted, saved} /\ reconnectAttempt' = attempt
         /\ configured' \in {configured, FALSE}
         /\ configured' /\ link' # 0 => FALSE
         /\ wantsConnection' \in BOOLEAN /\ timer' \in BOOLEAN
         /\ idleTimerDisabled' \in BOOLEAN /\ timeoutSleeping' \in BOOLEAN
         /\ configured' \in BOOLEAN
  <1>1. idleTimerDisabled \in BOOLEAN /\ timer \in BOOLEAN /\ configured \in BOOLEAN
    BY DEF CInv, Flags
  <1>2. CASE /\ Dial /\ trusted' = saved /\ configured' = FALSE
             /\ state' = (IF attempt = 0 THEN "connecting" ELSE "reconnecting")
             /\ timeoutSleeping' = TRUE
             /\ wantsConnection' = TRUE /\ reconnectAttempt' = attempt
             /\ timer' = (timer /\ ~fresh)
             /\ idleTimerDisabled' = (idleTimerDisabled /\ ~fresh)
    <2>1. state' \in {"connecting", "reconnecting"} /\ state' # "failed"
      BY <1>2
    <2>2. link' = links + 1
      BY <1>2 DEF Dial
    <2> QED BY <1>1, <1>2, <2>1, <2>2, Zenon
  <1>3. CASE /\ Close /\ GiveUp
             /\ reconnectAttempt' = attempt
             /\ Asleep
             /\ UNCHANGED <<links, dialing, trusted, configured>>
    <2>1. link' = 0 /\ ~wantsConnection' /\ state' = "failed"
      BY <1>3 DEF Close, GiveUp
    <2>2. /\ wantsConnection' = FALSE /\ timer' = FALSE /\ idleTimerDisabled' = FALSE
          /\ timeoutSleeping' = FALSE
      BY <1>3 DEF GiveUp, Asleep
    <2> QED BY <1>1, <1>3, <2>1, <2>2, Zenon
  <1> QED BY <1>2, <1>3 DEF Open

\* failed() ends the link and arms a retry, if there is anything to retry for.
LEMMA FailedActs ==
  ASSUME CInv, NEW error, Failed(error), graceful' = graceful
  PROVE  /\ Close /\ link' = 0 /\ Together'
         /\ state' \in State \ {"streaming"} /\ reconnectAttempt' \in 0..1
         /\ wantsConnection' \in BOOLEAN /\ foreground' \in BOOLEAN
         /\ idleTimerDisabled' \in BOOLEAN /\ timer' \in BOOLEAN
         /\ reconnectSleeping' \in BOOLEAN /\ timeoutSleeping' \in BOOLEAN
  <1>1. Close /\ link' = 0 /\ foreground' = foreground
    BY DEF Failed, Close
  <1>2. /\ wantsConnection \in BOOLEAN /\ foreground \in BOOLEAN
        /\ idleTimerDisabled \in BOOLEAN /\ timer \in BOOLEAN
        /\ reconnectSleeping \in BOOLEAN /\ timeoutSleeping \in BOOLEAN
    BY DEF CInv, Flags
  <1>3. reconnectAttempt \in 0..1 /\ 0 \notin graceful
    BY DEF CInv, PlainTypes, Link
  <1>4. CASE ~wantsConnection
    <2>1. state' = "idle" /\ wantsConnection' = wantsConnection
          /\ UNCHANGED <<reconnectAttempt, reconnectSleeping, timer, timeoutSleeping,
                         idleTimerDisabled>>
      BY <1>4 DEF Failed
    <2>2. Together'
      BY <1>1, <1>4, <2>1 DEF Together, NeverStranded, AwakeWhileStreaming
    <2> QED BY <1>1, <1>2, <1>3, <2>1, <2>2 DEF State
  <1>5. CASE wantsConnection
    <2>1. Asleep /\ timer' = FALSE /\ timeoutSleeping' = FALSE /\ idleTimerDisabled' = FALSE
      BY <1>5 DEF Failed, Asleep
    <2>2. \/ Retry
          \/ GiveUp /\ UNCHANGED <<reconnectAttempt, reconnectSleeping>>
      BY <1>5 DEF Failed
    <2>3. /\ state' \in {"reconnecting", "failed"} /\ reconnectAttempt' \in 0..1
          /\ wantsConnection' => state' = "reconnecting" /\ reconnectSleeping'
      BY <1>3, <2>2 DEF Retry, GiveUp
    <2>4. wantsConnection' \in BOOLEAN /\ reconnectSleeping' \in BOOLEAN
      BY <1>2, <2>2 DEF Retry, GiveUp
    <2>5. Together'
      BY <1>1, <1>3, <2>1, <2>3 DEF Together, NeverStranded, AwakeWhileStreaming
    <2>6. state' \in State \ {"streaming"}
      BY <2>3 DEF State
    <2> QED BY <1>1, <1>2, <2>1, <2>3, <2>4, <2>5, <2>6
  <1> QED BY <1>4, <1>5

LEMMA ConnectActs ==
  ASSUME CInv, Connect
  PROVE  Acts /\ Flags' /\ Together'
  <1>1. Open(0, TRUE) /\ foreground /\ foreground' = foreground
    BY DEF Connect
  <1>2. /\ UNCHANGED <<toClient, toHost, hostVars, nonce, pairingNew, pairKey, saved>>
        /\ UNCHANGED <<reconnectDue, timeoutDue>> /\ reconnectSleeping' = FALSE
        /\ graceful' = graceful \cup ({link} \ {0})
    BY DEF Connect
  <1>3. /\ \/ Close /\ UNCHANGED <<links, dialing>>
           \/ Dial
        /\ state' \in {"connecting", "reconnecting", "failed"}
        /\ state' = "failed" => ~wantsConnection' /\ link' = 0
        /\ state' # "failed" => wantsConnection' /\ timeoutSleeping' /\ link' = links + 1
        /\ idleTimerDisabled' = FALSE
        /\ trusted' \in {trusted, saved} /\ reconnectAttempt' \in 0..1
        /\ configured' /\ link' # 0 => FALSE
    <2>1. 0 \in 0..1 /\ TRUE \in BOOLEAN OBVIOUS
    <2> QED BY <1>1, <2>1, OpenActs
  <1>4. /\ wantsConnection' \in BOOLEAN /\ timer' \in BOOLEAN
        /\ idleTimerDisabled' \in BOOLEAN /\ timeoutSleeping' \in BOOLEAN
        /\ configured' \in BOOLEAN
    <2>1. 0 \in 0..1 /\ TRUE \in BOOLEAN OBVIOUS
    <2> QED BY <1>1, <2>1, OpenActs
  <1>5. Flags'
    BY <1>1, <1>2, <1>4 DEF CInv, Flags, hostVars, authVars
  <1>6. Acts
    <2>1. state' \in State /\ state' # "streaming" /\ pairKey' \in Key
      BY <1>2, <1>3 DEF State, CInv, PlainTypes
    <2> QED BY <1>2, <1>3, <2>1, QuietHost DEF Acts
  <1>7. link' \notin graceful' \/ ~wantsConnection'
    <2>1. CASE link' = links + 1
      <3>1. \A c \in graceful \cup ({link} \ {0}) : c \in Nat /\ c <= links
        BY DEF CInv, Numbers, PlainTypes, Link
      <3>2. links \in Nat BY DEF CInv, PlainTypes
      <3> QED BY <1>2, <2>1, <3>1, <3>2
    <2> QED BY <1>3, <2>1
  <1>8. Together'
    BY <1>1, <1>3, <1>7 DEF Together, NeverStranded, AwakeWhileStreaming
  <1> QED BY <1>5, <1>6, <1>8

LEMMA PairActs ==
  ASSUME CInv, NEW k \in {Code(link), Code(0)}, Pair(k)
  PROVE  Acts /\ Flags' /\ Together'
  <1>1. /\ UNCHANGED <<uiVars, taskVars, configured, pairingNew, nonce, trusted, saved,
                       linkVars, dialing, dead, toClient, hostVars>>
        /\ pairKey' = k
    BY DEF Pair
  <1>2. k \in Key
    <2>1. link \in 0..MaxLinks /\ 0 \in 0..MaxLinks
      BY ClientAssumption DEF CInv, PlainTypes
    <2>2. PICK c \in 0..MaxLinks : k = <<"code", c>>
      BY <2>1 DEF Code
    <2> QED BY <2>2 DEF Key
  <1>3. /\ toHost' \in Seq(ToHost) /\ Len(toHost') <= MaxWire
        /\ \A m \in In(toHost') : m \in In(toHost) \/ (m.kind = "proof" => m.nonce = nonce)
    <2>1. CASE UNCHANGED toHost BY <2>1, QuietHost
    <2>2. CASE Send([kind |-> "proof", key |-> k, nonce |-> nonce])
      <3>1. [kind |-> "proof", key |-> k, nonce |-> nonce] \in ToHost
        BY <1>2 DEF ToHost, CInv, PlainTypes
      <3> QED BY <2>2, <3>1, SendIn
    <2> QED BY <2>1, <2>2 DEF Pair
  <1>4. Flags'
    BY <1>1 DEF CInv, Flags, uiVars, taskVars, hostVars, authVars
  <1>5. Acts
    <2>1. UNCHANGED <<link, links, session, certificate, dialing, dead, graceful, state,
                      reconnectAttempt>>
      BY <1>1 DEF linkVars, uiVars
    <2>2. state' \in State /\ reconnectAttempt' \in 0..1
      BY <2>1 DEF CInv, PlainTypes
    <2> QED BY <1>1, <1>2, <1>3, <2>1, <2>2 DEF Acts
  <1>6. Together'
    BY <1>1 DEF CInv, Together, NeverStranded, AwakeWhileStreaming, uiVars, taskVars,
                linkVars
  <1> QED BY <1>4, <1>5, <1>6

\* Nothing but the screen and the tasks change.
LEMMA QuietActs ==
  ASSUME CInv, UNCHANGED <<pairVars, netVars, hostVars, link, links, session, certificate>>,
         graceful' \subseteq graceful, state' = state, reconnectAttempt' = reconnectAttempt
  PROVE  Acts
  <1>1. /\ toHost' \in Seq(ToHost) /\ Len(toHost') <= MaxWire
        /\ \A e \in In(toHost') : e \in In(toHost)
    BY QuietHost DEF netVars
  <1>2. state' \in State /\ reconnectAttempt' \in 0..1 /\ pairKey' \in Key
    BY DEF CInv, PlainTypes, pairVars
  <1> QED BY <1>1, <1>2 DEF Acts, pairVars, netVars

LEMMA WakesActs ==
  ASSUME CInv, ReconnectWakes \/ TimeoutWakes
  PROVE  Acts /\ Flags' /\ Together'
  <1>1. UNCHANGED <<uiVars, pairVars, linkVars, netVars, hostVars>>
    BY DEF ReconnectWakes, TimeoutWakes
  <1>2. Acts
    BY <1>1, QuietActs DEF linkVars, uiVars
  <1>3. Flags'
    BY <1>1 DEF CInv, Flags, uiVars, pairVars, hostVars, authVars, ReconnectWakes,
                TimeoutWakes
  <1>4. Together'
    BY <1>1 DEF CInv, Together, NeverStranded, AwakeWhileStreaming, uiVars, linkVars,
                ReconnectWakes, TimeoutWakes
  <1> QED BY <1>2, <1>3, <1>4

\* sceneActive(true) and the end of a delay: open(), or nothing.
LEMMA ReopenActs ==
  ASSUME CInv, foreground' = TRUE, reconnectSleeping' = reconnectSleeping,
         reconnectDue' \in BOOLEAN, timeoutDue' = timeoutDue,
         UNCHANGED <<pairingNew, nonce, pairKey, saved, graceful, toClient, toHost,
                     hostVars>>,
         NEW attempt \in 0..1, Open(attempt, FALSE),
         idleTimerDisabled => foreground \/ ~wantsConnection, wantsConnection
  PROVE  Acts /\ Flags' /\ Together'
  <1>1. /\ \/ Close /\ UNCHANGED <<links, dialing>>
           \/ Dial
        /\ state' \in {"connecting", "reconnecting", "failed"}
        /\ state' = "failed" => ~wantsConnection' /\ link' = 0
        /\ state' # "failed" => wantsConnection' /\ timeoutSleeping' /\ link' = links + 1
        /\ trusted' \in {trusted, saved} /\ reconnectAttempt' \in 0..1
        /\ configured' /\ link' # 0 => FALSE
    <2>1. FALSE \in BOOLEAN OBVIOUS
    <2> QED BY <2>1, OpenActs
  <1>2. /\ wantsConnection' \in BOOLEAN /\ timer' \in BOOLEAN
        /\ idleTimerDisabled' \in BOOLEAN /\ timeoutSleeping' \in BOOLEAN
        /\ configured' \in BOOLEAN
    <2>1. FALSE \in BOOLEAN OBVIOUS
    <2> QED BY <2>1, OpenActs
  <1>3. Flags'
    BY <1>2 DEF CInv, Flags, hostVars, authVars
  <1>4. Acts
    <2>1. state' \in State /\ state' # "streaming" /\ pairKey' \in Key
      BY <1>1 DEF State, CInv, PlainTypes
    <2> QED BY <1>1, <2>1, QuietHost DEF Acts
  <1>5. link' \notin graceful' \/ ~wantsConnection'
    <2>1. CASE link' = links + 1
      <3>1. \A c \in graceful : c \in Nat /\ c <= links
        BY DEF CInv, Numbers, PlainTypes, Link
      <3>2. links \in Nat BY DEF CInv, PlainTypes
      <3> QED BY <2>1, <3>1, <3>2
    <2> QED BY <1>1, <2>1
  <1>6. Together'
    BY <1>1, <1>5 DEF Together, NeverStranded, AwakeWhileStreaming
  <1> QED BY <1>3, <1>4, <1>6

LEMMA SceneActiveActs ==
  ASSUME CInv, SceneActive
  PROVE  Acts /\ Flags' /\ Together'
  <1>1. /\ ~foreground /\ foreground' = TRUE
        /\ UNCHANGED <<reconnectSleeping, reconnectDue, timeoutDue, pairingNew, nonce,
                       pairKey, saved, graceful, toClient, toHost, hostVars>>
    BY DEF SceneActive
  <1>2. reconnectDue' \in BOOLEAN
    BY <1>1 DEF CInv, Flags
  <1>3. wantsConnection => state = "reconnecting" /\ ~idleTimerDisabled
    BY <1>1 DEF CInv, Together, AwakeWhileStreaming
  <1>4. CASE wantsConnection
    <2>1. Open(0, FALSE)
      BY <1>3, <1>4 DEF SceneActive
    <2>2. 0 \in 0..1 OBVIOUS
    <2> QED BY <1>1, <1>2, <1>3, <1>4, <2>1, <2>2, ReopenActs
  <1>5. CASE ~wantsConnection
    <2>1. UNCHANGED <<state, wantsConnection, idleTimerDisabled, timer,
                      reconnectAttempt, timeoutSleeping, configured, trusted,
                      link, links, session, certificate, dialing, dead>>
      BY <1>5 DEF SceneActive
    <2>2. Acts
      BY <1>1, <2>1, QuietActs DEF pairVars, netVars
    <2>3. Flags'
      <3>1. foreground' \in BOOLEAN BY <1>1
      <3> QED BY <1>1, <2>1, <3>1 DEF CInv, Flags, hostVars, authVars
    <2>4. Together'
      BY <1>1, <1>5, <2>1 DEF CInv, Together, NeverStranded, AwakeWhileStreaming
    <2> QED BY <2>2, <2>3, <2>4
  <1> QED BY <1>4, <1>5

LEMMA ReconnectFiresActs ==
  ASSUME CInv, ReconnectFires
  PROVE  Acts /\ Flags' /\ Together'
  <1>1. /\ reconnectDue' = FALSE
        /\ UNCHANGED <<foreground, reconnectSleeping, timeoutDue, pairingNew, nonce,
                       pairKey, saved, graceful, toClient, toHost, hostVars>>
    BY DEF ReconnectFires
  <1>2. reconnectDue' \in BOOLEAN /\ foreground \in BOOLEAN
    BY <1>1 DEF CInv, Flags
  <1>3. CASE wantsConnection /\ foreground
    <2>1. Open(reconnectAttempt, FALSE) /\ foreground' = TRUE
      BY <1>1, <1>2, <1>3 DEF ReconnectFires
    <2>2. reconnectAttempt \in 0..1 BY DEF CInv, PlainTypes
    <2> QED BY <1>1, <1>2, <1>3, <2>1, <2>2, ReopenActs
  <1>4. CASE ~(wantsConnection /\ foreground)
    <2>1. UNCHANGED <<state, wantsConnection, idleTimerDisabled, timer,
                      reconnectAttempt, timeoutSleeping, configured, trusted,
                      link, links, session, certificate, dialing, dead>>
      BY <1>4 DEF ReconnectFires
    <2>2. Acts
      BY <1>1, <2>1, QuietActs DEF pairVars, netVars
    <2>3. Flags'
      BY <1>1, <1>2, <2>1 DEF CInv, Flags, hostVars, authVars
    <2>4. Together'
      BY <1>1, <1>4, <2>1 DEF CInv, Together, NeverStranded, AwakeWhileStreaming
    <2> QED BY <2>2, <2>3, <2>4
  <1> QED BY <1>3, <1>4

LEMMA SceneInactiveActs ==
  ASSUME CInv, SceneInactive
  PROVE  Acts /\ Flags' /\ Together'
  <1>1. /\ Close /\ foreground' = FALSE /\ reconnectSleeping' = FALSE
        /\ timeoutSleeping' = FALSE /\ timer' = FALSE /\ idleTimerDisabled' = FALSE
        /\ state' = IF wantsConnection THEN "reconnecting" ELSE state
        /\ UNCHANGED <<wantsConnection, reconnectAttempt, reconnectDue, timeoutDue, pairVars,
                       links, graceful, dialing, toClient, toHost, hostVars>>
    BY DEF SceneInactive
  <1>2. link' = 0 /\ state' \in State /\ pairKey' \in Key /\ reconnectAttempt' \in 0..1
    BY <1>1 DEF Close, State, CInv, PlainTypes, pairVars
  <1>3. Acts
    BY <1>1, <1>2, QuietHost DEF Acts, pairVars
  <1>4. Flags'
    BY <1>1 DEF CInv, Flags, pairVars, hostVars, authVars
  <1>5. 0 \notin graceful'
    BY <1>1 DEF CInv, PlainTypes, Link
  <1>6. Together'
    BY <1>1, <1>2, <1>5 DEF Together, NeverStranded, AwakeWhileStreaming
  <1> QED BY <1>3, <1>4, <1>6

LEMMA TimeoutFiresActs ==
  ASSUME CInv, TimeoutFires
  PROVE  Acts /\ Flags' /\ Together'
  <1>1. /\ timeoutDue' = FALSE
        /\ UNCHANGED <<reconnectDue, pairVars, links, graceful, dialing, toClient, toHost,
                       hostVars>>
    BY DEF TimeoutFires
  <1>2. reconnectDue' \in BOOLEAN /\ timeoutDue' \in BOOLEAN
    BY <1>1 DEF CInv, Flags
  <1>3. CASE state # "streaming"
    <2>1. Failed("other") BY <1>3 DEF TimeoutFires
    <2>2. /\ Close /\ link' = 0 /\ Together'
          /\ state' \in State \ {"streaming"} /\ reconnectAttempt' \in 0..1
      BY <1>1, <2>1, FailedActs
    <2>3. Flags'
      <3>1. /\ wantsConnection' \in BOOLEAN /\ foreground' \in BOOLEAN
            /\ idleTimerDisabled' \in BOOLEAN /\ timer' \in BOOLEAN
            /\ reconnectSleeping' \in BOOLEAN /\ timeoutSleeping' \in BOOLEAN
        BY <1>1, <2>1, FailedActs
      <3> QED BY <1>1, <1>2, <3>1 DEF CInv, Flags, pairVars, hostVars, authVars
    <2>4. Acts
      <3>1. pairKey' \in Key BY <1>1 DEF CInv, PlainTypes, pairVars
      <3> QED BY <1>1, <2>2, <3>1, QuietHost DEF Acts, pairVars
    <2> QED BY <2>2, <2>3, <2>4
  <1>4. CASE state = "streaming"
    <2>1. UNCHANGED <<uiVars, reconnectSleeping, timeoutSleeping, link, session,
                      certificate, dead>>
      BY <1>4 DEF TimeoutFires
    <2>2. Acts
      BY <1>1, <2>1, QuietActs DEF netVars, uiVars
    <2>3. Flags'
      BY <1>1, <1>2, <2>1 DEF CInv, Flags, uiVars, pairVars, hostVars, authVars
    <2>4. Together'
      BY <1>1, <1>4, <2>1 DEF CInv, Together, NeverStranded, AwakeWhileStreaming, uiVars
    <2> QED BY <2>2, <2>3, <2>4
  <1> QED BY <1>3, <1>4

LEMMA SendFailsActs ==
  ASSUME CInv, SendFails
  PROVE  Acts /\ Flags' /\ Together'
  <1>1. /\ Failed("other")
        /\ UNCHANGED <<reconnectDue, timeoutDue, pairVars, links, graceful, dialing,
                       toClient, toHost, hostVars>>
    BY DEF SendFails
  <1>2. /\ Close /\ link' = 0 /\ Together'
        /\ state' \in State \ {"streaming"} /\ reconnectAttempt' \in 0..1
    BY <1>1, FailedActs
  <1>3. Flags'
    <2>1. /\ wantsConnection' \in BOOLEAN /\ foreground' \in BOOLEAN
          /\ idleTimerDisabled' \in BOOLEAN /\ timer' \in BOOLEAN
          /\ reconnectSleeping' \in BOOLEAN /\ timeoutSleeping' \in BOOLEAN
      BY <1>1, FailedActs
    <2> QED BY <1>1, <2>1 DEF CInv, Flags, pairVars, hostVars, authVars
  <1>4. Acts
    <2>1. pairKey' \in Key BY <1>1 DEF CInv, PlainTypes, pairVars
    <2> QED BY <1>1, <1>2, <2>1, QuietHost DEF Acts, pairVars
  <1> QED BY <1>2, <1>3, <1>4

LEMMA GracefulCloseActs ==
  ASSUME CInv, NEW c \in Link, GracefulClose(c)
  PROVE  Acts /\ Flags' /\ Together'
  <1>1. /\ c \in graceful /\ graceful' = graceful \ {c}
        /\ UNCHANGED <<uiVars, taskVars, pairVars, links, dialing, toClient, toHost,
                       hostVars>>
    BY DEF GracefulClose
  <1>2. Flags'
    BY <1>1 DEF CInv, Flags, uiVars, taskVars, pairVars, hostVars, authVars
  <1>3. CASE UNCHANGED <<link, session, certificate, dead>>
    <2>1. Acts
      BY <1>1, <1>3, QuietActs DEF netVars, uiVars
    <2>2. Together'
      BY <1>1, <1>3 DEF CInv, Together, NeverStranded, AwakeWhileStreaming, uiVars, taskVars
    <2> QED BY <1>2, <2>1, <2>2
  <1>4. CASE link = c /\ Close
    <2>1. link' = 0 /\ ~wantsConnection /\ ~wantsConnection'
      BY <1>1, <1>4 DEF Close, CInv, Together, uiVars
    <2>2. state' \in State /\ reconnectAttempt' \in 0..1 /\ pairKey' \in Key
      BY <1>1 DEF CInv, PlainTypes, uiVars, pairVars
    <2>3. Acts
      BY <1>1, <1>4, <2>1, <2>2, QuietHost DEF Acts, pairVars
    <2>4. Together'
      BY <2>1 DEF Together, NeverStranded, AwakeWhileStreaming
    <2> QED BY <1>2, <2>3, <2>4
  <1> QED BY <1>3, <1>4 DEF GracefulClose

\* The steps in which the iPad takes no packet.
OnItsOwn ==
  \/ User
  \/ ReconnectWakes \/ ReconnectFires \/ TimeoutWakes \/ TimeoutFires \/ SendFails
  \/ \E c \in Link : GracefulClose(c)

LEMMA AllActs ==
  ASSUME CInv, OnItsOwn
  PROVE  Acts /\ Flags' /\ Together'
  <1>1. CASE Disconnect BY <1>1, StoppedActs DEF Disconnect
  <1>2. CASE ForgetHost BY <1>2, StoppedActs DEF ForgetHost
  <1>3. CASE \E k \in {Code(link), Code(0)} : Pair(k)
    BY <1>3, PairActs
  <1>4. CASE ReconnectWakes \/ TimeoutWakes
    BY <1>4, WakesActs
  <1>5. CASE \E c \in Link : GracefulClose(c)
    BY <1>5, GracefulCloseActs
  <1> QED BY <1>1, <1>2, <1>3, <1>4, <1>5, ConnectActs, SceneActiveActs,
             SceneInactiveActs, ReconnectFiresActs, TimeoutFiresActs, SendFailsActs
             DEF OnItsOwn, User

\* The iPad, as long as it takes no packet, keeps what it believes.
LEMMA ActsStep ==
  ASSUME CInv, OnItsOwn
  PROVE  CInv'
  <1>1. Acts /\ Flags' /\ Together'
    BY AllActs
  <1>2. PlainTypes' /\ Wires' /\ Numbers' /\ Honest' /\ Heeds' /\ Agrees' /\ Trusts'
    BY <1>1, ActsTypes, ActsKeeps
  <1>3. Len(toHost') <= MaxWire
    BY <1>1 DEF Acts
  <1> QED BY <1>1, <1>2, <1>3 DEF CInv
-----------------------------------------------------------------------------
(* A packet that the iPad takes.                                           *)

Taken(c) ==
  /\ toClient[c] # <<>> /\ toClient' = [toClient EXCEPT ![c] = Tail(@)]
  /\ UNCHANGED <<links, graceful, dialing, hostVars>> /\ dead \subseteq dead'
  /\ toHost' \in Seq(ToHost) /\ Len(toHost') <= MaxWire

LEMMA TakenKeeps ==
  ASSUME CInv, NEW c \in Link, Taken(c)
  PROVE  /\ Wires' /\ Honest'
         /\ toClient'[c] = Tail(toClient[c])
         /\ \A d \in Link : d # c => toClient'[d] = toClient[d]
         /\ \A d \in Link : In(toClient'[d]) \subseteq In(toClient[d])
  <1>1. /\ toClient \in [Link -> Seq(ToClient)] /\ toClient[c] \in Seq(ToClient)
        /\ toClient[c] # <<>> /\ Sorted(toClient[c])
        /\ c \notin dialing /\ ~(c > links)
        /\ \/ Len(toClient[c]) <= MaxWire
           \/ Failing \in In(toClient[c]) /\ Len(toClient[c]) <= MaxWire + 1
        /\ Failing \in In(toClient[c]) => c \in dead
    BY DEF CInv, Wires, Taken
  <1>2. /\ Tail(toClient[c]) \in Seq(ToClient) /\ Sorted(Tail(toClient[c]))
        /\ Len(Tail(toClient[c])) = Len(toClient[c]) - 1 /\ Len(toClient[c]) \in Nat \ {0}
        /\ In(Tail(toClient[c])) \subseteq In(toClient[c])
    BY <1>1, TailIn
  <1>3. Len(Tail(toClient[c])) <= MaxWire
    BY <1>1, <1>2, ClientAssumption
  <1>4. Onwards /\ toClient' = [toClient EXCEPT ![c] = Tail(toClient[c])]
    BY DEF Taken, Onwards
  <1>5. Wires'
    <2>1. (Failing \in In(Tail(toClient[c])) => c \in dead') /\ ~(c \in dialing')
      BY <1>1, <1>2 DEF Taken
    <2> QED BY <1>1, <1>2, <1>3, <1>4, <2>1, KeptWires DEF CInv
  <1>6. /\ toClient'[c] = Tail(toClient[c])
        /\ \A d \in Link : d # c => toClient'[d] = toClient[d]
        /\ \A d \in Link : In(toClient'[d]) \subseteq In(toClient[d])
    BY <1>1, <1>2, <1>4
  <1>7. Honest'
    <2>1. UNCHANGED <<serving, stage, isNew, persisted, proved>>
      BY DEF Taken, hostVars, authVars, idVars
    <2>2. (Reached' = Reached) /\ (Verified' <=> Verified)
      BY <2>1 DEF Reached, Verified
    <2>3. serving # 0 => serving \in Link
      BY DEF CInv, PlainTypes, Link
    <2> QED BY <1>6, <2>1, <2>2, <2>3 DEF CInv, Honest
  <1> QED BY <1>5, <1>6, <1>7

\* What the first packet on the iPad's link tells of the place the conversation is at.
LEMMA Heard1 ==
  ASSUME CInv, link # 0, Taken(link), link' = link, NEW m, m = Head(toClient[link])
  PROVE  /\ link \in Link /\ m \in ToClient /\ m \in In(toClient[link])
         /\ foreground /\ link \notin dialing
         /\ m # Failing /\ serving = link => Rank(m) <= Reached
         /\ \A r \in {1, 3} : Beyond(r) => /\ Beyond(r)'
                                           /\ r < Rank(m) \/ m.kind = "config"
         /\ \A r \in {1, 3} : m # Failing /\ r <= Rank(m) => Beyond(r)'
  <1>1. link \in Link
    BY DEF CInv, PlainTypes, Link
  <1>2. /\ toClient[link] \in Seq(ToClient) /\ toClient[link] # <<>>
        /\ Sorted(toClient[link]) /\ link \notin dialing
    BY <1>1 DEF CInv, Wires, Taken
  <1>3. /\ m \in ToClient /\ m \in In(toClient[link])
        /\ \A e \in In(Tail(toClient[link])) : Before(m, e)
        /\ In(Tail(toClient[link])) \subseteq In(toClient[link])
    BY <1>2, TailIn
  <1>4. m # Failing /\ serving = link => Rank(m) <= Reached
    BY <1>1, <1>3 DEF CInv, Honest, Link
  <1>5. /\ In(toClient'[link']) = In(Tail(toClient[link]))
        /\ dialing' = dialing /\ serving' = serving /\ Reached' = Reached
    <2>1. toClient'[link] = Tail(toClient[link])
      BY <1>1, TakenKeeps
    <2> QED BY <2>1 DEF Taken, hostVars, authVars, Reached
  <1>6. \A r \in {1, 3} : Beyond(r) => Beyond(r)' /\ (r < Rank(m) \/ m.kind = "config")
    BY <1>3, <1>5 DEF Beyond
  <1>7. ASSUME NEW r \in {1, 3}, m # Failing, r <= Rank(m) PROVE Beyond(r)'
    <2>1. Rank(m) \in 0..5 /\ Reached \in 0..4
      <3>1. stage \in Stage BY DEF CInv, PlainTypes
      <3> QED BY <1>3, <3>1, Ranks DEF Stage, Reached
    <2>2. serving' = link => r <= Reached'
      BY <1>4, <1>5, <1>7, <2>1
    <2>3. ASSUME NEW e \in In(Tail(toClient[link])) PROVE r < Rank(e) \/ e.kind = "config"
      <3>1. Before(m, e) /\ e \in ToClient
        BY <1>2, <1>3 DEF In
      <3>2. Rank(e) \in 0..5
        BY <3>1, Ranks
      <3> QED BY <1>7, <2>1, <3>1, <3>2 DEF Before
    <2> QED BY <1>2, <1>5, <2>2, <2>3 DEF Beyond
  <1>8. foreground
    BY DEF CInv, Together
  <1> QED BY <1>1, <1>2, <1>3, <1>4, <1>6, <1>7, <1>8

\* A packet of another link changes nothing but its channel.
LEMMA StaleStep ==
  ASSUME CInv, NEW c \in Link, Receive(c), link # c
  PROVE  CInv'
  <1>1. UNCHANGED <<uiVars, taskVars, pairVars, linkVars, dialing, dead, toHost, hostVars>>
    BY DEF Receive, Current, taskVars, linkVars
  <1>2. Taken(c)
    BY <1>1 DEF Receive, Taken, linkVars, CInv, Wires
  <1>3. /\ Wires' /\ Honest'
        /\ \A d \in Link : d # c => toClient'[d] = toClient[d]
    BY <1>2, TakenKeeps
  <1>4. PlainTypes' /\ Len(toHost') <= MaxWire
    BY <1>1 DEF CInv, PlainTypes, uiVars, pairVars, linkVars, hostVars, authVars, idVars
  <1>5. Flags'
    BY <1>1 DEF CInv, Flags, uiVars, taskVars, pairVars, hostVars, authVars
  <1>6. Numbers'
    BY <1>1 DEF CInv, Numbers, pairVars, linkVars, hostVars, authVars
  <1>7. Together' /\ Trusts'
    BY <1>1 DEF CInv, Together, NeverStranded, AwakeWhileStreaming, Trusts,
                SavedIsPersisted, ConfiguredIsProved, uiVars, taskVars, pairVars, linkVars,
                hostVars, idVars
  <1>8. link # 0 => toClient'[link] = toClient[link]
    BY <1>3 DEF CInv, PlainTypes, Link
  <1>9. (Reached' = Reached) /\ (Verified' <=> Verified)
    BY <1>1 DEF Reached, Verified, hostVars, authVars
  <1>10. Heeds'
    <2>1. link # 0 => (Beyond(1)' <=> Beyond(1)) /\ (Beyond(3)' <=> Beyond(3))
      BY <1>1, <1>8, <1>9 DEF Beyond, linkVars, hostVars, authVars
    <2> QED BY <1>1, <1>8, <2>1 DEF CInv, Heeds, uiVars, pairVars, linkVars
  <1>11. Agrees'
    BY <1>1, <1>8, <1>9 DEF CInv, Agrees, pairVars, linkVars, hostVars, authVars
  <1> QED BY <1>3, <1>4, <1>5, <1>6, <1>7, <1>10, <1>11 DEF CInv

\* A packet that the iPad cannot go on with ends in failed().
LEMMA FailedStep ==
  ASSUME CInv, NEW c \in Link, Receive(c), NEW error, Failed(error),
         UNCHANGED <<pairVars, toHost>>
  PROVE  CInv'
  <1>1. UNCHANGED <<reconnectDue, timeoutDue, links, graceful, dialing, hostVars>>
    BY DEF Receive
  <1>2. /\ Close /\ link' = 0 /\ Together' /\ session' = 0 /\ certificate' = 0
        /\ dead' = dead \cup ({link} \ {0})
        /\ state' \in State \ {"streaming"} /\ reconnectAttempt' \in 0..1
    BY <1>1, FailedActs DEF Close
  <1>3. Taken(c)
    BY <1>1, <1>2 DEF Receive, Taken, CInv, Wires
  <1>4. Wires' /\ Honest'
    BY <1>3, TakenKeeps
  <1>5. PlainTypes' /\ Len(toHost') <= MaxWire
    <2>1. dead' \subseteq Link
      BY <1>2, ClientAssumption DEF CInv, PlainTypes, Link
    <2>2. /\ UNCHANGED <<pairVars, links, graceful, dialing>>
          /\ UNCHANGED <<serving, stage, hostKey, identity, devices, disk, persisted, proved>>
      BY <1>1 DEF hostVars, authVars, idVars
    <2>3. link' \in 0..MaxLinks /\ session' \in 0..MaxLinks /\ certificate' \in 0..MaxIdentity
      BY <1>2, ClientAssumption
    <2> QED BY <1>2, <2>1, <2>2, <2>3 DEF CInv, PlainTypes, pairVars
  <1>6. Flags'
    <2>1. /\ wantsConnection' \in BOOLEAN /\ foreground' \in BOOLEAN
          /\ idleTimerDisabled' \in BOOLEAN /\ timer' \in BOOLEAN
          /\ reconnectSleeping' \in BOOLEAN /\ timeoutSleeping' \in BOOLEAN
      BY <1>1, FailedActs
    <2> QED BY <1>1, <2>1 DEF CInv, Flags, pairVars, hostVars, authVars
  <1>7. Numbers'
    <2>1. links \in Nat BY DEF CInv, PlainTypes
    <2> QED BY <1>1, <1>2, <2>1 DEF CInv, Numbers, pairVars, hostVars, authVars
  <1>8. Heeds' /\ Agrees'
    BY <1>2 DEF Heeds, Agrees
  <1>9. Trusts'
    BY <1>1, <1>2 DEF CInv, Trusts, SavedIsPersisted, ConfiguredIsProved, pairVars, hostVars,
                      idVars
  <1> QED BY <1>2, <1>4, <1>5, <1>6, <1>7, <1>8, <1>9 DEF CInv

\* The iPad goes on with its link: what m, the packet it took, allows it to conclude.
Goes(m) ==
  /\ link' = link /\ dead' = dead /\ nonce' \in {nonce, link}
  /\ \/ certificate' # 0
     \/ certificate' = certificate /\ m.kind \notin {"ready", "failed"}
  /\ (state' = "streaming" \/ session' # 0) =>
       state = "streaming" \/ session # 0 \/ m.kind \in {"start", "config"}
  /\ nonce' # nonce => m.kind \in {"code", "secret"}
  /\ pairingNew' => pairingNew \/ m.kind = "code"
  /\ m.kind = "secret" => ~pairingNew'
  /\ \A e \in In(toHost') : e \in In(toHost) \/ (e.kind = "proof" => nonce' = link)

LEMMA GoesKeeps ==
  ASSUME CInv, link # 0, Taken(link), NEW m, m = Head(toClient[link]), Goes(m)
  PROVE  Wires' /\ Honest' /\ Numbers' /\ Heeds' /\ Agrees'
  <1>1. /\ link \in Link /\ m \in ToClient /\ m \in In(toClient[link])
        /\ link \notin dialing
        /\ \A r \in {1, 3} : Beyond(r) => Beyond(r)' /\ (r < Rank(m) \/ m.kind = "config")
        /\ \A r \in {1, 3} : m # Failing /\ r <= Rank(m) => Beyond(r)'
    BY Heard1 DEF Goes
  <1>2. /\ Wires' /\ Honest'
        /\ In(toClient'[link]) \subseteq In(toClient[link])
    BY <1>1, TakenKeeps
  <1>3. UNCHANGED <<links, graceful, dialing, serving, stage, isNew>>
    BY DEF Taken, hostVars, authVars
  <1>4. Numbers'
    BY <1>3 DEF CInv, Numbers, Goes
  <1>5. Heeds'
    <2>1. certificate' # 0
      BY <1>1 DEF Goes, Taken, CInv, Heeds
    <2>2. ASSUME state' = "streaming" \/ session' # 0 PROVE Beyond(3)'
      <3>1. CASE state = "streaming" \/ session # 0
        BY <1>1, <3>1 DEF CInv, Heeds
      <3>2. CASE m.kind \in {"start", "config"}
        <4>1. m # Failing /\ Rank(m) \in {3, 4}
          BY <1>1, <3>2, Kinds, Ranks
        <4> QED BY <1>1, <4>1
      <3> QED BY <2>2, <3>1, <3>2 DEF Goes
    <2>3. ASSUME nonce' = link PROVE Beyond(1)'
      <3>1. CASE nonce = link
        BY <1>1, <3>1 DEF CInv, Heeds
      <3>2. CASE m.kind \in {"code", "secret"}
        <4>1. m # Failing /\ Rank(m) = 1
          BY <1>1, <3>2, Kinds, Ranks
        <4> QED BY <1>1, <4>1
      <3> QED BY <2>3, <3>1, <3>2 DEF Goes
    <2> QED BY <2>1, <2>2, <2>3 DEF Heeds, Goes
  <1>6. Agrees'
    <2>1. Verified' <=> Verified
      BY <1>3 DEF Verified
    <2>2. ASSUME serving = link, nonce' = link, ~isNew PROVE ~pairingNew'
      <3>1. m.kind # "code"
        BY <1>1, <2>2 DEF CInv, Honest
      <3>2. CASE m.kind = "secret" BY <3>2 DEF Goes
      <3>3. CASE m.kind # "secret"
        <4>1. nonce' = nonce BY <3>1, <3>3 DEF Goes
        <4> QED BY <2>2, <3>1, <4>1 DEF Goes, CInv, Agrees
      <3> QED BY <3>2, <3>3
    <2>3. ASSUME serving = link
          PROVE  /\ Verified => nonce' = link
                 /\ \A e \in In(toHost') :
                      (e.kind = "proof" /\ e.nonce = link) => nonce' = link
      BY <1>1, <2>3 DEF Goes, CInv, Agrees
    <2>4. ASSUME NEW e \in In(toClient'[link]), e.kind = "confirm"
          PROVE  nonce' = link /\ (e.secret = 0 => ~pairingNew')
      <3>1. nonce = link /\ (e.secret = 0 => ~pairingNew)
        BY <1>1, <1>2, <2>4 DEF CInv, Agrees
      <3>2. m.kind # "code"
        <4>1. Beyond(1) BY <1>1, <3>1 DEF CInv, Heeds
        <4>2. m.kind = "code" => Rank(m) = 1 /\ m.kind # "config"
          BY <1>1, Ranks
        <4> QED BY <1>1, <4>1, <4>2
      <3> QED BY <3>1, <3>2 DEF Goes
    <2> QED BY <1>3, <2>1, <2>2, <2>3, <2>4 DEF Agrees, Goes
  <1> QED BY <1>2, <1>4, <1>5, <1>6

LEMMA GoesStep ==
  ASSUME CInv, link # 0, Receive(link), NEW m, m = Head(toClient[link]), Goes(m),
         toHost' \in Seq(ToHost), Len(toHost') <= MaxWire,
         UNCHANGED <<wantsConnection, foreground, reconnectSleeping>>,
         idleTimerDisabled' \in BOOLEAN, timer' \in BOOLEAN, timeoutSleeping' \in BOOLEAN,
         configured' \in BOOLEAN, pairingNew' \in BOOLEAN,
         state' \in State, reconnectAttempt' \in 0..1, pairKey' \in Key,
         trusted' \in Trusted, saved' \in Trusted, session' \in 0..MaxLinks,
         certificate' \in 0..MaxIdentity, Together', Trusts'
  PROVE  CInv'
  <1>1. UNCHANGED <<reconnectDue, timeoutDue, links, graceful, dialing, hostVars>>
    BY DEF Receive
  <1>2. Taken(link)
    BY <1>1 DEF Receive, Taken, Goes
  <1>3. Wires' /\ Honest' /\ Numbers' /\ Heeds' /\ Agrees'
    BY <1>2, GoesKeeps
  <1>4. Flags'
    BY <1>1 DEF CInv, Flags, hostVars, authVars
  <1>5. PlainTypes'
    <2>1. nonce' \in 0..MaxLinks /\ link' = link /\ dead' = dead
      BY DEF Goes, CInv, PlainTypes
    <2>2. UNCHANGED <<serving, stage, hostKey, identity, devices, disk, persisted, proved>>
      BY <1>1 DEF hostVars, authVars, idVars
    <2> QED BY <1>1, <2>1, <2>2 DEF CInv, PlainTypes
  <1> QED BY <1>3, <1>4, <1>5 DEF CInv

LEMMA ReadyStep ==
  ASSUME CInv, link # 0, Receive(link), NEW m, m = Head(toClient[link]), m.kind = "ready",
         certificate' = m.identity, Send([kind |-> "hello", trusted |-> trusted # Nobody]),
         UNCHANGED <<uiVars, reconnectSleeping, timeoutSleeping, pairVars, link, session,
                     dead>>
  PROVE  CInv'
  <1>1. [kind |-> "hello", trusted |-> trusted # Nobody] \in ToHost
    BY DEF ToHost
  <1>2. /\ toHost' \in Seq(ToHost) /\ Len(toHost') <= MaxWire
        /\ \A e \in In(toHost') : e \in In(toHost) \/ (e.kind = "proof" => nonce' = link)
    <2>1. [kind |-> "hello", trusted |-> trusted # Nobody].kind # "proof" OBVIOUS
    <2> QED BY <1>1, <2>1, SendIn
  <1>3. m \in ToClient
    <2>1. toClient[link] \in Seq(ToClient)
      BY DEF CInv, Wires, PlainTypes, Link
    <2> QED BY <2>1, HeadTailProperties DEF Receive
  <1>4. certificate' \in 1..MaxIdentity
    BY <1>3, Kinds
  <1>5. UNCHANGED <<graceful, reconnectDue, timeoutDue, persisted, proved>>
    BY DEF Receive, hostVars, idVars
  <1>6. Together' /\ Trusts'
    BY <1>5 DEF CInv, Together, NeverStranded, AwakeWhileStreaming, Trusts,
                SavedIsPersisted, ConfiguredIsProved, uiVars, pairVars
  <1>7. Goes(m)
    BY <1>2, <1>4 DEF Goes, pairVars, uiVars
  <1>8. /\ idleTimerDisabled' \in BOOLEAN /\ timer' \in BOOLEAN
        /\ timeoutSleeping' \in BOOLEAN
        /\ configured' \in BOOLEAN /\ pairingNew' \in BOOLEAN
    BY DEF CInv, Flags, uiVars, pairVars
  <1>9. /\ state' \in State /\ reconnectAttempt' \in 0..1 /\ pairKey' \in Key
        /\ trusted' \in Trusted /\ saved' \in Trusted /\ session' \in 0..MaxLinks
        /\ certificate' \in 0..MaxIdentity
    BY <1>4, ClientAssumption DEF CInv, PlainTypes, uiVars, pairVars
  <1>10. UNCHANGED <<wantsConnection, foreground, reconnectSleeping>>
    BY DEF uiVars
  <1> QED BY <1>2, <1>6, <1>7, <1>8, <1>9, <1>10, GoesStep

LEMMA CodeStep ==
  ASSUME CInv, link # 0, Receive(link), NEW m, m = Head(toClient[link]), m.kind = "code",
         AskForCode
  PROVE  CInv'
  <1>1. UNCHANGED <<graceful, reconnectDue, timeoutDue, links, dialing, hostVars>>
    BY DEF Receive
  <1>2. Taken(link)
    BY <1>1 DEF Receive, Taken, AskForCode, CInv, Wires
  <1>3. m \in ToClient /\ foreground /\ (Beyond(3) => 3 < Rank(m) \/ m.kind = "config")
    <2>1. link' = link BY DEF AskForCode
    <2> QED BY <1>2, <2>1, Heard1
  <1>4. Rank(m) = 1 /\ m # Failing
    BY <1>3, Ranks, Kinds
  <1>5. state # "streaming" /\ session = 0
    BY <1>3, <1>4 DEF CInv, Heeds
  <1>6. certificate' = certificate /\ state' = "pairing" /\ session' = session
    BY DEF AskForCode
  <1>7. Goes(m)
    BY <1>6, QuietHost DEF Goes, AskForCode
  <1>8. Together'
    BY <1>1, <1>3, <1>5 DEF CInv, Together, NeverStranded, AwakeWhileStreaming, AskForCode
  <1>9. Trusts'
    BY <1>1 DEF CInv, Trusts, SavedIsPersisted, ConfiguredIsProved, AskForCode, hostVars,
                idVars
  <1>10. /\ idleTimerDisabled' \in BOOLEAN /\ timer' \in BOOLEAN
         /\ timeoutSleeping' \in BOOLEAN
         /\ configured' \in BOOLEAN /\ pairingNew' \in BOOLEAN
    BY DEF CInv, Flags, AskForCode
  <1>11. /\ state' \in State /\ reconnectAttempt' \in 0..1 /\ pairKey' \in Key
         /\ trusted' \in Trusted /\ saved' \in Trusted /\ session' \in 0..MaxLinks
         /\ certificate' \in 0..MaxIdentity
    BY DEF CInv, PlainTypes, AskForCode, State
  <1>12. UNCHANGED <<wantsConnection, foreground, reconnectSleeping, toHost>>
    BY DEF AskForCode
  <1>13. toHost' \in Seq(ToHost) /\ Len(toHost') <= MaxWire
    BY <1>12, QuietHost
  <1> QED BY <1>7, <1>8, <1>9, <1>10, <1>11, <1>12, <1>13, GoesStep

LEMMA SecretStep ==
  ASSUME CInv, link # 0, Receive(link), NEW m, m = Head(toClient[link]), m.kind = "secret",
         trusted # Nobody, ProveSecret
  PROVE  CInv'
  <1> DEFINE p == [kind |-> "proof", key |-> Secret(trusted.secret), nonce |-> link]
  <1>1. /\ pairingNew' = FALSE /\ nonce' = link /\ pairKey' = Secret(trusted.secret)
        /\ Send(p)
        /\ UNCHANGED <<uiVars, reconnectSleeping, timeoutSleeping, configured, trusted,
                       saved, link, session, certificate, dead>>
    BY DEF ProveSecret
  <1>2. pairKey' \in Key /\ p \in ToHost /\ p.kind = "proof" /\ p.nonce = link
    <2>1. trusted.secret \in 0..MaxLinks
      BY ClientAssumption DEF CInv, PlainTypes, Trusted, Link
    <2>2. Secret(trusted.secret) \in Key
      BY <2>1 DEF Secret, Key
    <2>3. link \in 0..MaxLinks BY DEF CInv, PlainTypes
    <2> QED BY <1>1, <2>2, <2>3 DEF ToHost
  <1> HIDE DEF p
  <1>3. /\ toHost' \in Seq(ToHost) /\ Len(toHost') <= MaxWire
        /\ \A e \in In(toHost') : e \in In(toHost) \/ (e.kind = "proof" => nonce' = link)
    BY <1>1, <1>2, SendIn
  <1>4. UNCHANGED <<graceful, reconnectDue, timeoutDue, links, dialing, hostVars>>
    BY DEF Receive
  <1>5. Goes(m)
    BY <1>1, <1>3 DEF Goes, uiVars
  <1>6. Together'
    BY <1>1, <1>4 DEF CInv, Together, NeverStranded, AwakeWhileStreaming, uiVars
  <1>7. Trusts'
    BY <1>1, <1>4 DEF CInv, Trusts, SavedIsPersisted, ConfiguredIsProved, hostVars, idVars
  <1>8. /\ idleTimerDisabled' \in BOOLEAN /\ timer' \in BOOLEAN
        /\ timeoutSleeping' \in BOOLEAN
        /\ configured' \in BOOLEAN /\ pairingNew' \in BOOLEAN
    BY <1>1 DEF CInv, Flags, uiVars
  <1>9. /\ state' \in State /\ reconnectAttempt' \in 0..1
        /\ trusted' \in Trusted /\ saved' \in Trusted /\ session' \in 0..MaxLinks
        /\ certificate' \in 0..MaxIdentity
    BY <1>1 DEF CInv, PlainTypes, uiVars
  <1>10. UNCHANGED <<wantsConnection, foreground, reconnectSleeping>>
    BY <1>1 DEF uiVars
  <1> QED BY <1>2, <1>3, <1>5, <1>6, <1>7, <1>8, <1>9, <1>10, GoesStep

LEMMA ConfirmStep ==
  ASSUME CInv, link # 0, Receive(link), NEW m, m = Head(toClient[link]),
         m.kind = "confirm", ~Refuted(m),
         trusted' = (IF pairingNew THEN Paired(m) ELSE trusted),
         saved' = (IF pairingNew THEN Paired(m) ELSE saved),
         pairKey' = NoKey, configured' = TRUE, state' = "connecting",
         Send([kind |-> "capabilities"]),
         UNCHANGED <<wantsConnection, foreground, idleTimerDisabled, timer,
                     reconnectAttempt, reconnectSleeping, timeoutSleeping, pairingNew,
                     nonce, link, session, certificate, dead>>
  PROVE  CInv'
  <1>1. UNCHANGED <<graceful, reconnectDue, timeoutDue, links, dialing, hostVars>>
    BY DEF Receive
  <1>2. /\ toHost' \in Seq(ToHost) /\ Len(toHost') <= MaxWire
        /\ \A e \in In(toHost') : e \in In(toHost) \/ (e.kind = "proof" => nonce' = link)
    <2>1. /\ [kind |-> "capabilities"] \in ToHost
          /\ [kind |-> "capabilities"].kind # "proof"
      BY DEF ToHost
    <2> QED BY <2>1, SendIn
  <1>3. Taken(link)
    BY <1>1, <1>2 DEF Receive, Taken
  <1>4. /\ link \in Link /\ m \in ToClient /\ m \in In(toClient[link])
        /\ foreground /\ (Beyond(3) => 3 < Rank(m) \/ m.kind = "config")
    BY <1>3, Heard1
  <1>5. Rank(m) = 2 /\ m.secret \in 0..MaxLinks /\ m.kind \notin {"ready", "failed"}
    BY <1>4, Ranks, Kinds
  <1>6. state # "streaming" /\ session = 0 /\ certificate # 0
    BY <1>3, <1>4, <1>5 DEF CInv, Heeds, Taken
  <1>7. link \in proved /\ (m.secret # 0 => m.secret \in persisted)
    BY <1>4 DEF CInv, Honest
  <1>8. pairingNew => m.secret # 0
    BY DEF Refuted
  <1>9. pairingNew => Paired(m) \in [secret : Link, identity : 1..MaxIdentity]
                      /\ Paired(m).secret = m.secret
    BY <1>5, <1>6, <1>8, ClientAssumption DEF Paired, CInv, PlainTypes, Link
  <1>10. trusted' \in Trusted /\ saved' \in Trusted
    BY <1>9 DEF Trusted, CInv, PlainTypes
  <1>11. Trusts'
    <2>1. persisted' = persisted /\ proved' = proved
      BY <1>1 DEF hostVars, idVars
    <2>2. SavedIsPersisted'
      <3>1. CASE pairingNew
        BY <1>7, <1>8, <1>9, <2>1, <3>1 DEF SavedIsPersisted
      <3>2. CASE ~pairingNew
        BY <2>1, <3>2 DEF CInv, Trusts, SavedIsPersisted
      <3> QED BY <3>1, <3>2
    <2>3. ConfiguredIsProved'
      BY <1>7, <2>1 DEF ConfiguredIsProved
    <2> QED BY <2>2, <2>3 DEF Trusts
  <1>12. Together'
    BY <1>1, <1>4, <1>6 DEF CInv, Together, NeverStranded, AwakeWhileStreaming
  <1>13. Goes(m)
    BY <1>2, <1>5, <1>6 DEF Goes
  <1>14. /\ idleTimerDisabled' \in BOOLEAN /\ timer' \in BOOLEAN
         /\ timeoutSleeping' \in BOOLEAN /\ pairingNew' \in BOOLEAN
    BY DEF CInv, Flags
  <1>15. configured' \in BOOLEAN
    OBVIOUS
  <1>16. /\ state' \in State /\ reconnectAttempt' \in 0..1 /\ pairKey' \in Key
         /\ session' \in 0..MaxLinks /\ certificate' \in 0..MaxIdentity
    BY DEF CInv, PlainTypes, State, Key
  <1> QED BY <1>2, <1>10, <1>11, <1>12, <1>13, <1>14, <1>15, <1>16, GoesStep

LEMMA StartStep ==
  ASSUME CInv, link # 0, Receive(link), NEW m, m = Head(toClient[link]), m.kind = "start",
         session' = m.session,
         UNCHANGED <<uiVars, reconnectSleeping, timeoutSleeping, pairVars, link,
                     certificate, dead, toHost>>
  PROVE  CInv'
  <1>1. UNCHANGED <<graceful, reconnectDue, timeoutDue, links, dialing, hostVars>>
    BY DEF Receive
  <1>2. Taken(link)
    BY <1>1, QuietHost DEF Receive, Taken
  <1>3. m \in ToClient
    BY <1>2, Heard1
  <1>4. session' \in 0..MaxLinks
    BY <1>3, Kinds DEF Link
  <1>5. Goes(m)
    BY QuietHost DEF Goes, pairVars
  <1>6. Together' /\ Trusts'
    BY <1>1 DEF CInv, Together, NeverStranded, AwakeWhileStreaming, Trusts,
                SavedIsPersisted, ConfiguredIsProved, uiVars, pairVars, hostVars, idVars
  <1>7. /\ idleTimerDisabled' \in BOOLEAN /\ timer' \in BOOLEAN
        /\ timeoutSleeping' \in BOOLEAN
        /\ configured' \in BOOLEAN /\ pairingNew' \in BOOLEAN
    BY DEF CInv, Flags, uiVars, pairVars
  <1>8. /\ state' \in State /\ reconnectAttempt' \in 0..1 /\ pairKey' \in Key
        /\ trusted' \in Trusted /\ saved' \in Trusted
        /\ certificate' \in 0..MaxIdentity
    BY DEF CInv, PlainTypes, uiVars, pairVars
  <1>9. UNCHANGED <<wantsConnection, foreground, reconnectSleeping>>
    BY DEF uiVars
  <1> QED BY <1>4, <1>5, <1>6, <1>7, <1>8, <1>9, QuietHost, GoesStep

LEMMA ConfigStep ==
  ASSUME CInv, link # 0, Receive(link), NEW m, m = Head(toClient[link]), m.kind = "config",
         configured, VideoConfig
  PROVE  CInv'
  <1>1. UNCHANGED <<graceful, reconnectDue, timeoutDue, links, dialing, hostVars>>
    BY DEF Receive
  <1>2. /\ state' = "streaming" /\ reconnectAttempt' = 0 /\ timeoutSleeping' = FALSE
        /\ idleTimerDisabled' = TRUE /\ timer' = TRUE
        /\ UNCHANGED <<wantsConnection, foreground, reconnectSleeping, pairVars, link,
                       session, certificate, dead, toHost>>
    BY DEF VideoConfig
  <1>3. Taken(link) /\ toHost' \in Seq(ToHost) /\ Len(toHost') <= MaxWire
    BY <1>1, <1>2, QuietHost DEF Receive, Taken
  <1>4. foreground
    BY <1>2, <1>3, Heard1
  <1>5. Goes(m)
    BY <1>2, QuietHost DEF Goes, pairVars
  <1>6. Together'
    BY <1>1, <1>2, <1>4 DEF CInv, Together, NeverStranded, AwakeWhileStreaming
  <1>7. Trusts'
    BY <1>1, <1>2 DEF CInv, Trusts, SavedIsPersisted, ConfiguredIsProved, pairVars,
                      hostVars, idVars
  <1>8. configured' \in BOOLEAN /\ pairingNew' \in BOOLEAN
    BY <1>2 DEF CInv, Flags, pairVars
  <1>9. /\ idleTimerDisabled' \in BOOLEAN /\ timer' \in BOOLEAN
        /\ timeoutSleeping' \in BOOLEAN
    BY <1>2
  <1>10. /\ state' \in State /\ reconnectAttempt' \in 0..1 /\ pairKey' \in Key
         /\ trusted' \in Trusted /\ saved' \in Trusted /\ session' \in 0..MaxLinks
         /\ certificate' \in 0..MaxIdentity
    BY <1>2 DEF CInv, PlainTypes, State, pairVars
  <1> QED BY <1>2, <1>3, <1>5, <1>6, <1>7, <1>8, <1>9, <1>10, GoesStep

LEMMA ReceiveStep ==
  ASSUME CInv, NEW c \in Link, Receive(c)
  PROVE  CInv'
  <1>1. CASE link # c BY <1>1, StaleStep
  <1>2. CASE link = c
    <2> DEFINE m == Head(toClient[link])
    <2>1. Packet(m) /\ link # 0 /\ Receive(link)
      BY <1>2 DEF Receive, Current, Link
    <2>2. m \in ToClient
      <3>1. toClient[link] \in Seq(ToClient) /\ toClient[link] # <<>>
        BY <1>2 DEF CInv, Wires, Receive
      <3> QED BY <3>1, HeadTailProperties
    <2>3. m.kind \in {"failed", "ready", "code", "secret", "confirm", "start", "config"}
      BY <2>2, Kinds
    <2> HIDE DEF m
    <2>4. CASE \E error : Failed(error) /\ UNCHANGED <<pairVars, toHost>>
      BY <2>4, FailedStep
    <2>5. CASE m.kind = "failed" \/ Replayed(m)
      <3>1. Failed("other") /\ UNCHANGED <<pairVars, toHost>>
        BY <2>1, <2>5 DEF Packet, Replayed
      <3> QED BY <2>4, <3>1
    <2>6. CASE m.kind = "ready"
      <3>1. Ready(m) BY <2>1, <2>5, <2>6 DEF Packet, Replayed
      <3>2. CASE trusted # Nobody /\ trusted.identity # m.identity
        BY <2>4, <3>1, <3>2 DEF Ready
      <3>3. CASE ~(trusted # Nobody /\ trusted.identity # m.identity)
        BY <2>1, <2>6, <3>1, <3>3, ReadyStep DEF Ready, m
      <3> QED BY <3>2, <3>3
    <2>7. CASE m.kind = "code" /\ ~Replayed(m)
      <3>1. AskForCode BY <2>1, <2>7 DEF Packet
      <3> QED BY <2>1, <2>7, <3>1, CodeStep DEF m
    <2>8. CASE m.kind = "secret" /\ ~Replayed(m)
      <3>1. ProveSecret BY <2>1, <2>8 DEF Packet
      <3>2. CASE trusted = Nobody BY <2>4, <3>1, <3>2 DEF ProveSecret
      <3>3. CASE trusted # Nobody BY <2>1, <2>8, <3>1, <3>3, SecretStep DEF m
      <3> QED BY <3>2, <3>3
    <2>9. CASE m.kind = "confirm" /\ ~Replayed(m)
      <3>1. Confirm(m) BY <2>1, <2>9 DEF Packet
      <3>2. CASE (Refuted(m) \/ pairingNew) /\ Failed("trust") /\ UNCHANGED <<pairVars, toHost>>
        BY <2>4, <3>2
      <3>3. CASE ~((Refuted(m) \/ pairingNew) /\ Failed("trust")
                   /\ UNCHANGED <<pairVars, toHost>>)
        BY <2>1, <2>9, <3>1, <3>3, ConfirmStep DEF Confirm, m
      <3> QED BY <3>2, <3>3
    <2>10. CASE m.kind = "start"
      <3>1. Start(m) BY <2>1, <2>5, <2>10 DEF Packet, Replayed
      <3>2. CASE ~configured BY <2>4, <3>1, <3>2 DEF Start
      <3>3. CASE configured BY <2>1, <2>10, <3>1, <3>3, StartStep DEF Start, m
      <3> QED BY <3>2, <3>3
    <2>11. CASE m.kind = "config" /\ ~Replayed(m)
      <3>1. VideoConfig BY <2>1, <2>11 DEF Packet
      <3>2. CASE ~configured BY <2>4, <3>1, <3>2 DEF VideoConfig
      <3>3. CASE configured BY <2>1, <2>11, <3>1, <3>3, ConfigStep DEF m
      <3> QED BY <3>2, <3>3
    <2> QED BY <2>3, <2>5, <2>6, <2>7, <2>8, <2>9, <2>10, <2>11
  <1> QED BY <1>1, <1>2
-----------------------------------------------------------------------------
(* The theorems.                                                           *)

LEMMA CInvInit == Init => CInv
  <1> SUFFICES ASSUME Init PROVE CInv
    OBVIOUS
  <1> USE ClientAssumption
  <1>1. toClient = [c \in Link |-> <<>>] /\ \A c \in Link : toClient[c] = <<>>
    BY DEF Init
  <1>2. Wires /\ Len(toHost) <= MaxWire
    <2>1. <<>> \in Seq(ToClient) /\ Len(<<>>) = 0 /\ Sorted(<<>>) /\ In(<<>>) = {}
      BY DEF Sorted, In
    <2>2. toHost = <<>> /\ <<>> \in Seq(ToHost)
      BY DEF Init
    <2> QED BY <1>1, <2>1, <2>2 DEF Wires
  <1>3. PlainTypes
    BY DEF Init, PlainTypes, State, Stage, Trusted, Key, Link
  <1>4. Flags
    BY DEF Init, Flags
  <1>5. Numbers
    BY DEF Init, Numbers
  <1>6. Honest
    BY <1>1 DEF Init, Honest, Verified, In
  <1>7. Heeds /\ Agrees
    BY DEF Init, Heeds, Agrees
  <1>8. Together /\ Trusts
    BY DEF Init, Together, Trusts, NeverStranded, AwakeWhileStreaming, SavedIsPersisted,
           ConfiguredIsProved
  <1> QED BY <1>2, <1>3, <1>4, <1>5, <1>6, <1>7, <1>8 DEF CInv

LEMMA CInvStep == CInv /\ [Next]_vars => CInv'
  <1> SUFFICES ASSUME CInv, [Next]_vars PROVE CInv'
    OBVIOUS
  <1>1. CASE Host \/ LinkFails BY <1>1, HostStep
  <1>2. CASE OnItsOwn BY <1>2, ActsStep
  <1>3. CASE \E c \in Link : Receive(c) BY <1>3, ReceiveStep
  <1>4. CASE UNCHANGED vars
    <2>1. Acts
      <3>1. UNCHANGED <<pairVars, netVars, hostVars, link, links, session, certificate>>
            /\ graceful' \subseteq graceful /\ state' = state
            /\ reconnectAttempt' = reconnectAttempt
        BY <1>4 DEF vars, clientVars, linkVars, uiVars
      <3> QED BY <3>1, QuietActs
    <2>2. Flags' /\ Together' /\ Len(toHost') <= MaxWire
      BY <1>4 DEF CInv, Flags, Together, NeverStranded, AwakeWhileStreaming, vars, clientVars,
                  linkVars, uiVars, taskVars, pairVars, hostVars, authVars, netVars
    <2> QED BY <2>1, <2>2, ActsTypes, ActsKeeps DEF CInv
  <1> QED BY <1>1, <1>2, <1>3, <1>4 DEF Next, Client, OnItsOwn

\* The invariant by which iPad and host agree on every link.
THEOREM ClientInvariant == Safety => []CInv
  <1>1. Init => CInv BY CInvInit
  <1>2. CInv /\ [Next]_vars => CInv' BY CInvStep
  <1> QED BY <1>1, <1>2, PTL DEF Safety

\* What the iPad trusts was on the host's disk before, and a session is configured only
\* on a link that the host has verified: authenticate() and SessionModel.pair(), for any
\* number of connections, crashes and identities.
THEOREM TrustIsProved == Safety => []TrustInv
  <1>1. CInv => TrustInv
    <2> SUFFICES ASSUME CInv PROVE TrustInv
      OBVIOUS
    <2>1. \A c \in Link : Len(toClient[c]) <= MaxWire + 1
      <3>1. \A c \in Link : toClient[c] \in Seq(ToClient)
        BY DEF CInv, Wires
      <3>2. \A c \in Link : Len(toClient[c]) \in Nat
        BY <3>1, LenProperties
      <3> QED BY <3>2, ClientAssumption DEF CInv, Wires
    <2>2. TypeOK
      BY <2>1 DEF CInv, PlainTypes, Flags, TypeOK
    <2> QED BY <2>2 DEF CInv, Trusts, TrustInv
  <1> QED BY <1>1, ClientInvariant, PTL

\* Whoever wants a connection has a stream, or a task that ends the wait: failed(),
\* open() and the tasks they leave behind, in any order.
THEOREM SomethingIsUnderWay == Safety => []NeverStranded
  <1>1. CInv => NeverStranded BY DEF CInv, Together
  <1> QED BY <1>1, ClientInvariant, PTL

\* The iPad stays awake with a stream, and for no longer than an attempt without one:
\* SessionModel's idle timer and tick timer.
THEOREM AwakeForAReason == Safety => []AwakeWhileStreaming
  <1>1. CInv => AwakeWhileStreaming BY DEF CInv, Together
  <1> QED BY <1>1, ClientInvariant, PTL

\* A confirmation leaves its channel only by being taken.
LEMMA ConfirmIsTaken ==
  ASSUME CInv, Next, link # 0, toClient[link] # <<>>,
         toClient'[link] # toClient[link], toClient'[link] = Tail(toClient[link]),
         Head(toClient[link]).kind = "confirm"
  PROVE  Receive(link)
  <1>1. /\ link \in Link /\ toClient[link] \in Seq(ToClient) /\ Sorted(toClient[link])
    BY DEF CInv, PlainTypes, Wires, Link
  <1>2. ~OnItsOwn
    <2>1. Acts => UNCHANGED toClient BY DEF Acts
    <2> QED BY <2>1, AllActs
  <1>3. ~(Host \/ LinkFails)
    <2> SUFFICES ASSUME Host \/ LinkFails PROVE FALSE
      OBVIOUS
    <2>1. PICK c \in Link, m \in ToClient : Adds(c, m)
      BY AllServe DEF Serves, Added
    <2>2. /\ Failing \notin In(toClient[link]) /\ toClient'[link] # <<>>
          /\ \/ Head(toClient'[link]) = Head(toClient[link])
             \/ m = Failing /\ Head(toClient'[link]) = m
      BY <1>1, <2>1 DEF Adds
    <2>3. /\ Tail(toClient[link]) \in Seq(ToClient)
          /\ In(Tail(toClient[link])) \subseteq In(toClient[link])
          /\ \A e \in In(Tail(toClient[link])) : Before(Head(toClient[link]), e)
          /\ Head(toClient[link]) \in ToClient
      BY <1>1, TailIn
    <2>4. Head(Tail(toClient[link])) \in In(Tail(toClient[link]))
      BY <2>2, <2>3, TailIn
    <2>5. Before(Head(toClient[link]), Head(toClient[link]))
      BY <2>2, <2>3, <2>4
    <2>6. Rank(Head(toClient[link])) = 2
      BY <2>3, Ranks
    <2> QED BY <2>5, <2>6 DEF Before
  <1>4. PICK c \in Link : Receive(c)
    BY <1>2, <1>3 DEF Next, Client, OnItsOwn
  <1>5. c = link
    <2>1. toClient' = [toClient EXCEPT ![c] = Tail(@)]
      BY <1>4 DEF Receive
    <2> QED BY <1>1, <2>1 DEF CInv, Wires
  <1> QED BY <1>4, <1>5

\* A host that knows the iPad and answers its proof is believed, whatever pairing was
\* begun on earlier links: pairingNew, the nonce and the key are those of this link.
THEOREM KnownHostBelieved == Safety => KnownHostConfirms
  <1> DEFINE Believed ==
        \A c \in Link :
          (/\ link = c /\ toClient'[c] # toClient[c] /\ toClient[c] # <<>>
           /\ toClient'[c] = Tail(toClient[c]) /\ Head(toClient[c]).kind = "confirm"
           /\ Head(toClient[c]).key = pairKey /\ Head(toClient[c]).secret = 0)
          => configured'
  <1>1. CInv /\ [Next]_vars => [Believed]_vars
    <2> SUFFICES ASSUME CInv, Next, NEW c \in Link,
                        link = c, toClient'[c] # toClient[c], toClient[c] # <<>>,
                        toClient'[c] = Tail(toClient[c]),
                        Head(toClient[c]).kind = "confirm",
                        Head(toClient[c]).key = pairKey, Head(toClient[c]).secret = 0
                 PROVE  configured'
      OBVIOUS
    <2> DEFINE m == Head(toClient[link])
    <2>1. link # 0 /\ Receive(link)
      BY ConfirmIsTaken DEF Link
    <2>2. /\ m \in ToClient /\ m \in In(toClient[link])
      BY TailIn DEF CInv, Wires
    <2>3. m.kind = "confirm" /\ m.key = pairKey /\ m.secret = 0
      OBVIOUS
    <2>4. Packet(m)
      BY <2>1 DEF Receive, Current
    <2> HIDE DEF m
    <2>5. m.session = 0 /\ Rank(m) = 2
      BY <2>2, <2>3, Kinds, Ranks
    <2>6. session = 0
      <3>1. ~Beyond(3) BY <2>2, <2>3, <2>5 DEF Beyond
      <3> QED BY <2>1, <3>1 DEF CInv, Heeds
    <2>7. m.nonce = nonce /\ ~pairingNew
      BY <2>1, <2>2, <2>3 DEF CInv, Honest, Agrees
    <2>8. ~Refuted(m) /\ ~Replayed(m)
      BY <2>3, <2>5, <2>6, <2>7 DEF Refuted, Replayed
    <2>9. Confirm(m)
      BY <2>3, <2>4, <2>8 DEF Packet
    <2> QED BY <2>7, <2>8, <2>9 DEF Confirm
  <1>2. Safety => [][Believed]_vars
    BY <1>1, ClientInvariant, PTL DEF Safety
  <1> QED BY <1>2 DEF KnownHostConfirms
=============================================================================
