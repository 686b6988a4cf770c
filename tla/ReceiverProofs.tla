----------------------------- MODULE ReceiverProofs -----------------------------
(***************************************************************************)
(* What VideoReceiver promises for any number of frames, fragments and     *)
(* generations and any delays: the decoder's account of itself is exact,   *)
(* no frame reaches VideoToolbox without its reference, and none comes     *)
(* back.                                                                   *)
(***************************************************************************)
EXTENDS VideoReceiver, FiniteSetTheorems, WellFoundedInduction, TLAPS

\* The encoder's generations only grow, and the iPad has nothing that was not sent.
SentInOrder ==
  /\ \A f, g \in Frame : (f <= g /\ g <= sent) => generationOf[f] <= generationOf[g]
  /\ \A f \in Frame : f <= sent => generationOf[f] <= encoderGeneration
  /\ last <= sent /\ submitted <= sent

\* What is being assembled is of this generation and comes after what was handed on.
AssembledLater ==
  \A f \in Frame : parts[f] # {} => f <= sent /\ f > last /\ generationOf[f] = streamGeneration

\* The last frame submitted is of this generation, then it is not ahead of the
\* assembler, or of an earlier one.
SubmittedBefore ==
  submitted # 0 =>
    \/ generationOf[submitted] < streamGeneration
    \/ generationOf[submitted] = streamGeneration /\ submitted <= last

PendingBefore == \A f \in pending : f <= last

\* A decoder that goes on decoding was given the frame handed on last.
DecodesLast == ~waitingForIDR => last = submitted /\ last # 0

RInv ==
  /\ DecoderInv
  /\ SentInOrder /\ AssembledLater /\ SubmittedBefore /\ PendingBefore /\ DecodesLast
-----------------------------------------------------------------------------
(* Operators.                                                              *)

\* A set of numbers that is not empty has its minimum.
LEMMA MinOfSet ==
  ASSUME NEW S \in SUBSET Nat, S # {}
  PROVE  Min(S) \in S /\ \A y \in S : Min(S) <= y
<1>1. PICK x \in S : \A y \in S : ~(<<y, x>> \in OpToRel(<, Nat))
  BY NatLessThanWellFounded, WFMin, Zenon
<1>2. \A y \in S : x <= y
  <2> TAKE y \in S
  <2>1. x \in Nat /\ y \in Nat
    OBVIOUS
  <2>2. ~(y < x)
    BY <1>1, <2>1 DEF OpToRel
  <2> QED BY <2>1, <2>2
<1> QED BY <1>2 DEF Min

\* next() hands on a complete frame, which is no IDR only if it follows the last one.
LEMMA FirstFrame ==
  ASSUME RInv, step = "consume", Complete # {}
  PROVE  /\ First \in Frame /\ parts[First] # {}
         /\ First <= sent /\ First > last /\ generationOf[First] = streamGeneration
         /\ ~Undecodable => keyframe[First] \/ last = 0 \/ First = last + 1
<1>1. Complete \subseteq Frame /\ Frame \subseteq Nat
  BY DEF Complete, Assembling, Frame
<1>2. First \in Complete
  BY <1>1, MinOfSet DEF First
<1>3. First \in Frame /\ parts[First] # {}
  BY <1>2 DEF Complete, Assembling
<1> QED BY <1>3 DEF RInv, AssembledLater, Undecodable, Gap

\* A frame that is handed on comes after all that were submitted.
LEMMA HandedOnLater ==
  ASSUME RInv, NEW f \in Frame, HandOn(f)
  PROVE  /\ f <= sent /\ f > last /\ generationOf[f] = streamGeneration /\ f > submitted
         /\ f \notin pending
         /\ ~waitingForIDR => keyframe[f] \/ f = submitted + 1
<1>1. /\ f = First /\ f <= sent /\ f > last /\ generationOf[f] = streamGeneration
      /\ keyframe[f] \/ last = 0 \/ f = last + 1
  BY FirstFrame DEF HandOn
<1>2. f \in Nat /\ last \in Nat /\ submitted \in Nat /\ streamGeneration \in Nat /\ sent \in Nat
  BY ReceiverAssumption DEF RInv, DecoderInv, TypeOK, Frame
<1>3. f > submitted
  <2> SUFFICES ASSUME submitted # 0, f <= submitted PROVE FALSE
    BY <1>2 DEF Frame
  <2>1. submitted \in Frame /\ submitted <= sent
    BY <1>2, ReceiverAssumption DEF RInv, DecoderInv, TypeOK, SentInOrder, Frame
  <2>2. generationOf[f] <= generationOf[submitted]
    BY <2>1 DEF RInv, SentInOrder
  <2>3. generationOf[submitted] \in Nat
    BY <2>1, ReceiverAssumption DEF RInv, DecoderInv, TypeOK
  <2>4. generationOf[submitted] < streamGeneration \/ submitted <= last
    BY DEF RInv, SubmittedBefore
  <2> QED BY <1>1, <1>2, <2>2, <2>3, <2>4
<1>4. f \notin pending
  BY <1>1, <1>2 DEF RInv, PendingBefore
<1> QED BY <1>1, <1>3, <1>4 DEF RInv, DecodesLast
-----------------------------------------------------------------------------
(* Steps.                                                                  *)

LEMMA InitHolds == Init => RInv
<1> SUFFICES ASSUME Init PROVE RInv
  OBVIOUS
<1>0. /\ requestSent \in BOOLEAN /\ requiresKeyframe \in BOOLEAN /\ waitingForIDR \in BOOLEAN
      /\ session \in BOOLEAN
  BY Zenon DEF Init
<1>1. TypeOK
  BY <1>0, ReceiverAssumption DEF Init, TypeOK
<1>2. InFlightExact
  BY FS_EmptySet DEF Init, InFlightExact
<1> QED
  BY <1>1, <1>2, ReceiverAssumption DEF Init, RInv, DecoderInv, DecodingHasSession, SentInOrder,
     AssembledLater, SubmittedBefore, PendingBefore, DecodesLast, Frame

\* Without(gone) drops assemblies and adds nothing.
LEMMA RemoveTypes ==
  ASSUME TypeOK, NEW gone, Remove(gone)
  PROVE  /\ parts' \in [Frame -> SUBSET Fragment] /\ age' \in [Frame -> 0..(Hold + 1)]
         /\ \A f \in Frame : parts'[f] # {} => f \notin gone /\ parts[f] # {}
BY ReceiverAssumption DEF TypeOK, Remove, Without, Ages

LEMMA RequestTypes ==
  ASSUME TypeOK, RequestKeyframe
  PROVE  quiet' \in 0..RequestQuiet /\ requestSent' \in BOOLEAN
<1>1. quiet' \in 0..RequestQuiet
  BY ReceiverAssumption DEF TypeOK, RequestKeyframe, wishVars
<1>2. requestSent' \in BOOLEAN
  BY Zenon DEF TypeOK, RequestKeyframe, wishVars
<1> QED BY <1>1, <1>2

\* The host's side.
LEMMA HostStep == RInv /\ (Encode \/ NewEncoder \/ HostHears) => RInv'
<1> SUFFICES ASSUME RInv, Encode \/ NewEncoder \/ HostHears PROVE RInv'
  OBVIOUS
<1> USE ReceiverAssumption DEF RInv, DecoderInv
<1>1. CASE Encode
  <2>0. /\ sent' \in 0..MaxFrame /\ keyframe' \in [Frame -> BOOLEAN]
        /\ generationOf' \in [Frame -> 0..MaxStreams]
    BY <1>1 DEF Encode, TypeOK, Frame
  <2>1. TypeOK'
    BY <1>1, <2>0 DEF Encode, TypeOK, wishVars, assemblerVars, decoderVars
  <2>2. \A f \in Frame : f <= sent => generationOf'[f] = generationOf[f]
    BY <1>1 DEF Encode, TypeOK, Frame
  <2>3. sent' = sent + 1 /\ sent + 1 \in Frame /\ generationOf'[sent + 1] = encoderGeneration
    BY <1>1 DEF Encode, TypeOK, Frame
  <2>4. /\ UNCHANGED <<encoderGeneration, streamGeneration, last, submitted, parts, pending,
                       waitingForIDR, session, inFlight>>
    BY <1>1 DEF Encode, assemblerVars, decoderVars
  <2>5. SentInOrder'
    <3>1. \A f \in Frame : f <= sent' => f <= sent \/ f = sent + 1
      BY <2>3 DEF TypeOK, Frame
    <3>2. ASSUME NEW f \in Frame, NEW g \in Frame, f <= g, g <= sent'
          PROVE  generationOf'[f] <= generationOf'[g]
      <4>1. CASE g <= sent
        <5>1. f <= sent
          BY <3>2, <4>1 DEF TypeOK, Frame
        <5> QED BY <2>2, <3>2, <4>1, <5>1 DEF SentInOrder
      <4>2. CASE g = sent + 1
        <5>1. f <= sent \/ f = sent + 1
          BY <2>3, <3>2, <4>2 DEF Frame, TypeOK
        <5> QED BY <2>2, <2>3, <4>2, <5>1 DEF SentInOrder, TypeOK
      <4> QED BY <3>1, <3>2, <4>1, <4>2
    <3> QED
      BY <2>2, <2>3, <2>4, <3>1, <3>2 DEF SentInOrder, TypeOK, Frame
  <2>6. AssembledLater'
    BY <2>2, <2>3, <2>4 DEF AssembledLater, TypeOK, Frame
  <2>7. SubmittedBefore'
    <3>1. submitted # 0 => submitted \in Frame
      BY DEF TypeOK, Frame
    <3> QED BY <2>2, <2>4, <3>1 DEF SubmittedBefore, SentInOrder
  <2> QED
    BY <2>1, <2>4, <2>5, <2>6, <2>7 DEF InFlightExact, DecodingHasSession, PendingBefore,
       DecodesLast
<1>2. CASE NewEncoder \/ HostHears
  <2>0. encoderGeneration' \in 0..MaxStreams
    BY <1>2 DEF NewEncoder, HostHears, hostVars, TypeOK
  <2>01. requestSent' \in BOOLEAN /\ quiet' \in 0..RequestQuiet
    BY <1>2 DEF NewEncoder, HostHears, wishVars, TypeOK
  <2>1. TypeOK'
    BY <1>2, <2>0, <2>01 DEF NewEncoder, HostHears, TypeOK, wishVars, assemblerVars, decoderVars, hostVars
  <2>2. /\ UNCHANGED <<sent, generationOf, streamGeneration, last, submitted, parts, pending,
                       waitingForIDR, session, inFlight>>
        /\ encoderGeneration' = encoderGeneration \/ encoderGeneration' = encoderGeneration + 1
    BY <1>2 DEF NewEncoder, HostHears, hostVars, assemblerVars, decoderVars
  <2>3. \A f \in Frame : f <= sent => generationOf[f] <= encoderGeneration'
    BY <2>2 DEF SentInOrder, TypeOK, Frame
  <2> QED
    BY <2>1, <2>2, <2>3 DEF SentInOrder, AssembledLater, SubmittedBefore, InFlightExact,
       DecodingHasSession, PendingBefore, DecodesLast
<1> QED BY <1>1, <1>2

\* The assembler: what it gives up or takes in leaves order and decoder alone.
LEMMA AssemblerStep ==
  ASSUME RInv, \/ \E f \in Frame, i \in Fragment : Datagram(f, i)
               \/ Timer \/ Skip \/ Consumed \/ Tick
  PROVE  RInv'
<1> USE ReceiverAssumption DEF RInv, DecoderInv
<1>1. ASSUME NEW f \in Frame, NEW i \in Fragment, Datagram(f, i) PROVE TypeOK' /\ AssembledLater'
  <2> DEFINE gone == Stale \cup Evicted(f)
  <2>1. CASE f <= last
    <3>1. Remove(Stale)
      BY <1>1, <2>1 DEF Datagram, Expire
    <3> QED
      BY <1>1, <2>1, <3>1, RemoveTypes DEF Datagram, Expire, Lose, TypeOK, AssembledLater,
         hostVars, wishVars, decoderVars
  <2>2. CASE ~(f <= last)
    <3>1. /\ parts' = [Without(gone) EXCEPT ![f] = @ \cup {i}] /\ age' = Ages(gone) /\ Lose(gone)
          /\ f <= sent /\ generationOf[f] = streamGeneration
          /\ step' = "consume"
          /\ UNCHANGED <<hostVars, streamGeneration, wishVars, last, decoderVars>>
      BY <1>1, <2>2 DEF Datagram, OfGeneration
    <3>2. /\ parts' \in [Frame -> SUBSET Fragment]
          /\ \A g \in Frame : parts'[g] # {} => g = f \/ parts[g] # {}
      BY <3>1 DEF Without, TypeOK
    <3>3. age' \in [Frame -> 0..(Hold + 1)] /\ requiresKeyframe' \in BOOLEAN
      BY <3>1 DEF Ages, Lose, TypeOK
    <3>4. f > last
      BY <2>2 DEF TypeOK, Frame
    <3>5. AssembledLater'
      BY <3>1, <3>2, <3>4 DEF AssembledLater, hostVars
    <3> QED
      BY <3>1, <3>2, <3>3, <3>5 DEF TypeOK, hostVars, wishVars, decoderVars
  <2> QED BY <2>1, <2>2
<1>2. ASSUME Timer PROVE TypeOK' /\ AssembledLater'
  BY <1>2, RemoveTypes DEF Timer, Expire, Lose, TypeOK, AssembledLater, hostVars, wishVars,
     decoderVars
<1>3. ASSUME Skip PROVE TypeOK' /\ AssembledLater'
  BY <1>3, RemoveTypes DEF Skip, TypeOK, AssembledLater, hostVars, wishVars, decoderVars
<1>4. ASSUME Consumed PROVE TypeOK' /\ AssembledLater'
  BY <1>4, RequestTypes DEF Consumed, TypeOK, AssembledLater, hostVars, wishVars,
     assemblerVars, decoderVars
<1>5. ASSUME Tick PROVE TypeOK' /\ AssembledLater'
  <2>1. quiet' \in 0..RequestQuiet /\ age' \in [Frame -> 0..(Hold + 1)]
    BY <1>5 DEF Tick, TypeOK
  <2> QED BY <1>5, <2>1 DEF Tick, TypeOK, AssembledLater, hostVars, decoderVars
<1>6. UNCHANGED <<sent, generationOf, encoderGeneration, streamGeneration, last, inFlight, waitingForIDR,
                  session, pending, submitted>>
  BY DEF Datagram, Timer, Skip, Consumed, Tick, hostVars, assemblerVars, decoderVars
<1>7. TypeOK' /\ AssembledLater'
  BY <1>1, <1>2, <1>3, <1>4, <1>5
<1> QED
  BY <1>6, <1>7 DEF InFlightExact, DecodingHasSession, SentInOrder, SubmittedBefore,
     PendingBefore, DecodesLast

\* Frames in flight, and one more or less of them.
LEMMA InFlightFinite == RInv => IsFiniteSet(pending)
<1> SUFFICES ASSUME RInv PROVE IsFiniteSet(pending)
  OBVIOUS
<1>1. IsFiniteSet(Frame) /\ pending \in SUBSET Frame
  BY FS_Interval, ReceiverAssumption DEF RInv, DecoderInv, TypeOK, Frame
<1> QED BY <1>1, FS_Subset

\* The assembler's side of a frame that is handed on.
LEMMA HandOnStep ==
  ASSUME RInv, NEW f \in Frame, HandOn(f)
  PROVE  /\ last' = f /\ last' \in 0..MaxFrame /\ last' <= sent'
         /\ parts' \in [Frame -> SUBSET Fragment] /\ age' \in [Frame -> 0..(Hold + 1)]
         /\ requiresKeyframe' \in BOOLEAN
         /\ UNCHANGED <<hostVars, step, streamGeneration>>
         /\ AssembledLater'
<1> USE ReceiverAssumption DEF RInv, DecoderInv
<1>1. /\ last' = f /\ requiresKeyframe' = FALSE /\ Remove(1..f)
      /\ UNCHANGED <<hostVars, step, streamGeneration>>
  BY DEF HandOn
<1>2. f \in 0..MaxFrame /\ f <= sent
  BY HandedOnLater DEF Frame
<1>3. /\ parts' \in [Frame -> SUBSET Fragment] /\ age' \in [Frame -> 0..(Hold + 1)]
      /\ \A g \in Frame : parts'[g] # {} => g \notin 1..f /\ parts[g] # {}
  BY <1>1, RemoveTypes
<1>4. \A g \in Frame : g \notin 1..f => g > f
  BY DEF Frame
<1>5. AssembledLater'
  BY <1>1, <1>3, <1>4 DEF AssembledLater, hostVars
<1> QED BY <1>1, <1>2, <1>3, <1>5 DEF hostVars

\* decode() of the frame handed on.
LEMMA DecodeStep ==
  ASSUME RInv, NEW f \in Frame,
         DecodeBusy(f) \/ DecodeIgnores(f) \/ Decode(f) \/ DecodeConfigures(f) \/ DecodeThrows(f)
  PROVE  /\ RInv'
         /\ submitted' # submitted =>
              submitted' > submitted /\ (keyframe[submitted'] \/ submitted' = submitted + 1)
<1> USE ReceiverAssumption
<1>0. HandOn(f)
  BY DEF DecodeBusy, DecodeIgnores, Decode, DecodeConfigures, DecodeThrows
<1>1. /\ f <= sent /\ f > last /\ generationOf[f] = streamGeneration /\ f > submitted
      /\ f \notin pending
      /\ ~waitingForIDR => keyframe[f] \/ f = submitted + 1
  BY <1>0, HandedOnLater
<1>2. /\ last' = f /\ last' \in 0..MaxFrame /\ last' <= sent'
      /\ parts' \in [Frame -> SUBSET Fragment] /\ age' \in [Frame -> 0..(Hold + 1)]
      /\ requiresKeyframe' \in BOOLEAN
      /\ UNCHANGED <<hostVars, step, streamGeneration>>
      /\ AssembledLater'
  BY <1>0, HandOnStep
<1> DEFINE Account == inFlight' \in 0..2 /\ pending' \subseteq Frame /\ InFlightExact'
           Submits == submitted' = f /\ (keyframe[f] \/ ~waitingForIDR)
           Keeps   == submitted' = submitted
<1>3. inFlight \in 0..2 /\ pending \subseteq Frame /\ inFlight = Cardinality(pending)
      /\ f \in 1..MaxFrame /\ last \in Nat /\ sent \in Nat /\ submitted \in 0..MaxFrame
  BY DEF RInv, DecoderInv, TypeOK, InFlightExact, Frame
<1>4. /\ Account /\ PendingBefore' /\ DecodingHasSession' /\ DecodesLast'
      /\ waitingForIDR' \in BOOLEAN /\ session' \in BOOLEAN
      /\ quiet' \in 0..RequestQuiet /\ requestSent' \in BOOLEAN
      /\ Submits \/ Keeps
  <2>0. \A g \in pending : g <= f
    BY <1>1, <1>3 DEF RInv, PendingBefore, Frame
  <2>1. CASE DecodeBusy(f)
    <3>1. quiet' \in 0..RequestQuiet /\ requestSent' \in BOOLEAN
      BY <2>1, RequestTypes DEF DecodeBusy, RInv, DecoderInv
    <3>2. /\ waitingForIDR' = TRUE
          /\ UNCHANGED <<inFlight, session, pending, submitted>>
      BY <2>1 DEF DecodeBusy
    <3>3. session' \in BOOLEAN /\ waitingForIDR' \in BOOLEAN
      BY <3>2, Zenon DEF RInv, DecoderInv, TypeOK
    <3> QED
      BY <1>2, <1>3, <2>0, <3>1, <3>2, <3>3 DEF InFlightExact, PendingBefore, DecodingHasSession,
         DecodesLast
  <2>2. CASE DecodeIgnores(f)
    <3>1. waitingForIDR /\ UNCHANGED <<wishVars, decoderVars>>
      BY <2>2 DEF DecodeIgnores
    <3>2. /\ session' \in BOOLEAN /\ waitingForIDR' \in BOOLEAN /\ requestSent' \in BOOLEAN
          /\ quiet' \in 0..RequestQuiet
      BY <3>1, Zenon DEF RInv, DecoderInv, TypeOK, wishVars, decoderVars
    <3> QED
      BY <1>2, <1>3, <2>0, <3>1, <3>2 DEF InFlightExact, PendingBefore, DecodingHasSession,
         DecodesLast, decoderVars
  <2>3. CASE Decode(f)
    <3>1. /\ inFlight' = inFlight + 1 /\ pending' = pending \cup {f}
          /\ waitingForIDR' = FALSE /\ submitted' = f /\ session /\ ~Busy
          /\ ~waitingForIDR \/ keyframe[f]
          /\ UNCHANGED <<session, wishVars>>
      BY <2>3 DEF Decode
    <3>2. /\ session' \in BOOLEAN /\ waitingForIDR' \in BOOLEAN /\ requestSent' \in BOOLEAN
          /\ quiet' \in 0..RequestQuiet
      BY <3>1, Zenon DEF RInv, DecoderInv, TypeOK, wishVars
    <3>3. Cardinality(pending \cup {f}) = Cardinality(pending) + 1
      BY <1>1, FS_AddElement, InFlightFinite
    <3>4. Account
      BY <1>3, <3>1, <3>3 DEF InFlightExact, Busy
    <3> QED
      BY <1>2, <1>3, <2>0, <3>1, <3>2, <3>4 DEF PendingBefore, DecodingHasSession, DecodesLast
  <2>4. CASE DecodeConfigures(f)
    <3>1. /\ session' = TRUE /\ inFlight' = 1 /\ pending' = {f} /\ keyframe[f]
          /\ waitingForIDR' = FALSE /\ submitted' = f /\ UNCHANGED wishVars
      BY <2>4 DEF DecodeConfigures
    <3>2. requestSent' \in BOOLEAN /\ quiet' \in 0..RequestQuiet
      BY <3>1, Zenon DEF RInv, DecoderInv, TypeOK, wishVars
    <3>3. Account
      <4>1. Cardinality({f}) = 1
        BY FS_Singleton, Zenon
      <4>2. inFlight' = Cardinality(pending')
        BY <3>1, <4>1, Zenon
      <4>3. inFlight' \in 0..2 /\ pending' \subseteq Frame
        BY <1>3, <3>1
      <4> QED BY <4>2, <4>3 DEF InFlightExact
    <3>4. PendingBefore' /\ DecodingHasSession' /\ DecodesLast'
      BY <1>2, <1>3, <3>1 DEF PendingBefore, DecodingHasSession, DecodesLast
    <3>5. waitingForIDR' \in BOOLEAN /\ session' \in BOOLEAN
      BY <3>1, Zenon
    <3> QED
      BY <3>1, <3>2, <3>3, <3>4, <3>5
  <2>5. CASE DecodeThrows(f)
    <3>1. /\ session' = FALSE /\ inFlight' = 0 /\ pending' = {} /\ waitingForIDR' = TRUE
          /\ submitted' = submitted
      BY <2>5 DEF DecodeThrows, ResetDecoder
    <3>2. quiet' \in 0..RequestQuiet /\ requestSent' \in BOOLEAN
      BY <2>5, RequestTypes DEF DecodeThrows, RInv, DecoderInv
    <3>3. Account
      BY <3>1, FS_EmptySet DEF InFlightExact
    <3>4. waitingForIDR' \in BOOLEAN /\ session' \in BOOLEAN
      BY <3>1, Zenon
    <3> QED
      BY <3>1, <3>2, <3>3, <3>4 DEF PendingBefore, DecodingHasSession, DecodesLast
  <2> QED BY <2>1, <2>2, <2>3, <2>4, <2>5
<1>5. submitted' \in 0..MaxFrame /\ submitted' <= f /\ submitted' <= sent'
  BY <1>1, <1>2, <1>3, <1>4 DEF hostVars, RInv, SentInOrder
<1>6. TypeOK'
  BY <1>2, <1>4, <1>5 DEF RInv, DecoderInv, TypeOK, hostVars
<1>7. SentInOrder'
  BY <1>2, <1>5 DEF RInv, SentInOrder, hostVars
<1>8. SubmittedBefore'
  BY <1>1, <1>2, <1>3, <1>4, <1>5 DEF RInv, SubmittedBefore, hostVars
<1>9. submitted' # submitted =>
        submitted' > submitted /\ (keyframe[submitted'] \/ submitted' = submitted + 1)
  BY <1>1, <1>4
<1> QED BY <1>2, <1>4, <1>6, <1>7, <1>8, <1>9 DEF RInv, DecoderInv

LEMMA CallbackStep ==
  ASSUME RInv, NEW f \in Frame, Callback(f)
  PROVE  RInv' /\ submitted' = submitted
<1> USE ReceiverAssumption DEF RInv, DecoderInv
<1>1. /\ f \in pending /\ pending' = pending \ {f}
      /\ inFlight' = IF inFlight > 0 THEN inFlight - 1 ELSE 0
      /\ UNCHANGED <<hostVars, step, streamGeneration, assemblerVars, session, submitted>>
  BY DEF Callback
<1>0. waitingForIDR \in BOOLEAN
  BY DEF TypeOK
<1>2. waitingForIDR' \in BOOLEAN /\ (~waitingForIDR' => ~waitingForIDR)
  <2>1. waitingForIDR' = waitingForIDR \/ waitingForIDR' = TRUE
    BY Zenon DEF Callback
  <2> QED BY <1>0, <2>1, Zenon
<1>3. quiet' \in 0..RequestQuiet /\ requestSent' \in BOOLEAN
  <2>1. CASE RequestKeyframe
    BY <2>1, RequestTypes
  <2>2. CASE UNCHANGED wishVars
    BY <2>2 DEF wishVars, TypeOK
  <2> QED BY <2>1, <2>2 DEF Callback
<1>4. IsFiniteSet(pending) /\ inFlight = Cardinality(pending) /\ inFlight \in 0..2
  BY InFlightFinite DEF InFlightExact, TypeOK
<1>5. Cardinality(pending \ {f}) = Cardinality(pending) - 1 /\ Cardinality(pending \ {f}) \in Nat
  BY <1>1, <1>4, FS_RemoveElement, FS_CardinalityType
<1>6. inFlight' \in 0..2 /\ InFlightExact'
  BY <1>1, <1>4, <1>5 DEF InFlightExact
<1>7. TypeOK'
  BY <1>1, <1>2, <1>3, <1>6 DEF TypeOK, hostVars, assemblerVars
<1> QED
  BY <1>1, <1>2, <1>6, <1>7 DEF DecodingHasSession, SentInOrder, AssembledLater,
     SubmittedBefore, PendingBefore, DecodesLast, hostVars, assemblerVars

LEMMA VideoConfigStep ==
  ASSUME RInv, VideoConfig
  PROVE  RInv' /\ submitted' = submitted
<1> USE ReceiverAssumption DEF RInv, DecoderInv
<1>1. /\ streamGeneration < encoderGeneration /\ streamGeneration' = streamGeneration + 1
      /\ Remove(Frame) /\ last' = 0 /\ requiresKeyframe' = TRUE
      /\ session' = FALSE /\ inFlight' = 0 /\ pending' = {} /\ waitingForIDR' = TRUE
      /\ UNCHANGED <<hostVars, step, submitted>>
  BY DEF VideoConfig, ResetDecoder
<1>2. /\ parts' \in [Frame -> SUBSET Fragment] /\ age' \in [Frame -> 0..(Hold + 1)]
      /\ \A g \in Frame : parts'[g] = {}
  BY <1>1, RemoveTypes
<1>3. quiet' \in 0..RequestQuiet /\ requestSent' \in BOOLEAN
  BY RequestTypes DEF VideoConfig
<1>4. waitingForIDR' \in BOOLEAN /\ session' \in BOOLEAN /\ requiresKeyframe' \in BOOLEAN
  BY <1>1, Zenon
<1>5. streamGeneration' \in 0..MaxStreams
  BY <1>1 DEF TypeOK
<1>6. TypeOK'
  BY <1>1, <1>2, <1>3, <1>4, <1>5 DEF TypeOK, hostVars
<1>7. InFlightExact' /\ DecodingHasSession' /\ PendingBefore' /\ DecodesLast'
  BY <1>1, FS_EmptySet DEF InFlightExact, DecodingHasSession, PendingBefore, DecodesLast
<1>8. SentInOrder' /\ AssembledLater'
  BY <1>1, <1>2 DEF SentInOrder, AssembledLater, hostVars, TypeOK
<1>9. SubmittedBefore'
  <2>1. submitted # 0 => generationOf[submitted] \in Nat /\ streamGeneration \in Nat
    BY DEF TypeOK, Frame
  <2> QED BY <1>1, <2>1 DEF SubmittedBefore, hostVars
<1> QED BY <1>1, <1>6, <1>7, <1>8, <1>9

\* The invariant is kept, and what VideoToolbox is given comes later than what it was
\* given before and is an IDR or the next.
LEMMA StepHolds ==
  ASSUME RInv, [Next]_vars
  PROVE  /\ RInv'
         /\ submitted' # submitted =>
              submitted' > submitted /\ (keyframe[submitted'] \/ submitted' = submitted + 1)
<1>1. CASE Encode \/ NewEncoder \/ HostHears
  BY <1>1, HostStep DEF Encode, NewEncoder, HostHears, decoderVars
<1>2. CASE (\E f \in Frame, i \in Fragment : Datagram(f, i)) \/ Timer \/ Skip \/ Consumed \/ Tick
  <2>1. submitted' = submitted
    BY <1>2 DEF Datagram, Timer, Skip, Consumed, Tick, decoderVars
  <2>2. RInv'
    BY <1>2, AssemblerStep, Zenon
  <2> QED BY <2>1, <2>2
<1>3. CASE HandingOn
  BY <1>3, DecodeStep DEF HandingOn
<1>4. CASE \E f \in Frame : Callback(f)
  BY <1>4, CallbackStep, Zenon
<1>5. CASE VideoConfig
  BY <1>5, VideoConfigStep, Zenon
<1>6. CASE UNCHANGED vars
  BY <1>6 DEF RInv, DecoderInv, TypeOK, InFlightExact, DecodingHasSession, SentInOrder,
     AssembledLater, SubmittedBefore, PendingBefore, DecodesLast, vars, hostVars, wishVars,
     assemblerVars, decoderVars
<1> QED BY <1>1, <1>2, <1>3, <1>4, <1>5, <1>6 DEF Next, Consume
-----------------------------------------------------------------------------
(* Theorems.                                                               *)

LEMMA Invariance == Safety => []RInv
<1>1. RInv /\ [Next]_vars => RInv'
  BY StepHolds
<1> QED BY InitHolds, <1>1, PTL DEF Safety

\* Whatever the network loses, the assembler gives up and the decoder refuses or fails
\* at: the count of frames in flight is that of the current epoch's frames, and a
\* decoder that does not wait for an IDR has a session.
THEOREM AccountIsExact == Safety => []DecoderInv
<1>1. RInv => DecoderInv
  BY DEF RInv
<1> QED BY <1>1, Invariance, PTL

\* VideoToolbox never gets a frame without its reference.
THEOREM ReferencesKept == Safety => ReferencesIntact
<1>1. RInv /\ [Next]_vars =>
        [submitted' # submitted => (keyframe[submitted'] \/ submitted' = submitted + 1)]_vars
  BY StepHolds
<1> QED BY <1>1, Invariance, PTL DEF Safety, ReferencesIntact

\* No late or repeated datagram brings an earlier frame back.
THEOREM OnlyForwards == Safety => NeverBackwards
<1>1. RInv /\ [Next]_vars => [submitted' >= submitted]_vars
  <2> SUFFICES ASSUME RInv, [Next]_vars PROVE submitted' >= submitted
    OBVIOUS
  <2>1. submitted \in Nat /\ submitted' \in Nat
    BY StepHolds, ReceiverAssumption DEF RInv, DecoderInv, TypeOK
  <2> QED BY <2>1, StepHolds
<1> QED BY <1>1, Invariance, PTL DEF Safety, NeverBackwards
=============================================================================
