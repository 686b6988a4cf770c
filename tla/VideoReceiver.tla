----------------------------- MODULE VideoReceiver -----------------------------
(***************************************************************************)
(* The iPad's receiving end of the video: FrameAssembler.swift,            *)
(* H264Decoder.swift and the parts of SessionModel.swift that drive them.  *)
(*                                                                         *)
(* The host numbers what its encoder puts out and sends every frame as     *)
(* QUIC datagrams, which the network may lose, repeat and reorder.  All    *)
(* receiving code runs on the main actor, so a datagram, a timer tick, a   *)
(* decoder callback and a VideoConfig each run to their end.  The loop of  *)
(* consumeFrames() is taken one frame at a time, with step = "consume".    *)
(*                                                                         *)
(* Fragments of an honest host agree with each other, so the checks that   *)
(* throw WireError never fail here.                                        *)
(***************************************************************************)
EXTENDS Naturals, FiniteSets, FiniteSetsExt

CONSTANTS MaxFrame,       \* bound: frames the encoder puts out
          MaxStreams,     \* bound: VideoConfigs
          Count,          \* fragments of a frame
          Wait,           \* the 8 ms for reordering, in ticks
          Hold,           \* the 40 ms of an assembly, in ticks
          RequestQuiet    \* the 200 ms between keyframe requests, in ticks

ASSUME ReceiverAssumption ==
  /\ MaxFrame \in Nat /\ MaxStreams \in Nat
  /\ Count \in Nat \ {0}
  /\ Wait \in Nat /\ Hold \in Nat /\ Wait <= Hold
  /\ RequestQuiet \in Nat

VARIABLES
  \* the host: frames put out so far, which of them are IDRs, their generations
  sent, keyframe, generationOf, encoderGeneration,
  \* SessionModel
  step, streamGeneration, quiet,
  requestSent,        \* a KeyframeRequest is on its way
  \* FrameAssembler: fragments and age of each assembly
  parts, age, last, requiresKeyframe,
  \* H264Decoder
  inFlight, waitingForIDR,
  session,            \* a decompression session exists
  pending,            \* frames whose callback carries the current epoch
  submitted           \* history: the last frame VideoToolbox was given

hostVars      == <<sent, keyframe, generationOf, encoderGeneration>>
wishVars      == <<quiet, requestSent>>
assemblerVars == <<parts, age, last, requiresKeyframe>>
decoderVars   == <<inFlight, waitingForIDR, session, pending, submitted>>
vars == <<hostVars, step, streamGeneration, wishVars, assemblerVars, decoderVars>>

Frame    == 1..MaxFrame
Fragment == 1..Count

TypeOK ==
  /\ sent \in 0..MaxFrame /\ keyframe \in [Frame -> BOOLEAN]
  /\ generationOf \in [Frame -> 0..MaxStreams]
  /\ encoderGeneration \in 0..MaxStreams /\ streamGeneration \in 0..MaxStreams
  /\ step \in {"idle", "consume"}
  /\ quiet \in 0..RequestQuiet /\ requestSent \in BOOLEAN
  /\ parts \in [Frame -> SUBSET Fragment] /\ age \in [Frame -> 0..(Hold + 1)]
  /\ last \in 0..MaxFrame /\ requiresKeyframe \in BOOLEAN
  /\ inFlight \in 0..2 /\ waitingForIDR \in BOOLEAN /\ session \in BOOLEAN
  /\ pending \subseteq Frame /\ submitted \in 0..MaxFrame

Init ==
  /\ sent = 0 /\ keyframe = [f \in Frame |-> FALSE]
  /\ generationOf = [f \in Frame |-> 0] /\ encoderGeneration = 0
  /\ step = "idle" /\ streamGeneration = 0 /\ quiet = 0 /\ requestSent = FALSE
  /\ parts = [f \in Frame |-> {}] /\ age = [f \in Frame |-> 0]
  /\ last = 0 /\ requiresKeyframe = TRUE
  /\ inFlight = 0 /\ waitingForIDR = TRUE /\ session = FALSE
  /\ pending = {} /\ submitted = 0
-----------------------------------------------------------------------------
(* The host, as far as the receiver can tell.                              *)

\* The worker numbers one more output of its encoder.
Encode ==
  /\ sent < MaxFrame /\ encoderGeneration > 0
  /\ sent' = sent + 1
  /\ \E k \in BOOLEAN : keyframe' = [keyframe EXCEPT ![sent + 1] = k]
  /\ generationOf' = [generationOf EXCEPT ![sent + 1] = encoderGeneration]
  /\ UNCHANGED <<encoderGeneration, step, streamGeneration, wishVars, assemblerVars, decoderVars>>

\* A new encoder: its frames belong to a new generation, VideoConfig announces it.
NewEncoder ==
  /\ encoderGeneration < MaxStreams /\ encoderGeneration' = encoderGeneration + 1
  /\ UNCHANGED <<sent, keyframe, generationOf, step, streamGeneration, wishVars,
                 assemblerVars, decoderVars>>

\* The KeyframeRequest arrives.
HostHears ==
  /\ requestSent /\ requestSent' = FALSE
  /\ UNCHANGED <<hostVars, step, streamGeneration, quiet, assemblerVars, decoderVars>>
-----------------------------------------------------------------------------
(* Asking for an IDR: at most once per 200 ms, later wishes are dropped.   *)

\* Mutant: every wish restarts the 200 ms.
RequestKeyframeRestarts ==
  /\ requestSent' = (requestSent \/ quiet = 0)
  /\ quiet' = RequestQuiet

RequestKeyframe ==
  IF quiet = 0 THEN requestSent' = TRUE /\ quiet' = RequestQuiet ELSE UNCHANGED wishVars
-----------------------------------------------------------------------------
(* The assembler.                                                          *)

Assembling == {f \in Frame : parts[f] # {}}
Complete   == {f \in Assembling : parts[f] = Fragment}
Stale      == {f \in Assembling : age[f] > Hold}

\* Assemblies without the frames of gone; losing any of them needs an IDR.
Without(gone) == [f \in Frame |-> IF f \in gone THEN {} ELSE parts[f]]
Ages(gone)    == [f \in Frame |-> IF f \in gone THEN 0 ELSE age[f]]
Remove(gone)  == parts' = Without(gone) /\ age' = Ages(gone)
Lose(gone)    == requiresKeyframe' = (requiresKeyframe \/ gone # {})

\* A fragment for a third assembly discards the oldest of two.
Evicted(f) ==
  LET live == Assembling \ Stale IN
  IF f \notin live /\ Cardinality(live) >= 2 THEN {Min(live)} ELSE {}

\* Mutant: only a fragment of a new frame gives up old ones.
ExpireNothing == UNCHANGED <<parts, age, requiresKeyframe>>

\* What consumeFrames() starts with: assemblies that waited too long are given up.
Expire == Remove(Stale) /\ Lose(Stale)

\* Mutant: fragments of any generation are taken.
AnyGeneration(f) == streamGeneration > 0
OfGeneration(f)  == streamGeneration > 0 /\ generationOf[f] = streamGeneration

\* datagram(): a fragment of this generation is ingested, unless its frame has
\* been handed on.
Datagram(f, i) ==
  LET gone == Stale \cup Evicted(f) IN
  /\ step = "idle" /\ f <= sent /\ OfGeneration(f)
  /\ IF f <= last
     THEN Expire
     ELSE /\ parts' = [Without(gone) EXCEPT ![f] = @ \cup {i}]
          /\ age' = Ages(gone) /\ Lose(gone)
  /\ step' = "consume"
  /\ UNCHANGED <<hostVars, streamGeneration, wishVars, last, decoderVars>>

\* The 10 ms timer.
Timer ==
  /\ step = "idle" /\ streamGeneration > 0
  /\ Expire /\ step' = "consume"
  /\ UNCHANGED <<hostVars, streamGeneration, wishVars, last, decoderVars>>

\* next(): the oldest complete frame, whether it comes after a gap, and whether
\* what is missing may still arrive.
First == Min(Complete)
Gap   == last # 0 /\ First # last + 1
Waits == Gap /\ ~keyframe[First] /\ age[First] < Wait
\* Mutant: a gap alone is no loss.
UndecodableIfLost == requiresKeyframe /\ ~keyframe[First]
Undecodable == (requiresKeyframe \/ Gap) /\ ~keyframe[First]

Skip ==
  /\ step = "consume" /\ Complete # {} /\ ~Waits /\ Undecodable
  /\ Remove({First}) /\ requiresKeyframe' = TRUE
  /\ UNCHANGED <<hostVars, step, streamGeneration, wishVars, last, decoderVars>>

\* Nothing more to hand on: consumeFrames() ends, asking for an IDR if need be.
Consumed ==
  /\ step = "consume" /\ (Complete # {} => Waits)
  /\ step' = "idle"
  /\ IF requiresKeyframe THEN RequestKeyframe ELSE UNCHANGED wishVars
  /\ UNCHANGED <<hostVars, streamGeneration, assemblerVars, decoderVars>>

\* next() returns a frame; older assemblies go with it.
HandOn(f) ==
  /\ step = "consume" /\ Complete # {} /\ f = First /\ ~Waits /\ ~Undecodable
  /\ Remove(1..f) /\ last' = f /\ requiresKeyframe' = FALSE
  /\ UNCHANGED <<hostVars, step, streamGeneration>>
-----------------------------------------------------------------------------
(* The decoder: decode() of the frame handed on.  Its branch for a frame   *)
(* without IDR, session and wait is not modelled: DecodingHasSession.      *)

\* Mutant: the count of the old epoch stays.
ResetKeepsCount ==
  /\ session' = FALSE /\ pending' = {} /\ waitingForIDR' = TRUE /\ UNCHANGED inFlight

ResetDecoder ==
  /\ session' = FALSE /\ inFlight' = 0 /\ pending' = {} /\ waitingForIDR' = TRUE

Busy == inFlight >= 2

\* Two frames are in flight already.
DecodeBusy(f) ==
  /\ HandOn(f) /\ Busy
  /\ waitingForIDR' = TRUE /\ RequestKeyframe
  /\ UNCHANGED <<inFlight, session, pending, submitted>>

DecodeIgnores(f) ==
  /\ HandOn(f) /\ ~Busy /\ waitingForIDR /\ ~keyframe[f]
  /\ UNCHANGED <<wishVars, decoderVars>>

\* A session exists and the parameter sets are the same.
Decode(f) ==
  /\ HandOn(f) /\ ~Busy /\ (~waitingForIDR \/ keyframe[f]) /\ session
  /\ inFlight' = inFlight + 1 /\ pending' = pending \cup {f}
  /\ waitingForIDR' = FALSE /\ submitted' = f
  /\ UNCHANGED <<session, wishVars>>

\* The IDR brings new parameter sets, or the first: configure() starts an epoch.
DecodeConfigures(f) ==
  /\ HandOn(f) /\ ~Busy /\ keyframe[f]
  /\ session' = TRUE /\ inFlight' = 1 /\ pending' = {f}
  /\ waitingForIDR' = FALSE /\ submitted' = f
  /\ UNCHANGED wishVars

\* configure(), a buffer, or VideoToolbox at once, fails.
DecodeThrows(f) ==
  /\ HandOn(f) /\ ~Busy /\ (~waitingForIDR \/ keyframe[f])
  /\ session \/ keyframe[f]
  /\ ResetDecoder /\ RequestKeyframe /\ UNCHANGED submitted

\* The callback of a frame, with an image or with an error.  One of an earlier
\* epoch changes nothing.
Callback(f) ==
  /\ step = "idle" /\ f \in pending
  /\ pending' = pending \ {f}
  /\ inFlight' = IF inFlight > 0 THEN inFlight - 1 ELSE 0
  /\ \/ UNCHANGED <<waitingForIDR, wishVars>>
     \/ waitingForIDR' = TRUE /\ RequestKeyframe
  /\ UNCHANGED <<hostVars, step, streamGeneration, assemblerVars, session, submitted>>

\* A new generation starts with an empty assembler and decoder.
VideoConfig ==
  /\ step = "idle" /\ streamGeneration < encoderGeneration
  /\ streamGeneration' = streamGeneration + 1
  /\ Remove(Frame) /\ last' = 0 /\ requiresKeyframe' = TRUE
  /\ ResetDecoder /\ RequestKeyframe
  /\ UNCHANGED <<hostVars, step, submitted>>

\* Time passes between the handlers, which run on one reading of the clock.
Tick ==
  /\ step = "idle"
  /\ quiet > 0 \/ \E f \in Assembling : age[f] <= Hold
  /\ quiet' = IF quiet > 0 THEN quiet - 1 ELSE 0
  /\ age' = [f \in Frame |-> IF f \in Assembling /\ age[f] <= Hold THEN age[f] + 1
                             ELSE age[f]]
  /\ UNCHANGED <<hostVars, step, streamGeneration, requestSent, parts, last, requiresKeyframe,
                 decoderVars>>
-----------------------------------------------------------------------------
HandingOn ==
  \E f \in Frame :
    \/ DecodeBusy(f) \/ DecodeIgnores(f) \/ Decode(f) \/ DecodeConfigures(f)
    \/ DecodeThrows(f)

Consume == Skip \/ Consumed \/ HandingOn

Next ==
  \/ Encode \/ NewEncoder \/ HostHears
  \/ \E f \in Frame, i \in Fragment : Datagram(f, i)
  \/ Timer \/ Consume \/ Tick \/ VideoConfig
  \/ \E f \in Frame : Callback(f)

Safety == Init /\ [][Next]_vars

\* The repeating timer fires, the loop it runs ends, and time passes however many
\* datagrams arrive.
Fairness == WF_vars(Timer) /\ WF_vars(Consume) /\ SF_vars(Tick)
Spec == Safety /\ Fairness
-----------------------------------------------------------------------------
(* Properties.                                                             *)

\* VideoToolbox never gets a frame without its reference: whatever the network
\* loses, the assembler gives up and the decoder refuses or fails at, a frame
\* that is no IDR follows the one submitted before it.
ReferencesIntact ==
  [][submitted' # submitted => (keyframe[submitted'] \/ submitted' = submitted + 1)]_vars

\* Late and repeated datagrams never bring an earlier frame back, neither within
\* a generation nor across the reset a new VideoConfig makes.
NeverBackwards == [][submitted' >= submitted]_vars

\* inFlight counts the frames of this epoch that VideoToolbox still has, so that
\* its limit of two neither starves nor overloads the decoder after a reset.
InFlightExact == inFlight = Cardinality(pending)

\* A decoder that is not waiting for an IDR has a session to decode with.
DecodingHasSession == ~waitingForIDR => session

\* The decoder's account of itself fits what VideoToolbox has of its frames, across
\* resets, refused frames and late callbacks.
DecoderInv == TypeOK /\ InFlightExact /\ DecodingHasSession

\* A loss is reported: as long as the assembler of a stream needs an IDR,
\* requests keep going out, although each wish inside the 200 ms is dropped.
LossReported == []<>(streamGeneration > 0 /\ requiresKeyframe => requestSent)

\* "At most two assemblies, each for at most 40 ms": one that has waited longer is
\* handed on or given up, whether datagrams of other frames keep coming or the
\* stream falls silent.
StaleAssemblyEnds == \A f \in Frame : []<>(age[f] <= Hold)
=============================================================================
