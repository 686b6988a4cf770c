------------------------------ MODULE VideoSender ------------------------------
(***************************************************************************)
(* The sending end of the video: the encoder (gpu.cpp, encoder/), the      *)
(* encoding part of the worker's iteration and the video branches of       *)
(* session() in runtime.rs, with the iPad reduced to what it asks for.     *)
(*                                                                         *)
(* Everybody who finds a gap sets one shared flag, from which the worker   *)
(* forces an IDR.  The worker publishes frames in a watch that keeps the   *)
(* newest; the session may be inside send_frame() for 35 ms meanwhile.     *)
(* Serial numbers grow for ever, so the model keeps their difference only. *)
(***************************************************************************)
EXTENDS Naturals, Sequences, FiniteSetsExt

CONSTANTS Encoders,   \* bound: encoders opened
          Losses,     \* bound: frames lost, sent too late, or replaced in the watch
          KeyQuiet,   \* the 200 ms between keyframe requests, in ticks, on both sides
          Inside      \* the 3 samples inside the MFT

ASSUME SenderAssumption ==
  Inside \in Nat \ {0} /\ Encoders \in Nat \ {0} /\ Losses \in Nat /\ KeyQuiet \in Nat

VARIABLES
  \* the worker: place in its iteration, encoder in use, shared keyframe flag
  wpc, encoder, key,
  \* the encoder: forced IDR, samples inside the MFT (TRUE: IDR), and how many of
  \* them are coded
  force, samples, coded,
  \* what the session has not seen of the watch, serial - last_id (2: two or more)
  watch, behind,
  \* session(): the frame send_frame() works on, time left of its limit on requests
  inHand, hostQuiet,
  \* the iPad: generation, whether it needs an IDR, its request and its limit
  viewer, needsKey, asked, askQuiet,
  losses,     \* losses so far
  gap,        \* history: a frame was not delivered since the last that was
  owed        \* history: the host knows that its last frame was not sent whole

mftVars     == <<force, samples, coded>>
watchVars   == <<watch, behind>>
viewerVars  == <<viewer, needsKey, asked, askQuiet>>
senderVars  == <<wpc, encoder, key, mftVars, watchVars, inHand, hostQuiet,
                 viewerVars, losses, gap, owed>>

NoFrame == [encoder |-> 0, idr |-> FALSE]
Output  == [encoder : 0..Encoders, idr : BOOLEAN]

SenderTypeOK ==
  /\ wpc \in {"key", "poll"} /\ encoder \in 0..Encoders /\ key \in BOOLEAN
  /\ force \in BOOLEAN /\ samples \in Seq(BOOLEAN) /\ Len(samples) <= Inside
  /\ coded \in 0..Inside
  /\ watch \in Output /\ behind \in 0..2
  /\ inHand \in Output /\ hostQuiet \in 0..KeyQuiet
  /\ viewer \in 0..Encoders /\ needsKey \in BOOLEAN /\ asked \in BOOLEAN
  /\ askQuiet \in 0..KeyQuiet
  /\ losses \in 0..Losses /\ gap \in BOOLEAN /\ owed \in BOOLEAN

SenderInit ==
  /\ wpc = "key" /\ encoder = 0 /\ key = FALSE
  /\ force = FALSE /\ samples = <<>> /\ coded = 0
  /\ watch = NoFrame /\ behind \in {0, 2}
  /\ inHand = NoFrame /\ hostQuiet = 0
  /\ viewer = 0 /\ needsKey = FALSE /\ asked = FALSE /\ askQuiet = 0
  /\ losses = 0 /\ gap = FALSE /\ owed = FALSE
-----------------------------------------------------------------------------
(* The MFT, which works on its own.                                        *)

\* It has coded one more, oldest first; pump() counts its event before poll() looks.
MftCodes ==
  /\ coded < Len(samples)
  /\ coded' = coded + 1
  /\ UNCHANGED <<wpc, encoder, key, force, samples, watchVars, inHand,
                 hostQuiet, viewerVars, losses, gap, owed>>
-----------------------------------------------------------------------------
(* The worker's iteration: a new encoder if the generation has changed,    *)
(* the keyframe flag, the outputs, one image.                              *)

\* The old encoder goes with the samples in it.
OpenEncoder ==
  /\ wpc = "key" /\ encoder < Encoders
  /\ encoder' = encoder + 1 /\ key' = TRUE
  /\ force' = FALSE /\ samples' = <<>> /\ coded' = 0
  /\ UNCHANGED <<wpc, watchVars, inHand, hostQuiet, viewerVars, losses, gap, owed>>

ForceKeyframe ==
  /\ wpc = "key" /\ encoder > 0
  /\ force' = (force \/ key) /\ key' = FALSE /\ wpc' = "poll"
  /\ UNCHANGED <<encoder, samples, coded,
                 watchVars, inHand, hostQuiet, viewerVars, losses, gap, owed>>

\* poll(): the oldest coded sample gets the next serial number and replaces what is
\* in the watch.  At most three are inside, so the loop of four ends by itself.
Poll ==
  /\ wpc = "poll" /\ coded > 0
  /\ coded' = coded - 1 /\ samples' = Tail(samples)
  /\ watch' = [encoder |-> encoder, idr |-> Head(samples)]
  /\ behind' = Min({behind + 1, 2})
  /\ IF watch # NoFrame THEN losses < Losses /\ losses' = losses + 1 ELSE UNCHANGED losses
  /\ UNCHANGED <<wpc, encoder, key, force, inHand, hostQuiet, viewerVars, gap, owed>>

\* The loop ends when nothing is coded.  (A change of the stream's format ends it too;
\* the MFT announces the sample again, so it counts as coded only then.)
PollEnds == wpc = "poll" /\ coded = 0

\* input(): the newest image becomes a sample if there is room; the MFT may make it
\* an IDR of its own accord (GOP).
EncodeImage ==
  /\ PollEnds /\ wpc' = "key" /\ Len(samples) < Inside
  /\ \E own \in BOOLEAN : samples' = Append(samples, force \/ own)
  /\ force' = FALSE
  /\ UNCHANGED <<encoder, key, coded, watchVars, inHand, hostQuiet, viewerVars,
                 losses, gap, owed>>

\* There is no new image, no room, or the MFT has not asked for input: the image is
\* dropped before it was coded, so no serial number is missing.
DropImage ==
  /\ PollEnds /\ wpc' = "key"
  /\ UNCHANGED <<encoder, key, mftVars, watchVars, inHand, hostQuiet, viewerVars,
                 losses, gap, owed>>
-----------------------------------------------------------------------------
(* The branches of session().                                              *)

\* Mutant: last_id is not compared.
TakeFrameBlind ==
  /\ inHand = NoFrame /\ watch # NoFrame
  /\ inHand' = watch /\ watch' = NoFrame /\ behind' = 0
  /\ gap' = (gap \/ behind = 2) /\ owed' = (owed \/ behind = 2)
  /\ UNCHANGED <<wpc, encoder, key, mftVars, hostQuiet, viewerVars, losses>>

\* The newest frame; a number left out is a frame the watch has replaced.
TakeFrame ==
  /\ inHand = NoFrame /\ watch # NoFrame
  /\ inHand' = watch /\ watch' = NoFrame /\ behind' = 0
  /\ key' = (key \/ behind = 2) /\ gap' = (gap \/ behind = 2)
  /\ owed' = (owed \/ behind = 2)
  /\ UNCHANGED <<wpc, encoder, mftVars, hostQuiet, viewerVars, losses>>

\* send_frame() returns true and the frame arrives.  The iPad ignores another
\* generation's; it decodes an IDR, or a frame without a gap before it.
SendDelivered ==
  /\ inHand # NoFrame /\ inHand' = NoFrame
  /\ owed' = (owed /\ ~inHand.idr)
  /\ IF inHand.encoder = viewer
     THEN needsKey' = ((needsKey \/ gap) /\ ~inHand.idr) /\ gap' = FALSE
     ELSE UNCHANGED <<needsKey, gap>>
  /\ UNCHANGED <<wpc, encoder, key, mftVars, watchVars, hostQuiet, viewer, asked,
                 askQuiet, losses>>

\* It returns true, but a datagram is lost.
SendLost ==
  /\ inHand # NoFrame /\ inHand' = NoFrame
  /\ losses < Losses /\ losses' = losses + 1
  /\ owed' = (owed /\ ~inHand.idr) /\ gap' = TRUE
  /\ UNCHANGED <<wpc, encoder, key, mftVars, watchVars, hostQuiet, viewerVars>>

\* It returns false: the frame was older than 80 ms, or 35 ms were not enough.
SendAbandoned ==
  /\ inHand # NoFrame /\ inHand' = NoFrame
  /\ losses < Losses /\ losses' = losses + 1
  /\ key' = TRUE /\ owed' = TRUE /\ gap' = TRUE
  /\ UNCHANGED <<wpc, encoder, mftVars, watchVars, hostQuiet, viewerVars>>

\* Event::Ready, in the order of the encoders.  Frames of the new encoder may have
\* been sent before; the iPad starts over.
SendConfig ==
  /\ inHand = NoFrame /\ viewer < encoder
  /\ viewer' = viewer + 1 /\ needsKey' = TRUE /\ gap' = FALSE
  /\ UNCHANGED <<wpc, encoder, key, mftVars, watchVars, inHand, hostQuiet, asked,
                 askQuiet, losses, owed>>

\* Mutant: the comparison is the wrong way round.
TakeRequestInverted ==
  /\ inHand = NoFrame /\ asked /\ asked' = FALSE
  /\ IF hostQuiet # 0 THEN key' = TRUE /\ hostQuiet' = KeyQuiet
     ELSE UNCHANGED <<key, hostQuiet>>
  /\ UNCHANGED <<wpc, encoder, mftVars, watchVars, inHand, viewer, needsKey, askQuiet,
                 losses, gap, owed>>

\* A KeyframeRequest; one inside the 200 ms after the last is dropped.
TakeRequest ==
  /\ inHand = NoFrame /\ asked /\ asked' = FALSE
  /\ IF hostQuiet = 0 THEN key' = TRUE /\ hostQuiet' = KeyQuiet
     ELSE UNCHANGED <<key, hostQuiet>>
  /\ UNCHANGED <<wpc, encoder, mftVars, watchVars, inHand, viewer, needsKey, askQuiet,
                 losses, gap, owed>>
-----------------------------------------------------------------------------
(* The iPad asks again as long as it needs an IDR (LossReported of         *)
(* VideoReceiver), and time passes.                                        *)

Ask ==
  /\ needsKey /\ askQuiet = 0
  /\ asked' = TRUE /\ askQuiet' = KeyQuiet
  /\ UNCHANGED <<wpc, encoder, key, mftVars, watchVars, inHand, hostQuiet, viewer,
                 needsKey, losses, gap, owed>>

\* What is left of a limit after a tick.
LimitLeft(quiet) == IF quiet > 0 THEN quiet - 1 ELSE 0

KeyTick ==
  /\ hostQuiet + askQuiet > 0
  /\ hostQuiet' = LimitLeft(hostQuiet) /\ askQuiet' = LimitLeft(askQuiet)
  /\ UNCHANGED <<wpc, encoder, key, mftVars, watchVars, inHand, viewer, needsKey,
                 asked, losses, gap, owed>>
-----------------------------------------------------------------------------
Iterate == ForceKeyframe \/ Poll \/ EncodeImage \/ DropImage
Sending == SendDelivered \/ SendLost \/ SendAbandoned

SenderNext ==
  \/ OpenEncoder \/ MftCodes \/ Iterate
  \/ TakeFrame \/ Sending \/ SendConfig \/ TakeRequest
  \/ Ask \/ KeyTick

SenderSafety == SenderInit /\ [][SenderNext]_senderVars

\* The worker never blocks, the MFT works and images keep coming; send_frame() has a
\* deadline, select! is fair to its branches, and time passes.
SenderFairness ==
  /\ WF_senderVars(Iterate) /\ WF_senderVars(MftCodes)
  /\ SF_senderVars(EncodeImage)
  /\ WF_senderVars(Sending) /\ WF_senderVars(TakeFrame) /\ SF_senderVars(SendConfig)
  /\ SF_senderVars(TakeRequest) /\ WF_senderVars(Ask) /\ WF_senderVars(KeyTick)
SenderSpec == SenderSafety /\ SenderFairness
-----------------------------------------------------------------------------
(* Properties.                                                             *)

\* "On abandonment, the next frame is forced to IDR": once the host knows that a
\* frame was skipped or not sent whole, an IDR is owed until one was sent whole, by
\* the flag, the encoder, the frames on their way, or a gap it will find in
\* the watch.
KeyframeOwed ==
  owed => \/ key \/ force \/ \E i \in DOMAIN samples : samples[i]
          \/ watch.idr \/ (watch # NoFrame /\ behind = 2)
          \/ inHand.idr

\* The keyframe on its way and the samples it travels with are accounted for.
SenderInv == SenderTypeOK /\ KeyframeOwed

\* Whatever is lost on the way, and in whatever order configuration, frames and
\* requests pass each other, the iPad gets an IDR it can use.
Recovers == []<>~needsKey
=============================================================================
