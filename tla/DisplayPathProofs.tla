--------------------------- MODULE DisplayPathProofs ---------------------------
(***************************************************************************)
(* What TopologyReconcile promises for all delays, sizes, sides and any    *)
(* number of disturbances; VideoSender for any number of encoders and      *)
(* losses, any limit on requests and any number of samples inside the MFT; *)
(* and DriverLifecycle for any number of monitors and swapchain workers.   *)
(***************************************************************************)
EXTENDS TopologyReconcile, VideoSender, DriverLifecycle, SequenceTheorems,
        FiniteSetTheorems, TLAPS

(***************************************************************************)
(* TopologyReconcile.                                                      *)
(***************************************************************************)

\* An attempt sets its due time when it is made, and both clocks run together: the
\* part of the period that is left and the part that is over make up the whole.
Paired == rec.recent < Stabilize => rec.due + rec.recent = Stabilize

TInv == TopologyTypeOK /\ Paired
-----------------------------------------------------------------------------
(* Operators.                                                              *)

LEMMA AdjacentTypes ==
  ASSUME NEW a \in Rectangle, NEW b \in Rectangle, NEW p \in Positions
  PROVE  Adjacent(a, b, p) \in Rectangle
<1>1. p \in {"left", "right", "above", "below"}
  BY TopologyAssumption
<1>2. Beside(a, b)[p][1] \in Int /\ Beside(a, b)[p][2] \in Int
  BY <1>1 DEF Beside, Rectangle
<1> QED BY <1>2 DEF Adjacent, Bounds, Rectangle

LEMMA SquareTypes ==
  ASSUME NEW s \in Nat
  PROVE  Square(s) \in Rectangle
BY DEF Square, Bounds, Rectangle

LEMMA MoveTypes ==
  ASSUME NEW b \in Rectangle, NEW x \in Int, NEW y \in Int
  PROVE  Move(b, x, y) \in Rectangle
BY DEF Move, Bounds, Rectangle

\* The place reconcile() asks Windows for, and the anchor it shifts for it.
LEMMA TargetTypes ==
  ASSUME TopologyTypeOK
  PROVE  /\ Target \in Rectangle
         /\ Shifted(anchor) \in Rectangle
         /\ CurrentBounds \in Rectangle
<1> USE DEF TopologyTypeOK
<1>1. DefaultSize \in Nat
  BY TopologyAssumption DEF DefaultSize
<1>2. requested \in Nat
  BY TopologyAssumption
<1>3. Size \in Rectangle
  BY <1>1, <1>2, SquareTypes DEF Size
<1>4. Desired \in Rectangle
  BY <1>3, AdjacentTypes DEF Desired
<1>5. Target \in Rectangle
  BY <1>4 DEF Target, Bounds, Rectangle
<1>6. -Desired.x \in Int /\ -Desired.y \in Int
  BY <1>4 DEF Rectangle
<1>7. Shifted(anchor) \in Rectangle
  BY <1>6, MoveTypes DEF Shifted
<1>8. CurrentBounds \in Rectangle
  BY DEF CurrentBounds, NoBounds, Bounds, Rectangle
<1> QED BY <1>5, <1>7, <1>8

\* A change keeps the pairing, because it is ignored while a period runs.
LEMMA ChangedKeeps ==
  ASSUME NEW r \in Reconciler, r.recent < Stabilize => r.due + r.recent = Stabilize
  PROVE  /\ Changed(r) \in Reconciler
         /\ Changed(r).recent = r.recent
         /\ Changed(r).recent < Stabilize => Changed(r).due + Changed(r).recent = Stabilize
<1>1. Debounce \in 0..Stabilize
  BY TopologyAssumption
<1>2. CASE r.recent < Stabilize
  BY <1>2 DEF Changed
<1>3. CASE ~(r.recent < Stabilize)
  <2>1. /\ Changed(r) = [r EXCEPT !.due = Debounce, !.retries = 0, !.dirty = TRUE]
    BY <1>3 DEF Changed
  <2>2. Changed(r).recent = r.recent
    BY <2>1 DEF Reconciler
  <2>3. Changed(r) \in Reconciler
    <3>1. Changed(r) = [due |-> Debounce, retries |-> 0, dirty |-> TRUE, recent |-> r.recent]
      BY <2>1 DEF Reconciler
    <3>2. r.recent \in 0..Stabilize
      BY DEF Reconciler
    <3> QED BY <1>1, <3>1, <3>2 DEF Reconciler
  <2> QED BY <1>3, <2>2, <2>3
<1> QED BY <1>2, <1>3

\* What the worker decides on is a reconciler as well, and an attempt of it is spaced.
LEMMA NowKeeps ==
  ASSUME TInv
  PROVE  /\ Now \in Reconciler
         /\ Now.recent = rec.recent
         /\ Now.recent < Stabilize => Now.due + Now.recent = Stabilize
         /\ Ready(Now) => Now.recent = Stabilize
<1>1. /\ Noticed \in Reconciler /\ Noticed.recent = rec.recent
      /\ Noticed.recent < Stabilize => Noticed.due + Noticed.recent = Stabilize
  BY ChangedKeeps DEF TInv, TopologyTypeOK, Paired, Noticed
<1>2. /\ Now \in Reconciler /\ Now.recent = rec.recent
      /\ Now.recent < Stabilize => Now.due + Now.recent = Stabilize
  BY <1>1, ChangedKeeps DEF Now
<1>3. Ready(Now) => Now.recent = Stabilize
  BY <1>2, TopologyAssumption DEF Ready, Reconciler
<1> QED BY <1>2, <1>3

LEMMA AttemptKeeps ==
  ASSUME NEW r \in Reconciler, Ready(r)
  PROVE  /\ Attempted(r) \in Reconciler
         /\ Attempted(r).due + Attempted(r).recent = Stabilize
BY TopologyAssumption DEF Attempted, Ready, Reconciler
-----------------------------------------------------------------------------
(* The invariant.                                                          *)

LEMMA TopologyStart == TopologyInit => TInv
<1> SUFFICES ASSUME TopologyInit PROVE TInv
  OBVIOUS
<1>1. Default \in Reconciler /\ Default.recent = Stabilize
  BY TopologyAssumption DEF Default, Reconciler
<1>2. NoBounds \in Rectangle /\ Square(2) \in Rectangle
  BY DEF NoBounds, Square, Bounds, Rectangle
<1>3. probe \in 0..(Probe + 1) /\ disturbed \in 0..Disturbances
  BY TopologyAssumption DEF TopologyInit
<1>4. TopologyTypeOK
  BY <1>1, <1>2, <1>3 DEF TopologyInit, TopologyTypeOK
<1>5. Paired
  BY <1>1, TopologyAssumption DEF TopologyInit, Paired
<1> QED BY <1>4, <1>5 DEF TInv

\* What every iteration does to the probe and the flag.
LEMMA LookTypes ==
  ASSUME TopologyTypeOK, Look
  PROVE  display_changed' \in BOOLEAN /\ probe' \in 0..(Probe + 1)
         /\ Observed \in Rectangle
<1>1. CurrentBounds \in Rectangle
  BY TargetTypes
<1>2. probe' \in 0..(Probe + 1)
  BY TopologyAssumption DEF TopologyTypeOK, Look
<1> QED BY <1>1, <1>2 DEF TopologyTypeOK, Look, Observed

\* A display outside the desktop has bounds, too.
LEMMA NoBoundsType == NoBounds \in Rectangle
BY DEF NoBounds, Bounds, Rectangle

\* What departs keeps to the types of the desktop.
LEMMA DepartTypes ==
  ASSUME TopologyTypeOK, MonitorDeparts
  PROVE  /\ display' \in {"absent", "available", "active"}
         /\ place' \in Rectangle /\ announcing' \in BOOLEAN
<1>1. announcing \in BOOLEAN /\ announcing' \in {announcing, TRUE}
  BY Zenon DEF MonitorDeparts, TopologyTypeOK
<1>2. announcing' \in BOOLEAN
  BY <1>1, Zenon
<1>3. display' = "absent" /\ place' = NoBounds
  BY Zenon DEF MonitorDeparts
<1> QED BY <1>2, <1>3, NoBoundsType, Zenon

LEMMA TopologyStep == TInv /\ [TopologyNext]_topologyVars => TInv'
<1> SUFFICES ASSUME TInv, [TopologyNext]_topologyVars PROVE TInv'
  OBVIOUS
<1> USE DEF TInv
<1>0. DefaultSize \in Nat
  BY TopologyAssumption DEF DefaultSize
<1>1. CASE StartStream
  <2>1. Default \in Reconciler /\ Default.recent = Stabilize
    BY TopologyAssumption DEF Default, Reconciler
  <2>2. /\ display' \in {"absent", "available", "active"}
        /\ place' \in Rectangle /\ announcing' \in BOOLEAN
    BY <1>1, DepartTypes DEF StartStream, TopologyTypeOK
  <2>3. probe' \in 0..(Probe + 1) /\ requested' \in Sizes \cup {0}
    BY <1>1, TopologyAssumption DEF StartStream, TopologyTypeOK
  <2>4. TopologyTypeOK'
    BY <1>1, <2>1, <2>2, <2>3, NoBoundsType DEF StartStream, TopologyTypeOK
  <2>5. Paired'
    BY <1>1, <2>1, TopologyAssumption DEF StartStream, Paired
  <2> QED BY <2>4, <2>5
<1>2. CASE EndStream
  <2>1. /\ display' \in {"absent", "available", "active"}
        /\ place' \in Rectangle /\ announcing' \in BOOLEAN
    BY <1>2, DepartTypes DEF EndStream, TopologyTypeOK
  <2>2. disturbed' \in 0..Disturbances
    BY <1>2, TopologyAssumption DEF EndStream, Disturb, TopologyTypeOK
  <2>3. TopologyTypeOK'
    BY <1>2, <2>1, <2>2, NoBoundsType DEF EndStream, TopologyTypeOK
  <2>4. Paired'
    BY <1>2 DEF EndStream, Paired
  <2> QED BY <2>3, <2>4
<1>3. CASE GraceEnds
  <2>1. TopologyTypeOK'
    BY <1>3, DepartTypes DEF GraceEnds, TopologyTypeOK
  <2>2. Paired'
    BY <1>3 DEF GraceEnds, Paired
  <2> QED BY <2>1, <2>2
<1>4. CASE Rest
  <2>1. TopologyTypeOK'
    BY <1>4, NowKeeps, LookTypes DEF Rest, TopologyTypeOK, deskVars, settingVars
  <2>2. Paired'
    BY <1>4, NowKeeps DEF Rest, Paired
  <2> QED BY <2>1, <2>2
<1>5. CASE Verify
  <2>1. Matched(Now) \in Reconciler /\ Matched(Now).recent = Stabilize
    BY <1>5, NowKeeps DEF Verify, Matched, Reconciler
  <2>2. TopologyTypeOK'
    BY <1>5, <2>1, LookTypes, TargetTypes DEF Verify, TopologyTypeOK, deskVars, settingVars
  <2>3. Paired'
    BY <1>5, <2>1, TopologyAssumption DEF Verify, Paired
  <2> QED BY <2>2, <2>3
<1>6. ASSUME NEW b \in Rectangle, PlacedAt(b) PROVE TInv'
  <2>1. /\ Attempted(Now) \in Reconciler
        /\ Attempted(Now).due + Attempted(Now).recent = Stabilize
    BY <1>6, NowKeeps, AttemptKeeps DEF PlacedAt
  <2>2. TopologyTypeOK'
    BY <1>6, <2>1, LookTypes, TargetTypes DEF PlacedAt, TopologyTypeOK
  <2>3. Paired'
    BY <1>6, <2>1 DEF PlacedAt, Paired
  <2> QED BY <2>2, <2>3
<1>7. CASE Apply
  BY <1>6, <1>7, TargetTypes DEF Apply
<1>8. CASE Altered
  <2>1. Move(Target, 1, 0) \in Rectangle
    BY TargetTypes, MoveTypes
  <2> QED BY <1>6, <1>8, <2>1 DEF Altered
<1>9. CASE Refused
  <2>1. /\ Attempted(Now) \in Reconciler
        /\ Attempted(Now).due + Attempted(Now).recent = Stabilize
    BY <1>9, NowKeeps, AttemptKeeps DEF Refused
  <2>2. TopologyTypeOK'
    BY <1>9, <2>1, LookTypes DEF Refused, TopologyTypeOK, deskVars, settingVars
  <2>3. Paired'
    BY <1>9, <2>1 DEF Refused, Paired
  <2> QED BY <2>2, <2>3
<1>10. ASSUME NEW p \in Positions, Placement(p) PROVE TInv'
  <2>1. Changed(rec) \in Reconciler
        /\ (Changed(rec).recent < Stabilize
              => Changed(rec).due + Changed(rec).recent = Stabilize)
    BY ChangedKeeps DEF TopologyTypeOK, Paired
  <2>2. disturbed' \in 0..Disturbances
    BY <1>10, TopologyAssumption DEF Placement, Disturb, TopologyTypeOK
  <2>3. TopologyTypeOK'
    BY <1>10, <2>1, <2>2 DEF Placement, TopologyTypeOK, deskVars
  <2>4. Paired'
    BY <1>10, <2>1 DEF Placement, Paired
  <2> QED BY <2>3, <2>4
<1>11. ASSUME NEW s \in Sizes, Mode(s) PROVE TInv'
  <2>1. Changed(rec) \in Reconciler
        /\ (Changed(rec).recent < Stabilize
              => Changed(rec).due + Changed(rec).recent = Stabilize)
    BY ChangedKeeps DEF TopologyTypeOK, Paired
  <2>2. disturbed' \in 0..Disturbances
    BY <1>11, TopologyAssumption DEF Mode, Disturb, TopologyTypeOK
  <2>3. /\ display' \in {"absent", "available", "active"}
        /\ place' \in Rectangle /\ announcing' \in BOOLEAN /\ injectorBounds' \in Rectangle
    BY <1>11, DepartTypes, NoBoundsType DEF Mode, TopologyTypeOK
  <2>4. TopologyTypeOK'
    BY <1>11, <2>1, <2>2, <2>3 DEF Mode, TopologyTypeOK
  <2>5. Paired'
    BY <1>11, <2>1 DEF Mode, Paired
  <2> QED BY <2>4, <2>5
<1>12. CASE Enumerate
  <2>1. place' \in Rectangle
    <3>1. anchor \in Rectangle
      BY DEF TopologyTypeOK
    <3>2. "right" \in {"left", "right", "above", "below"}
      OBVIOUS
    <3>3. Adjacent(anchor, Square(DefaultSize), "right") \in Rectangle
      BY <1>0, <3>1, SquareTypes DEF Adjacent, Beside, Bounds, Rectangle
    <3>4. NoBounds \in Rectangle
      BY DEF NoBounds, Bounds, Rectangle
    <3> QED BY <1>12, <3>3, <3>4 DEF Enumerate
  <2>2. TopologyTypeOK'
    BY <1>12, <2>1 DEF Enumerate, TopologyTypeOK, settingVars
  <2>3. Paired'
    BY <1>12 DEF Enumerate, Paired
  <2> QED BY <2>2, <2>3
<1>13. CASE DisplayChanges
  <2>1. place' \in Rectangle /\ display' \in {"absent", "available", "active"}
    <3>1. place \in Rectangle /\ Move(place, 0, 1) \in Rectangle
      BY MoveTypes DEF TopologyTypeOK
    <3>2. \A s \in Sizes : Bounds(place.x, place.y, s, s) \in Rectangle
      BY <3>1, TopologyAssumption DEF Bounds, Rectangle
    <3>3. NoBounds \in Rectangle
      BY DEF NoBounds, Bounds, Rectangle
    <3> QED BY <1>13, <3>1, <3>2, <3>3 DEF DisplayChanges, TopologyTypeOK
  <2>2. disturbed' \in 0..Disturbances
    BY <1>13, TopologyAssumption DEF DisplayChanges, Disturb, TopologyTypeOK
  <2>3. TopologyTypeOK'
    BY <1>13, <2>1, <2>2 DEF DisplayChanges, TopologyTypeOK, settingVars
  <2>4. Paired'
    BY <1>13 DEF DisplayChanges, Paired
  <2> QED BY <2>3, <2>4
<1>14. CASE AnchorChanges
  <2>1. anchor' \in Rectangle
    <3>1. anchor \in Rectangle /\ Move(anchor, 0, 1) \in Rectangle
      BY MoveTypes DEF TopologyTypeOK
    <3>2. Bounds(anchor.x, anchor.y, anchor.width + 1, anchor.height) \in Rectangle
      BY <3>1 DEF Bounds, Rectangle
    <3> QED BY <1>14, <3>1, <3>2 DEF AnchorChanges
  <2>2. disturbed' \in 0..Disturbances
    BY <1>14, TopologyAssumption DEF AnchorChanges, Disturb, TopologyTypeOK
  <2>3. TopologyTypeOK'
    BY <1>14, <2>1, <2>2 DEF AnchorChanges, TopologyTypeOK, settingVars
  <2>4. Paired'
    BY <1>14 DEF AnchorChanges, Paired
  <2> QED BY <2>3, <2>4
<1>15. CASE Announce
  BY <1>15 DEF Announce, TopologyTypeOK, Paired, settingVars
<1>16. CASE TopologyTick
  <2>1. rec \in Reconciler
    BY DEF TopologyTypeOK
  <2>2. /\ rec'.due = IF rec.due > 0 THEN rec.due - 1 ELSE 0
        /\ rec'.recent = IF rec.recent < Stabilize THEN rec.recent + 1 ELSE rec.recent
    BY <1>16, <2>1 DEF TopologyTick, Reconciler
  <2>3. rec' \in Reconciler
    <3>1. rec' = [due |-> IF rec.due > 0 THEN rec.due - 1 ELSE 0,
                  retries |-> rec.retries, dirty |-> rec.dirty,
                  recent |-> IF rec.recent < Stabilize THEN rec.recent + 1 ELSE rec.recent]
      BY <1>16, <2>1 DEF TopologyTick, Reconciler
    <3>2. /\ rec.due \in 0..Stabilize /\ rec.recent \in 0..Stabilize
          /\ rec.retries \in 0..3 /\ rec.dirty \in BOOLEAN
      BY <2>1 DEF Reconciler
    <3>3. /\ (IF rec.due > 0 THEN rec.due - 1 ELSE 0) \in 0..Stabilize
          /\ (IF rec.recent < Stabilize THEN rec.recent + 1 ELSE rec.recent) \in 0..Stabilize
      BY <3>2, TopologyAssumption
    <3> QED BY <3>1, <3>2, <3>3 DEF Reconciler
  <2>4. Paired'
    BY <2>1, <2>2, TopologyAssumption DEF Paired, Reconciler
  <2>5. probe' \in 0..(Probe + 1)
    BY <1>16, TopologyAssumption DEF TopologyTick, TopologyTypeOK
  <2>6. TopologyTypeOK'
    BY <1>16, <2>3, <2>5 DEF TopologyTick, TopologyTypeOK, deskVars, settingVars
  <2> QED BY <2>4, <2>6
<1>17. CASE UNCHANGED topologyVars
  BY <1>17 DEF topologyVars, deskVars, settingVars, TopologyTypeOK, Paired
<1> QED
  BY <1>1, <1>2, <1>3, <1>4, <1>5, <1>7, <1>8, <1>9, <1>10, <1>11, <1>12, <1>13, <1>14, <1>15,
     <1>16, <1>17
  DEF TopologyNext, Iteration

LEMMA TopologyInvariant == TopologySpec => []TInv
BY TopologyStart, TopologyStep, PTL DEF TopologySpec

-----------------------------------------------------------------------------
(* Theorems.                                                               *)

\* Whatever users and Windows do, the worker never attempts a placement before the
\* stabilization period of the last one is over, and counts no more than three.
THEOREM SpacedAttempts == TopologySpec => []TopologyInv
<1>1. TInv => TopologyInv
  <2> SUFFICES ASSUME TInv PROVE TopologyInv
    OBVIOUS
  <2>1. Ready(Now) => rec.recent = Stabilize
    BY NowKeeps
  <2> QED BY <2>1 DEF TInv, TopologyInv, AttemptsSpaced
<1> QED BY <1>1, TopologyInvariant, PTL
-----------------------------------------------------------------------------
(***************************************************************************)
(* VideoSender.                                                            *)
(***************************************************************************)

\* A frame in the watch has moved its number, the worker polls an encoder it has, and
\* what is coded is inside.
WatchCounted == watch # NoFrame => behind # 0
PollsEncoder == wpc = "poll" => encoder > 0
CodedInside  == coded <= Len(samples)

\* A sample inside the MFT is an IDR.
IdrInside == \E i \in DOMAIN samples : samples[i]

SInv == SenderTypeOK /\ KeyframeOwed /\ WatchCounted /\ PollsEncoder /\ CodedInside
-----------------------------------------------------------------------------
(* Operators.                                                              *)

LEMMA MinOfTwo ==
  ASSUME NEW n \in 0..2
  PROVE  Min({n + 1, 2}) = IF n = 0 THEN 1 ELSE 2
<1> DEFINE S == {n + 1, 2}
           m == IF n = 0 THEN 1 ELSE 2
<1>1. m \in S /\ \A y \in S : m <= y
  OBVIOUS
<1>2. \A x \in S : (\A y \in S : x <= y) => x = m
  BY <1>1
<1> QED BY <1>1, <1>2 DEF Min

LEMMA LimitTypes ==
  ASSUME NEW q \in 0..KeyQuiet
  PROVE  LimitLeft(q) \in 0..KeyQuiet
BY SenderAssumption DEF LimitLeft

LEMMA OutputTypes ==
  /\ NoFrame \in Output
  /\ \A e \in 0..Encoders, b \in BOOLEAN : [encoder |-> e, idr |-> b] \in Output
BY SenderAssumption DEF NoFrame, Output

\* What poll() takes out of the MFT.
LEMMA PollSamples ==
  ASSUME SenderTypeOK, CodedInside, coded > 0
  PROVE  /\ Len(samples) \in Nat /\ samples # <<>>
         /\ Head(samples) \in BOOLEAN /\ Tail(samples) \in Seq(BOOLEAN)
         /\ Len(Tail(samples)) = Len(samples) - 1
         /\ IdrInside => Head(samples) \/ \E i \in DOMAIN Tail(samples) : Tail(samples)[i]
<1>1. Len(samples) \in Nat /\ samples \in Seq(BOOLEAN) /\ coded \in Nat
  BY LenProperties, SenderAssumption DEF SenderTypeOK
<1>2. samples # <<>>
  BY <1>1, EmptySeq DEF CodedInside
<1>3. /\ Head(samples) \in BOOLEAN /\ Tail(samples) \in Seq(BOOLEAN)
      /\ Len(Tail(samples)) = Len(samples) - 1
      /\ \A i \in 1..Len(Tail(samples)) : Tail(samples)[i] = samples[i + 1]
  BY <1>1, <1>2, HeadTailProperties
<1>4. ASSUME NEW i \in DOMAIN samples, samples[i], ~Head(samples)
      PROVE  \E j \in DOMAIN Tail(samples) : Tail(samples)[j]
  <2>1. i \in 1..Len(samples) /\ Head(samples) = samples[1]
    BY <1>1, <1>2
  <2>2. i # 1
    BY <2>1, <1>4
  <2>3. i - 1 \in 1..Len(Tail(samples)) /\ (i - 1) + 1 = i
    BY <2>1, <2>2, <1>1, <1>3
  <2>4. Tail(samples)[i - 1] = samples[i]
    BY <2>3, <1>3
  <2>5. DOMAIN Tail(samples) = 1..Len(Tail(samples))
    BY <1>3
  <2> QED BY <2>3, <2>4, <2>5, <1>4
<1> QED BY <1>1, <1>2, <1>3, <1>4 DEF IdrInside

\* What input() puts into it.
LEMMA InputSamples ==
  ASSUME SenderTypeOK, Len(samples) < Inside, NEW b \in BOOLEAN
  PROVE  /\ Len(samples) \in Nat
         /\ Append(samples, b) \in Seq(BOOLEAN)
         /\ Len(Append(samples, b)) = Len(samples) + 1
         /\ Len(Append(samples, b)) <= Inside
         /\ b \/ IdrInside => \E i \in DOMAIN Append(samples, b) : Append(samples, b)[i]
<1>1. Len(samples) \in Nat /\ samples \in Seq(BOOLEAN)
  BY LenProperties DEF SenderTypeOK
<1>2. /\ Append(samples, b) \in Seq(BOOLEAN)
      /\ Len(Append(samples, b)) = Len(samples) + 1
      /\ \A i \in 1..Len(samples) : Append(samples, b)[i] = samples[i]
      /\ Append(samples, b)[Len(samples) + 1] = b
  BY <1>1, AppendProperties
<1>3. DOMAIN Append(samples, b) = 1..(Len(samples) + 1) /\ DOMAIN samples = 1..Len(samples)
  BY <1>1, <1>2
<1>4. Len(samples) + 1 \in DOMAIN Append(samples, b)
  BY <1>1, <1>3
<1>5. \A i \in DOMAIN samples : i \in DOMAIN Append(samples, b) /\ i \in 1..Len(samples)
  BY <1>1, <1>3
<1>6. Len(Append(samples, b)) <= Inside
  BY <1>1, <1>2, SenderAssumption
<1> QED BY <1>1, <1>2, <1>4, <1>5, <1>6 DEF IdrInside
-----------------------------------------------------------------------------
(* The invariant.                                                          *)

LEMMA SenderStart == SenderInit => SInv
<1> SUFFICES ASSUME SenderInit PROVE SInv
  OBVIOUS
<1>1. samples \in Seq(BOOLEAN) /\ Len(samples) = 0
  BY EmptySeq DEF SenderInit
<1>2. SenderTypeOK
  <2>1. NoFrame \in Output /\ 0 \in 0..Encoders /\ 0 \in 0..KeyQuiet /\ 0 \in 0..Losses
        /\ 0 \in 0..Inside /\ behind \in 0..2 /\ Len(samples) <= Inside
    BY <1>1, OutputTypes, SenderAssumption DEF SenderInit
  <2> QED BY <1>1, <2>1 DEF SenderInit, SenderTypeOK
<1>3. CodedInside /\ WatchCounted /\ PollsEncoder /\ KeyframeOwed
  BY <1>1 DEF SenderInit, CodedInside, WatchCounted, PollsEncoder, KeyframeOwed
<1> QED BY <1>2, <1>3 DEF SInv

LEMMA SenderTypeStep == SInv /\ SenderNext => SenderTypeOK' /\ CodedInside' /\ PollsEncoder'
<1> SUFFICES ASSUME SInv, SenderNext PROVE SenderTypeOK' /\ CodedInside' /\ PollsEncoder'
  OBVIOUS
<1>0. /\ SenderTypeOK /\ CodedInside /\ PollsEncoder /\ Len(samples) \in Nat
      /\ samples \in Seq(BOOLEAN)
  BY LenProperties DEF SInv, SenderTypeOK
<1> USE SenderAssumption DEF SenderTypeOK, CodedInside, PollsEncoder
<1>1. CASE OpenEncoder
  <2>1. <<>> \in Seq(BOOLEAN) /\ Len(<<>>) = 0
    BY EmptySeq
  <2>2. encoder' \in 0..Encoders /\ encoder' > 0 /\ coded' \in 0..Inside
    BY <1>0, <1>1 DEF OpenEncoder
  <2>3. samples' \in Seq(BOOLEAN) /\ Len(samples') = 0 /\ coded' = 0 /\ 0 <= Inside
    BY <1>1, <2>1 DEF OpenEncoder
  <2>4. UNCHANGED <<wpc, watchVars, inHand, hostQuiet, viewerVars, losses, gap, owed>>
        /\ key' = TRUE /\ force' = FALSE
    BY <1>1 DEF OpenEncoder
  <2>5. SenderTypeOK'
    BY <1>0, <2>2, <2>3, <2>4 DEF watchVars, viewerVars
  <2>6. CodedInside'
    BY <2>3
  <2>7. PollsEncoder'
    BY <2>2
  <2> QED BY <2>5, <2>6, <2>7
<1>2. CASE MftCodes
  BY <1>0, <1>2 DEF MftCodes, watchVars, viewerVars
<1>3. CASE ForceKeyframe
  BY <1>0, <1>3 DEF ForceKeyframe, watchVars, viewerVars
<1>4. CASE Poll
  <2>1. /\ Head(samples) \in BOOLEAN /\ Tail(samples) \in Seq(BOOLEAN)
        /\ Len(Tail(samples)) = Len(samples) - 1
    BY <1>0, <1>4, PollSamples DEF Poll
  <2>2. watch' \in Output
    BY <1>0, <1>4, <2>1, OutputTypes DEF Poll
  <2>3. behind' \in 0..2
    <3>1. behind \in 0..2 /\ behind' = Min({behind + 1, 2})
      BY <1>0, <1>4 DEF Poll
    <3>2. behind' = IF behind = 0 THEN 1 ELSE 2
      BY <3>1, MinOfTwo
    <3> QED BY <3>2
  <2>4. losses' \in 0..Losses
    BY <1>0, <1>4 DEF Poll
  <2> QED BY <1>0, <1>4, <2>1, <2>2, <2>3, <2>4 DEF Poll, viewerVars
<1>5. CASE EncodeImage
  <2>1. PICK own \in BOOLEAN : samples' = Append(samples, force \/ own)
    BY <1>5 DEF EncodeImage
  <2>2. (force \/ own) \in BOOLEAN
    OBVIOUS
  <2>3. samples' \in Seq(BOOLEAN) /\ Len(samples') <= Inside /\ Len(samples') = Len(samples) + 1
    BY <1>0, <1>5, <2>1, <2>2, InputSamples DEF EncodeImage
  <2>4. UNCHANGED <<encoder, key, coded, watchVars, inHand, hostQuiet, viewerVars, losses,
                    gap, owed>>
        /\ wpc' = "key" /\ force' = FALSE
    BY <1>5 DEF EncodeImage
  <2>5. SenderTypeOK'
    BY <1>0, <2>3, <2>4 DEF watchVars, viewerVars
  <2>6. CodedInside'
    BY <1>0, <2>3, <2>4
  <2> QED BY <2>4, <2>5, <2>6
<1>6. CASE DropImage
  BY <1>0, <1>6 DEF DropImage, mftVars, watchVars, viewerVars
<1>7. CASE TakeFrame
  <2>1. key' \in BOOLEAN /\ gap' \in BOOLEAN /\ owed' \in BOOLEAN
    BY <1>7 DEF TakeFrame
  <2>2. inHand' \in Output /\ watch' \in Output /\ behind' \in 0..2
    BY <1>0, <1>7, OutputTypes DEF TakeFrame
  <2>3. UNCHANGED <<wpc, encoder, mftVars, hostQuiet, viewerVars, losses>>
    BY <1>7 DEF TakeFrame
  <2> QED BY <1>0, <2>1, <2>2, <2>3 DEF mftVars, viewerVars
<1>8. CASE SendDelivered
  <2>1. needsKey' \in BOOLEAN /\ gap' \in BOOLEAN /\ owed' \in BOOLEAN
    BY <1>0, <1>8 DEF SendDelivered
  <2>2. inHand' \in Output
    BY <1>8, OutputTypes DEF SendDelivered
  <2>3. UNCHANGED <<wpc, encoder, key, mftVars, watchVars, hostQuiet, viewer, asked, askQuiet,
                    losses>>
    BY <1>8 DEF SendDelivered
  <2> QED BY <1>0, <2>1, <2>2, <2>3 DEF mftVars, watchVars
<1>9. CASE SendLost
  <2>1. gap' \in BOOLEAN /\ owed' \in BOOLEAN
    BY <1>9 DEF SendLost
  <2>2. inHand' \in Output /\ losses' \in 0..Losses
    BY <1>0, <1>9, OutputTypes DEF SendLost
  <2>3. UNCHANGED <<wpc, encoder, key, mftVars, watchVars, hostQuiet, viewerVars>>
    BY <1>9 DEF SendLost
  <2> QED BY <1>0, <2>1, <2>2, <2>3 DEF mftVars, watchVars, viewerVars
<1>10. CASE SendAbandoned
  BY <1>0, <1>10, OutputTypes DEF SendAbandoned, mftVars, watchVars, viewerVars
<1>11. CASE SendConfig
  <2>1. viewer' \in 0..Encoders /\ needsKey' \in BOOLEAN /\ gap' \in BOOLEAN
    <3>1. viewer < encoder /\ viewer' = viewer + 1 /\ needsKey' = TRUE /\ gap' = FALSE
      BY <1>11 DEF SendConfig
    <3>2. viewer \in 0..Encoders /\ encoder \in 0..Encoders
      BY <1>0
    <3>3. viewer' \in 0..Encoders
      BY <3>1, <3>2
    <3> QED BY <3>1, <3>3
  <2>2. UNCHANGED <<wpc, encoder, key, mftVars, watchVars, inHand, hostQuiet, asked, askQuiet,
                    losses, owed>>
    BY <1>11 DEF SendConfig
  <2> QED BY <1>0, <2>1, <2>2 DEF mftVars, watchVars
<1>12. CASE TakeRequest
  <2>1. key' \in BOOLEAN /\ hostQuiet' \in 0..KeyQuiet /\ asked' \in BOOLEAN
    <3>1. asked' = FALSE /\ (key' = TRUE \/ key' = key)
          /\ (hostQuiet' = KeyQuiet \/ hostQuiet' = hostQuiet)
      BY <1>12 DEF TakeRequest
    <3>2. KeyQuiet \in 0..KeyQuiet /\ hostQuiet \in 0..KeyQuiet
      BY <1>0
    <3>3. key \in BOOLEAN
      BY <1>0
    <3> QED BY <3>1, <3>2, <3>3
  <2>2. UNCHANGED <<wpc, encoder, mftVars, watchVars, inHand, viewer, needsKey, askQuiet, losses,
                    gap, owed>>
    BY <1>12 DEF TakeRequest
  <2> QED BY <1>0, <2>1, <2>2 DEF mftVars, watchVars
<1>13. CASE Ask
  BY <1>0, <1>13 DEF Ask, mftVars, watchVars
<1>14. CASE KeyTick
  BY <1>0, <1>14, LimitTypes DEF KeyTick, mftVars, watchVars
<1> QED
  BY <1>1, <1>2, <1>3, <1>4, <1>5, <1>6, <1>7, <1>8, <1>9, <1>10, <1>11, <1>12, <1>13, <1>14
  DEF SenderNext, Iterate, Sending

\* The IDR that is owed moves from the flag to the encoder, through the samples to the
\* watch and to the session, or comes back as the flag.
LEMMA SenderOwedStep == SInv /\ SenderNext => KeyframeOwed' /\ WatchCounted'
<1> SUFFICES ASSUME SInv, SenderNext PROVE KeyframeOwed' /\ WatchCounted'
  OBVIOUS
<1>0. /\ SenderTypeOK /\ KeyframeOwed /\ WatchCounted /\ PollsEncoder /\ CodedInside
      /\ behind \in 0..2
  BY DEF SInv, SenderTypeOK
<1> DEFINE Queued == watch.idr \/ (watch # NoFrame /\ behind = 2)
           Ahead  == key \/ force \/ IdrInside \/ Queued \/ inHand.idr
<1>a. owed => Ahead
  BY <1>0 DEF KeyframeOwed, IdrInside
<1>b. (owed' => Ahead') => KeyframeOwed'
  BY DEF KeyframeOwed, IdrInside
<1>c. ~NoFrame.idr
  BY DEF NoFrame
<1>1. CASE OpenEncoder
  BY <1>0, <1>1, <1>b DEF OpenEncoder, WatchCounted, watchVars
<1>2. CASE MftCodes
  BY <1>0, <1>2, <1>a, <1>b DEF MftCodes, WatchCounted, watchVars, IdrInside
<1>3. CASE ForceKeyframe
  BY <1>0, <1>3, <1>a, <1>b DEF ForceKeyframe, WatchCounted, watchVars, IdrInside
<1>4. CASE Poll
  <2>1. /\ behind' = IF behind = 0 THEN 1 ELSE 2
    BY <1>0, <1>4, MinOfTwo DEF Poll
  <2>2. WatchCounted'
    BY <2>1 DEF WatchCounted
  <2>3. watch' # NoFrame
    <3>1. encoder > 0
      BY <1>0, <1>4 DEF Poll, PollsEncoder
    <3>2. watch'.encoder = encoder /\ NoFrame.encoder = 0
      BY <1>4 DEF Poll, NoFrame
    <3>3. encoder \in Nat
      BY <1>0, SenderAssumption DEF SenderTypeOK
    <3> QED BY <3>1, <3>2, <3>3
  <2>4. watch # NoFrame => behind' = 2
    BY <1>0, <2>1 DEF WatchCounted
  <2>5. IdrInside => Head(samples) \/ IdrInside'
    BY <1>0, <1>4, PollSamples DEF Poll, IdrInside
  <2>6. watch'.idr = Head(samples)
    BY <1>4 DEF Poll
  <2>7. Queued => Queued'
    BY <1>c, <2>3, <2>4
  <2>8. UNCHANGED <<key, force, inHand, owed>>
    BY <1>4 DEF Poll
  <2>9. owed' => Ahead'
    BY <1>a, <2>5, <2>6, <2>7, <2>8
  <2> QED BY <2>2, <2>9, <1>b
<1>5. CASE EncodeImage
  <2>1. PICK own \in BOOLEAN : samples' = Append(samples, force \/ own)
    BY <1>5 DEF EncodeImage
  <2>2. (force \/ own) \in BOOLEAN /\ (force => force \/ own)
    OBVIOUS
  <2>3. force \/ IdrInside => IdrInside'
    BY <1>0, <1>5, <2>1, <2>2, InputSamples DEF EncodeImage, IdrInside
  <2>4. UNCHANGED <<key, watch, behind, inHand, owed>>
    BY <1>5 DEF EncodeImage, watchVars
  <2>5. owed' => Ahead'
    BY <1>a, <2>3, <2>4
  <2> QED BY <1>0, <2>4, <2>5, <1>b DEF WatchCounted
<1>6. CASE DropImage
  BY <1>0, <1>6, <1>a, <1>b DEF DropImage, WatchCounted, watchVars, mftVars, IdrInside
<1>7. CASE TakeFrame
  <2>1. UNCHANGED <<force, samples>> /\ inHand' = watch /\ inHand = NoFrame
        /\ watch' = NoFrame /\ watch # NoFrame
    BY <1>7 DEF TakeFrame, mftVars
  <2>2. /\ key' = (key \/ behind = 2)
        /\ owed' = (owed \/ behind = 2)
    BY <1>7 DEF TakeFrame
  <2>3. IdrInside => IdrInside'
    BY <2>1 DEF IdrInside
  <2>4. owed' => Ahead'
    BY <1>a, <1>c, <2>1, <2>2, <2>3
  <2> QED BY <2>1, <2>4, <1>b DEF WatchCounted
<1>8. CASE SendDelivered
  <2>1. UNCHANGED <<key, force, samples, watch, behind>> /\ owed' = (owed /\ ~inHand.idr)
    BY <1>8 DEF SendDelivered, mftVars, watchVars
  <2>2. IdrInside => IdrInside'
    BY <2>1 DEF IdrInside
  <2> QED BY <1>0, <1>a, <1>b, <2>1, <2>2 DEF WatchCounted
<1>9. CASE SendLost
  <2>1. UNCHANGED <<key, force, samples, watch, behind>> /\ owed' = (owed /\ ~inHand.idr)
    BY <1>9 DEF SendLost, mftVars, watchVars
  <2>2. IdrInside => IdrInside'
    BY <2>1 DEF IdrInside
  <2> QED BY <1>0, <1>a, <1>b, <2>1, <2>2 DEF WatchCounted
<1>10. CASE SendAbandoned
  BY <1>0, <1>10, <1>b DEF SendAbandoned, WatchCounted, watchVars
<1>11. CASE SendConfig
  BY <1>0, <1>11, <1>a, <1>b DEF SendConfig, WatchCounted, watchVars, mftVars, IdrInside
<1>12. CASE TakeRequest
  <2>1. UNCHANGED <<force, samples, watch, behind, inHand, owed>> /\ (key => key')
    BY <1>12 DEF TakeRequest, mftVars, watchVars
  <2>2. IdrInside => IdrInside'
    BY <2>1 DEF IdrInside
  <2> QED BY <1>0, <1>a, <1>b, <2>1, <2>2 DEF WatchCounted
<1>13. CASE Ask
  BY <1>0, <1>13, <1>a, <1>b DEF Ask, WatchCounted, watchVars, mftVars, IdrInside
<1>14. CASE KeyTick
  BY <1>0, <1>14, <1>a, <1>b DEF KeyTick, WatchCounted, watchVars, mftVars, IdrInside
<1> QED
  BY <1>1, <1>2, <1>3, <1>4, <1>5, <1>6, <1>7, <1>8, <1>9, <1>10, <1>11, <1>12, <1>13, <1>14
  DEF SenderNext, Iterate, Sending

LEMMA SenderStep == SInv /\ [SenderNext]_senderVars => SInv'
<1>1. SInv /\ SenderNext => SInv'
  BY SenderTypeStep, SenderOwedStep DEF SInv
<1>2. SInv /\ UNCHANGED senderVars => SInv'
  BY DEF SInv, SenderTypeOK, KeyframeOwed, WatchCounted, PollsEncoder, CodedInside,
         senderVars, mftVars, watchVars, viewerVars
<1> QED BY <1>1, <1>2
-----------------------------------------------------------------------------
(* Theorems.                                                               *)

\* Once the host knows of a gap, an IDR is on its way until one was sent whole: no order
\* of new encoders, requests, outputs, replaced and abandoned frames loses it.
THEOREM KeyframeIsOwed == SenderSafety => []SenderInv
<1>1. SInv => SenderInv
  BY DEF SInv, SenderInv
<1> QED BY <1>1, SenderStart, SenderStep, PTL DEF SenderSafety
-----------------------------------------------------------------------------
(***************************************************************************)
(* DriverLifecycle.                                                        *)
(***************************************************************************)

\* depart() has taken the monitor, and has not cleared the status yet; it has not got
\* to the worker yet; arrive() has a monitor that IddCx does not know yet.
Departing == rpc \in {"notify", "unassign", "unassigned", "stop", "join", "clear"}
Stopping  == rpc \in {"notify", "unassign", "unassigned", "stop"}
Unknown   == rpc \in {"publish", "arrive", "fail"}

\* Where a request is tells what device and IddCx know of the monitor.
Places ==
  /\ rpc \in {"idle", "take"} => arrived = (IF monitor = 0 THEN {} ELSE {monitor})
  /\ rpc = "notify" => monitor = 0 /\ old # 0 /\ arrived = {old}
  /\ rpc \in {"unassign", "unassigned"} => monitor = 0 /\ old # 0 /\ arrived = {}
  /\ rpc \in {"stop", "join", "clear", "create", "publish"} => monitor = 0 /\ arrived = {}
  /\ rpc \in {"arrive", "fail"} => monitor = created /\ arrived = {}
  /\ rpc = "arrived" => monitor = created /\ arrived = {created}

\* What is asked for, and what it leaves.
Requests ==
  /\ rpc = "idle" /\ ~handle => monitor = 0
  /\ rpc # "idle" => handle = (request # "cleanup") /\ request # "none"
  /\ rpc = "create" \/ Unknown \/ rpc = "arrived" => request = "start"
  /\ request = "start" /\ (rpc = "take" \/ Departing \/ rpc = "create") => created < Monitors

\* A monitor's number is new when it is made.
News ==
  /\ {old, monitor, target, shown} \subseteq 0..created
  /\ \A w \in Worker : owner[w] <= created
  /\ Unknown \/ rpc = "arrived" => created # 0
  /\ Unknown => /\ target # created /\ shown # created
                /\ \A w \in Worker : owner[w] # created

\* A callback and what it is about.
Callbacks ==
  /\ cpc # "idle" => target # 0
  /\ cpc \in {"stop", "join", "reset", "start"} => started < Workers
  /\ cpc = "swap" => started # 0 /\ owner[started] = target

\* Whoever is joined has been moved out of the device.
Joins ==
  /\ joins[Server] # 0 => rpc \in {"unassigned", "join"}
  /\ joins[Caller] # 0 => cpc \in {"join", "discard", "unassigned"}

\* Every thread that runs is the device's, is about to be joined, or has just started.
Threads ==
  /\ worker <= started
  /\ \A w \in Worker : phase[w] # "none" => w <= started
  /\ \A w \in Alive : w = worker \/ joins[Server] = w \/ joins[Caller] = w
                                 \/ (cpc = "swap" /\ w = started)

\* The device's worker serves the device's monitor, or the one that is departing.
Serving ==
  worker # 0 => \/ monitor # 0 /\ owner[worker] = monitor
                \/ Stopping /\ old # 0 /\ owner[worker] = old

\* Unless a departure has overtaken a callback, everything is about the monitor there
\* is, or the one that is departing.
Present == {0, monitor} \cup (IF Departing THEN {old} ELSE {})

InTime ==
  ~late => /\ shown \in Present
           /\ cpc # "idle" => target \in Present
           /\ \A w \in Alive : owner[w] \in Present

DInv ==
  /\ DriverTypeOK /\ Places /\ Requests /\ News /\ Callbacks /\ Joins /\ Threads /\ Serving
  /\ InTime
-----------------------------------------------------------------------------
(* Operators.                                                              *)

LEMMA Constants ==
  /\ Monitors \in Nat /\ Workers \in Nat /\ Server # Caller
  /\ Server \notin Worker /\ Caller \notin Worker /\ Server # 0 /\ Caller # 0
  BY DriverAssumption DEF Server, Caller, Worker

LEMMA AtMostOne ==
  ASSUME NEW m
  PROVE  Cardinality({}) <= 1 /\ Cardinality({m}) <= 1
  <1>1. Cardinality({}) = 0 BY FS_EmptySet
  <1>2. Cardinality({m}) = 1 BY FS_Singleton
  <1> QED BY <1>1, <1>2

\* A worker that is moved out of the device is the one its thread joins.
LEMMA MovedOut ==
  ASSUME DriverTypeOK, NEW t \in {Server, Caller}, NEW e \in 0..Monitors, MoveOut(t, e)
  PROVE  /\ worker' \in 0..Workers /\ joins' \in [{Server, Caller} -> 0..Workers]
         /\ stop' \in [Worker -> BOOLEAN]
         /\ \A u \in {Server, Caller} : u # t => joins'[u] = joins[u]
         /\ \/ worker # 0 /\ (e = 0 \/ owner[worker] = e) /\ worker' = 0 /\ joins'[t] = worker
            \/ ~(worker # 0 /\ (e = 0 \/ owner[worker] = e))
               /\ worker' = worker /\ joins' = joins
  <1>1. CASE Matches(e)
    <2>1. /\ joins' = [joins EXCEPT ![t] = worker]
          /\ stop' = [stop EXCEPT ![worker] = TRUE] /\ worker' = 0
          /\ worker # 0 /\ (e = 0 \/ owner[worker] = e)
      BY <1>1 DEF MoveOut, Matches
    <2>2. worker \in 0..Workers /\ joins \in [{Server, Caller} -> 0..Workers]
          /\ stop \in [Worker -> BOOLEAN]
      BY DEF DriverTypeOK
    <2>3. stop' \in [Worker -> BOOLEAN]
      BY <2>1, <2>2, Zenon
    <2>4. /\ worker' \in 0..Workers /\ joins' \in [{Server, Caller} -> 0..Workers]
          /\ joins'[t] = worker
          /\ \A u \in {Server, Caller} : u # t => joins'[u] = joins[u]
      BY <2>1, <2>2, Constants
    <2> QED BY <2>1, <2>3, <2>4
  <1>2. CASE ~Matches(e)
    BY <1>2 DEF MoveOut, Matches, DriverTypeOK
  <1> QED BY <1>1, <1>2

LEMMA HasJoined ==
  ASSUME DriverTypeOK, NEW t \in {Server, Caller}, Joined(t)
  PROVE  /\ joins' \in [{Server, Caller} -> 0..Workers] /\ joins'[t] = 0
         /\ \A u \in {Server, Caller} : u # t => joins'[u] = joins[u]
         /\ \A w \in Worker : joins[t] = w => w \notin Alive
  <1>1. joins' = [joins EXCEPT ![t] = 0] /\ joins \in [{Server, Caller} -> 0..Workers]
    BY DEF Joined, DriverTypeOK
  <1>2. \A w \in Worker : joins[t] = w => w \notin Alive
    BY DEF Joined, Alive
  <1> QED BY <1>1, <1>2, Constants

LEMMA Steps ==
  ASSUME DriverNext
  PROVE  \/ OpenHandle \/ Close \/ (\E kind \in {"start", "stop"} : Request(kind))
         \/ TakeMonitor \/ Notify \/ UnassignInside \/ UnassignedInside \/ StopWorker
         \/ JoinWorker \/ Clear \/ CreateMonitor \/ Publish \/ Arrive \/ ArrivalFails \/ Arrived
         \/ \E m \in Monitor : BeginAssign(m) \/ BeginUnassign(m)
         \/ AssignStops \/ AssignJoins \/ AssignResets \/ AssignStarts \/ AssignSwaps
         \/ AssignEnds \/ Unassign \/ Unassigned
         \/ \E w \in Worker : AcquireImage(w) \/ WriteImage(w) \/ SeesStop(w) \/ Breaks(w)
  BY DEF DriverNext, ServeRequest, ServeCallback, WorkerStep
-----------------------------------------------------------------------------
(* The invariant, part by part.                                            *)

LEMMA DriverStart == DriverInit => DInv
  <1> SUFFICES ASSUME DriverInit PROVE DInv
    OBVIOUS
  <1>1. DriverTypeOK
    <2>1. Cardinality(arrived) <= 1
      BY AtMostOne DEF DriverInit
    <2>2. handle \in BOOLEAN /\ late \in BOOLEAN /\ stop \in [Worker -> BOOLEAN]
      BY DEF DriverInit
    <2>3. /\ owner \in [Worker -> 0..Monitors]
          /\ joins \in [{Server, Caller} -> 0..Workers]
          /\ phase \in [Worker -> {"none", "loop", "image", "done"}]
      BY Constants DEF DriverInit
    <2> QED BY <2>1, <2>2, <2>3, Constants DEF DriverInit, DriverTypeOK, Monitor
  <1>2. Places /\ Requests /\ News /\ Callbacks /\ Joins
    BY DEF DriverInit, Places, Requests, News, Callbacks, Joins, Unknown, Departing
  <1>3. Alive = {}
    BY DEF DriverInit, Alive
  <1>4. Threads /\ Serving /\ InTime
    BY <1>3 DEF DriverInit, Threads, Serving, InTime, Present
  <1> QED BY <1>1, <1>2, <1>4 DEF DInv

LEMMA PlacesStep == DInv /\ DriverNext => Places'
  <1> SUFFICES ASSUME DInv, DriverNext PROVE Places'
    OBVIOUS
  <1> USE DEF DInv, Places
  <1>1. CASE \/ OpenHandle \/ Close \/ (\E kind \in {"start", "stop"} : Request(kind))
    BY <1>1 DEF OpenHandle, Close, Request, deviceVars
  <1>2. CASE TakeMonitor BY <1>2 DEF TakeMonitor
  <1>3. CASE Notify BY <1>3 DEF Notify
  <1>4. CASE UnassignInside \/ UnassignedInside
    BY <1>4 DEF UnassignInside, UnassignedInside, deviceVars
  <1>5. CASE StopWorker \/ JoinWorker \/ Clear
    BY <1>5 DEF StopWorker, JoinWorker, Clear, deviceVars
  <1>6. CASE CreateMonitor BY <1>6 DEF CreateMonitor
  <1>7. CASE Publish BY <1>7 DEF Publish
  <1>8. CASE Arrive BY <1>8 DEF Arrive
  <1>9. CASE ArrivalFails BY <1>9 DEF ArrivalFails
  <1>10. CASE Arrived
    BY <1>10 DEF Arrived, deviceVars, News
  <1>11. CASE \E m \in Monitor : BeginAssign(m) \/ BeginUnassign(m)
    BY <1>11 DEF BeginAssign, BeginUnassign, requestVars, deviceVars
  <1>12. CASE \/ AssignStops \/ AssignJoins \/ AssignResets \/ AssignStarts \/ AssignSwaps
              \/ AssignEnds \/ Unassign \/ Unassigned
    BY <1>12 DEF AssignStops, AssignJoins, AssignResets, AssignStarts, AssignSwaps,
                 AssignEnds, Unassign, Unassigned, requestVars, deviceVars
  <1>13. CASE \E w \in Worker : AcquireImage(w) \/ WriteImage(w) \/ SeesStop(w) \/ Breaks(w)
    BY <1>13 DEF AcquireImage, WriteImage, SeesStop, Breaks, LeaveLoop, requestVars,
                 deviceVars
  <1> QED BY <1>1, <1>2, <1>3, <1>4, <1>5, <1>6, <1>7, <1>8, <1>9, <1>10, <1>11, <1>12,
             <1>13, Steps

\* The steps of callbacks and workers leave requests alone, those of workers callbacks.
LEMMA OthersKeep ==
  /\ (\E m \in Monitor : BeginAssign(m) \/ BeginUnassign(m))
       => UNCHANGED <<requestVars, deviceVars, threadVars>>
  /\ AssignStops \/ AssignJoins \/ AssignResets \/ AssignStarts \/ AssignSwaps \/ AssignEnds
       \/ Unassign \/ Unassigned
       => UNCHANGED <<requestVars, monitor, arrived, created, late, target>>
  /\ (\E w \in Worker : AcquireImage(w) \/ WriteImage(w) \/ SeesStop(w) \/ Breaks(w))
       => UNCHANGED <<requestVars, monitor, arrived, created, worker, late, callVars, owner,
                      stop, started, joins>>
  <1>1. (\E m \in Monitor : BeginAssign(m) \/ BeginUnassign(m))
          => UNCHANGED <<requestVars, deviceVars, threadVars>>
    BY DEF BeginAssign, BeginUnassign
  <1>2. AssignStops \/ AssignJoins \/ AssignResets \/ AssignStarts \/ AssignSwaps
          \/ AssignEnds \/ Unassign \/ Unassigned
          => UNCHANGED <<requestVars, monitor, arrived, created, late, target>>
    BY DEF AssignStops, AssignJoins, AssignResets, AssignStarts, AssignSwaps, AssignEnds,
           Unassign, Unassigned, deviceVars
  <1>3. (\E w \in Worker : AcquireImage(w) \/ WriteImage(w) \/ SeesStop(w) \/ Breaks(w))
          => UNCHANGED <<requestVars, monitor, arrived, created, worker, late, callVars,
                         owner, stop, started, joins>>
    BY DEF AcquireImage, WriteImage, SeesStop, Breaks, LeaveLoop, deviceVars
  <1> QED BY <1>1, <1>2, <1>3

LEMMA RequestsStep == DInv /\ DriverNext => Requests'
  <1> SUFFICES ASSUME DInv, DriverNext PROVE Requests'
    OBVIOUS
  <1> USE DEF Departing, Unknown
  <1>1. Requests /\ handle \in BOOLEAN /\ created \in Nat /\ Places
    BY DEF DInv, DriverTypeOK
  <1>2. CASE OpenHandle \/ Close
    BY <1>1, <1>2 DEF OpenHandle, Close, deviceVars, Requests
  <1>3. CASE \E kind \in {"start", "stop"} : Request(kind)
    BY <1>1, <1>3 DEF Request, deviceVars, Requests
  <1>4. CASE TakeMonitor \/ Notify \/ UnassignInside \/ UnassignedInside
    BY <1>1, <1>4 DEF TakeMonitor, Notify, UnassignInside, UnassignedInside, deviceVars,
                      Requests
  <1>5. CASE StopWorker \/ JoinWorker
    BY <1>1, <1>5 DEF StopWorker, JoinWorker, deviceVars, Requests
  <1>6. CASE Clear
    BY <1>1, <1>6 DEF Clear, Requests, Places
  <1>7. CASE CreateMonitor \/ Publish \/ Arrive \/ ArrivalFails
    BY <1>1, <1>7 DEF CreateMonitor, Publish, Arrive, ArrivalFails, Requests, Places
  <1>8. CASE Arrived
    BY <1>1, <1>8 DEF Arrived, deviceVars, Requests
  <1>9. CASE UNCHANGED <<requestVars, monitor, arrived, created>>
    BY <1>1, <1>9 DEF Requests, requestVars
  <1> QED BY <1>2, <1>3, <1>4, <1>5, <1>6, <1>7, <1>8, <1>9, Steps, OthersKeep
             DEF deviceVars

LEMMA NewsStep == DInv /\ DriverNext => News'
  <1> SUFFICES ASSUME DInv, DriverNext PROVE News'
    OBVIOUS
  <1> USE DEF Unknown
  <1>1. /\ News /\ Places /\ created \in Nat /\ created' \in {created, created + 1}
        /\ owner \in [Worker -> 0..Monitors]
        /\ {old, monitor, target, shown} \subseteq 0..created
        /\ \A w \in Worker : owner[w] \in 0..created
    <2>1. created' \in {created, created + 1}
      BY Steps, OthersKeep DEF OpenHandle, Close, Request, TakeMonitor, Notify,
         UnassignInside, UnassignedInside, StopWorker, JoinWorker, Clear, CreateMonitor,
         Publish, Arrive, ArrivalFails, Arrived, deviceVars
    <2> QED BY <2>1, Constants DEF DInv, DriverTypeOK, News
  <1>2. CASE OpenHandle \/ Close \/ (\E kind \in {"start", "stop"} : Request(kind))
    BY <1>1, <1>2 DEF OpenHandle, Close, Request, deviceVars, threadVars, callVars, News
  <1>3. CASE TakeMonitor \/ Notify \/ UnassignInside \/ UnassignedInside
    BY <1>1, <1>3 DEF TakeMonitor, Notify, UnassignInside, UnassignedInside, deviceVars,
                      threadVars, callVars, News
  <1>4. CASE StopWorker \/ JoinWorker \/ Clear
    BY <1>1, <1>4 DEF StopWorker, JoinWorker, Clear, deviceVars, threadVars, callVars, News
  <1>5. CASE CreateMonitor
    <2>1. /\ UNCHANGED <<old, monitor, shown, callVars, threadVars>>
          /\ \/ rpc' = "publish" /\ created' = created + 1
             \/ rpc' = "idle" /\ UNCHANGED created
      BY <1>5 DEF CreateMonitor
    <2> QED BY <1>1, <2>1 DEF News, callVars, threadVars
  <1>6. CASE Publish \/ Arrive \/ ArrivalFails \/ Arrived
    BY <1>1, <1>6 DEF Publish, Arrive, ArrivalFails, Arrived, deviceVars, threadVars,
                      callVars, News
  <1>7. CASE \E m \in Monitor : BeginAssign(m) \/ BeginUnassign(m)
    <2>1. PICK m \in arrived : target' = m
      BY <1>7 DEF BeginAssign, BeginUnassign
    <2>2. UNCHANGED <<requestVars, deviceVars, threadVars>>
      BY <1>7, OthersKeep
    <2>3. m \in 0..created /\ ~Unknown
      <3>1. rpc \in {"idle", "take", "notify", "unassign", "unassigned", "stop", "join",
                     "clear", "create", "publish", "arrive", "fail", "arrived"}
        BY DEF DInv, DriverTypeOK
      <3> QED BY <1>1, <2>1, <3>1 DEF Places, News
    <2> QED BY <1>1, <2>1, <2>2, <2>3 DEF News, requestVars, deviceVars, threadVars
  <1>8. CASE AssignStarts
    <2>1. /\ UNCHANGED <<requestVars, deviceVars, target>>
          /\ \A w \in Worker : owner'[w] \in {owner[w], target}
      BY <1>1, <1>8 DEF AssignStarts
    <2> QED BY <1>1, <2>1 DEF News, requestVars, deviceVars
  <1>9. CASE \/ AssignStops \/ AssignJoins \/ AssignResets \/ AssignSwaps
             \/ AssignEnds \/ Unassign \/ Unassigned
    <2>1. /\ UNCHANGED <<requestVars, monitor, created, target, owner>>
          /\ shown' \in {shown, 0}
      BY <1>9 DEF AssignStops, AssignJoins, AssignResets, AssignSwaps, AssignEnds, Unassign,
                  Unassigned, deviceVars, threadVars
    <2> QED BY <1>1, <2>1 DEF News, requestVars
  <1>10. CASE \E w \in Worker : AcquireImage(w) \/ WriteImage(w) \/ SeesStop(w) \/ Breaks(w)
    <2>1. /\ UNCHANGED <<requestVars, monitor, created, callVars, owner>>
          /\ shown' = shown \/ \E w \in Worker : shown' = owner[w]
      BY <1>10 DEF AcquireImage, WriteImage, SeesStop, Breaks, LeaveLoop, deviceVars
    <2> QED BY <1>1, <2>1 DEF News, requestVars, callVars
  <1> QED BY <1>2, <1>3, <1>4, <1>5, <1>6, <1>7, <1>8, <1>9, <1>10, Steps

\* A request's steps leave callbacks and the workers alone, but for the one they stop.
LEMMA RequestsKeep ==
  /\ OpenHandle \/ Close \/ (\E kind \in {"start", "stop"} : Request(kind)) \/ TakeMonitor
       \/ Notify \/ Clear \/ CreateMonitor \/ Publish \/ Arrive \/ ArrivalFails \/ Arrived
       => UNCHANGED <<worker, callVars, threadVars>>
  /\ UnassignInside \/ StopWorker
       => MoveOut(Server, old) /\ UNCHANGED <<callVars, owner, phase, started>>
  /\ UnassignedInside \/ JoinWorker
       => Joined(Server) /\ UNCHANGED <<worker, callVars, owner, phase, stop, started>>
  <1>1. OpenHandle \/ Close \/ (\E kind \in {"start", "stop"} : Request(kind)) \/ TakeMonitor
          \/ Notify \/ Clear \/ CreateMonitor \/ Publish \/ Arrive \/ ArrivalFails \/ Arrived
          => UNCHANGED <<worker, callVars, threadVars>>
    BY DEF OpenHandle, Close, Request, TakeMonitor, Notify, Clear, CreateMonitor, Publish,
           Arrive, ArrivalFails, Arrived, deviceVars
  <1>2. UnassignInside \/ StopWorker
          => MoveOut(Server, old) /\ UNCHANGED <<callVars, owner, phase, started>>
    BY DEF UnassignInside, StopWorker
  <1>3. UnassignedInside \/ JoinWorker
          => Joined(Server) /\ UNCHANGED <<worker, callVars, owner, phase, stop, started>>
    BY DEF UnassignedInside, JoinWorker, deviceVars
  <1> QED BY <1>1, <1>2, <1>3

LEMMA CallbacksStep == DInv /\ DriverNext => Callbacks'
  <1> SUFFICES ASSUME DInv, DriverNext PROVE Callbacks'
    OBVIOUS
  <1>1. /\ Callbacks /\ started \in 0..Workers /\ owner \in [Worker -> 0..Monitors]
        /\ arrived \subseteq Monitor
    BY DEF DInv, DriverTypeOK
  <1>2. CASE UNCHANGED <<callVars, owner, started>>
    BY <1>1, <1>2 DEF Callbacks, callVars
  <1>3. CASE \E m \in Monitor : BeginAssign(m) \/ BeginUnassign(m)
    BY <1>1, <1>3 DEF BeginAssign, BeginUnassign, threadVars, Callbacks, Monitor
  <1>4. CASE AssignStarts
    <2>1. CASE cpc' = "swap"
      <3>1. /\ started + 1 \in Worker /\ started' = started + 1 /\ target' = target
            /\ owner' = [owner EXCEPT ![started + 1] = target]
        BY <1>1, <1>4, <2>1, Constants DEF AssignStarts, Callbacks, Worker
      <3>2. owner'[started'] = target'
        BY <1>1, <3>1
      <3> QED BY <1>1, <1>4, <2>1, <3>1, <3>2 DEF AssignStarts, Callbacks
    <2>2. CASE cpc' = "idle"
      BY <2>2 DEF Callbacks
    <2> QED BY <1>4, <2>1, <2>2 DEF AssignStarts
  <1>5. CASE \/ AssignStops \/ AssignJoins \/ AssignResets \/ AssignSwaps
             \/ AssignEnds \/ Unassign \/ Unassigned
    BY <1>1, <1>5 DEF AssignStops, AssignJoins, AssignResets, AssignSwaps, AssignEnds,
                      Unassign, Unassigned, threadVars, Callbacks
  <1>6. \/ UNCHANGED <<callVars, owner, started>>
        \/ \E m \in Monitor : BeginAssign(m) \/ BeginUnassign(m)
        \/ AssignStarts
        \/ \/ AssignStops \/ AssignJoins \/ AssignResets \/ AssignSwaps
           \/ AssignEnds \/ Unassign \/ Unassigned
    BY Steps, RequestsKeep, OthersKeep DEF threadVars
  <1> QED BY <1>2, <1>3, <1>4, <1>5, <1>6

LEMMA JoinsStep == DInv /\ DriverNext => Joins'
  <1> SUFFICES ASSUME DInv, DriverNext PROVE Joins'
    OBVIOUS
  <1>1. DriverTypeOK /\ Joins /\ joins \in [{Server, Caller} -> 0..Workers] /\ Server # Caller
        /\ old \in 0..Monitors /\ target \in 0..Monitors
    BY Constants DEF DInv, DriverTypeOK
  <1>2. CASE \/ OpenHandle \/ Close \/ (\E kind \in {"start", "stop"} : Request(kind))
             \/ TakeMonitor \/ Notify \/ Clear
             \/ CreateMonitor \/ Publish \/ Arrive \/ ArrivalFails \/ Arrived
    <2>1. UNCHANGED <<cpc, joins>>
      BY <1>2, RequestsKeep DEF callVars, threadVars
    <2>2. rpc \notin {"unassigned", "join"}
      BY <1>2 DEF OpenHandle, Close, Request, TakeMonitor, Notify, Clear, CreateMonitor,
                  Publish, Arrive, ArrivalFails, Arrived
    <2> QED BY <1>1, <2>1, <2>2 DEF Joins
  <1>3. CASE UnassignInside \/ StopWorker
    <2>1. /\ MoveOut(Server, old) /\ cpc' = cpc
          /\ rpc' \in {"unassigned", "join"}
      BY <1>3 DEF UnassignInside, StopWorker, callVars
    <2>2. joins'[Caller] = joins[Caller]
      BY <1>1, <2>1, MovedOut
    <2> QED BY <1>1, <2>1, <2>2 DEF Joins
  <1>4. CASE UnassignedInside \/ JoinWorker
    <2>1. Joined(Server) /\ cpc' = cpc
      BY <1>4 DEF UnassignedInside, JoinWorker, callVars
    <2>2. joins'[Server] = 0 /\ joins'[Caller] = joins[Caller]
      BY <1>1, <2>1, HasJoined
    <2> QED BY <1>1, <2>1, <2>2 DEF Joins
  <1>5. CASE \E m \in Monitor : BeginAssign(m) \/ BeginUnassign(m)
    BY <1>1, <1>5 DEF BeginAssign, BeginUnassign, requestVars, threadVars, Joins
  <1>6. CASE AssignStops \/ Unassign
    <2>1. MoveOut(Caller, target) /\ rpc' = rpc /\ cpc' \in {"join", "unassigned"}
      BY <1>6 DEF AssignStops, Unassign, requestVars
    <2>2. joins'[Server] = joins[Server]
      BY <1>1, <2>1, MovedOut
    <2> QED BY <1>1, <2>1, <2>2 DEF Joins
  <1>7. CASE AssignJoins \/ AssignEnds \/ Unassigned
    <2>1. Joined(Caller) /\ rpc' = rpc
      BY <1>7 DEF AssignJoins, AssignEnds, Unassigned, requestVars
    <2>2. joins'[Caller] = 0 /\ joins'[Server] = joins[Server]
      BY <1>1, <2>1, HasJoined
    <2> QED BY <1>1, <2>1, <2>2 DEF Joins
  <1>8. CASE AssignResets \/ AssignStarts
    BY <1>1, <1>8 DEF AssignResets, AssignStarts, requestVars, threadVars, Joins
  <1>9. CASE AssignSwaps
    <2>1. rpc' = rpc /\ cpc' = "discard" /\ joins'[Server] = joins[Server]
      BY <1>1, <1>9 DEF AssignSwaps, requestVars
    <2> QED BY <1>1, <2>1 DEF Joins
  <1>10. CASE \E w \in Worker : AcquireImage(w) \/ WriteImage(w) \/ SeesStop(w) \/ Breaks(w)
    BY <1>1, <1>10, OthersKeep DEF requestVars, callVars, Joins
  <1> QED BY <1>2, <1>3, <1>4, <1>5, <1>6, <1>7, <1>8, <1>9, <1>10, Steps

\* The only worker that a callback's steps set going is the one just started.
LEMMA AliveKept ==
  ASSUME DInv, DriverNext
  PROVE  /\ \A w \in Alive' : w \in Alive \/ (AssignStarts /\ cpc' = "swap" /\ w = started')
         /\ \A w \in Worker : phase[w] = "none" /\ phase'[w] # "none"
              => AssignStarts /\ started' = w /\ cpc' = "swap"
         /\ started \in 0..Workers /\ started' >= started
  <1>1. /\ phase \in [Worker -> {"none", "loop", "image", "done"}]
        /\ started \in 0..Workers /\ Callbacks
    BY DEF DInv, DriverTypeOK
  <1>2. CASE UNCHANGED <<phase, started>>
    BY <1>1, <1>2, Constants DEF Alive
  <1>3. CASE AssignStarts
    <2>1. CASE UNCHANGED <<phase, started>>
      BY <1>1, <2>1, Constants DEF Alive
    <2>2. CASE /\ cpc' = "swap" /\ started' = started + 1
               /\ phase' = [phase EXCEPT ![started + 1] = "loop"]
      BY <1>1, <1>3, <2>2, Constants DEF Alive
    <2> QED BY <1>3, <2>1, <2>2 DEF AssignStarts
  <1>4. CASE \E w \in Worker : AcquireImage(w) \/ WriteImage(w) \/ SeesStop(w) \/ Breaks(w)
    <2>1. started' = started
      BY <1>4, OthersKeep
    <2>2. PICK w \in Worker : /\ phase[w] \in {"loop", "image"}
                              /\ \E to \in {"loop", "image", "done"} :
                                   phase' = [phase EXCEPT ![w] = to]
      BY <1>4 DEF AcquireImage, WriteImage, SeesStop, Breaks, LeaveLoop, At
    <2> QED BY <1>1, <2>1, <2>2, Constants DEF Alive
  <1>5. CASE AssignStops \/ AssignJoins \/ AssignResets \/ AssignSwaps \/ AssignEnds
             \/ Unassign \/ Unassigned
    <2>1. UNCHANGED <<phase, started>>
      BY <1>5 DEF AssignStops, AssignJoins, AssignResets, AssignSwaps, AssignEnds, Unassign,
                  Unassigned, threadVars
    <2> QED BY <1>2, <2>1
  <1>6. CASE \E m \in Monitor : BeginAssign(m) \/ BeginUnassign(m)
    BY <1>2, <1>6, OthersKeep DEF threadVars
  <1> QED BY <1>2, <1>3, <1>4, <1>5, <1>6, Steps, RequestsKeep DEF threadVars

LEMMA ThreadsStep == DInv /\ DriverNext => Threads'
  <1> SUFFICES ASSUME DInv, DriverNext PROVE Threads'
    OBVIOUS
  <1>1. /\ DriverTypeOK /\ Joins /\ Threads /\ Callbacks
        /\ joins \in [{Server, Caller} -> 0..Workers] /\ Server # Caller
        /\ old \in 0..Monitors /\ target \in 0..Monitors
        /\ worker \in 0..Workers /\ started \in 0..Workers
    BY Constants DEF DInv, DriverTypeOK
  <1>2. /\ \A w \in Alive' : w \in Alive \/ (AssignStarts /\ cpc' = "swap" /\ w = started')
        /\ \A w \in Worker : phase[w] = "none" /\ phase'[w] # "none"
             => AssignStarts /\ started' = w /\ cpc' = "swap"
        /\ started' >= started
    BY AliveKept
  <1>3. started' \in Nat
    <2>1. started' \in {started, started + 1}
      BY Steps, RequestsKeep, OthersKeep DEF AssignStops, AssignJoins, AssignResets,
         AssignStarts, AssignSwaps, AssignEnds, Unassign, Unassigned, threadVars
    <2> QED BY <1>1, <2>1
  <1>4. \A w \in Worker : phase'[w] # "none" => w <= started'
    BY <1>1, <1>2, <1>3 DEF Threads, Worker
  <1>5. Alive \subseteq Worker
    BY DEF Alive
  <1> DEFINE AllHeld == \A w \in Alive' : \/ w = worker' \/ joins'[Server] = w
                                          \/ joins'[Caller] = w
                                          \/ (cpc' = "swap" /\ w = started')
  <1>6. worker' <= started' /\ AllHeld
    <2>1. CASE \/ OpenHandle \/ Close \/ (\E kind \in {"start", "stop"} : Request(kind))
               \/ TakeMonitor \/ Notify \/ Clear
               \/ CreateMonitor \/ Publish \/ Arrive \/ ArrivalFails \/ Arrived
      <3>1. UNCHANGED <<worker, cpc, joins, started, phase>>
        BY <2>1, RequestsKeep DEF callVars, threadVars
      <3> QED BY <1>1, <3>1 DEF Threads, Alive
    <2>2. CASE UnassignInside \/ StopWorker
      <3>1. MoveOut(Server, old) /\ UNCHANGED <<cpc, started, phase>>
        BY <2>2, RequestsKeep DEF callVars
      <3>2. joins[Server] = 0
        BY <1>1, <2>2 DEF Joins, UnassignInside, StopWorker
      <3>3. /\ joins'[Caller] = joins[Caller]
            /\ (worker' = 0 /\ joins'[Server] = worker) \/ UNCHANGED <<worker, joins>>
        BY <1>1, <3>1, MovedOut
      <3>4. Alive' = Alive
        BY <3>1 DEF Alive
      <3> QED BY <1>1, <1>5, <3>1, <3>2, <3>3, <3>4, Constants DEF Threads, Worker
    <2>3. CASE UnassignedInside \/ JoinWorker
      <3>1. Joined(Server) /\ UNCHANGED <<worker, cpc, started, phase>>
        BY <2>3, RequestsKeep DEF callVars
      <3>2. /\ joins'[Caller] = joins[Caller]
            /\ \A w \in Worker : joins[Server] = w => w \notin Alive
        BY <1>1, <3>1, HasJoined
      <3>3. Alive' = Alive
        BY <3>1 DEF Alive
      <3> QED BY <1>1, <1>5, <3>1, <3>2, <3>3 DEF Threads
    <2>4. CASE \E m \in Monitor : BeginAssign(m) \/ BeginUnassign(m)
      <3>1. UNCHANGED <<worker, joins, started, phase>> /\ cpc = "idle"
        BY <2>4 DEF BeginAssign, BeginUnassign, deviceVars, threadVars
      <3> QED BY <1>1, <3>1 DEF Threads, Alive
    <2>5. CASE AssignStops \/ Unassign
      <3>1. MoveOut(Caller, target) /\ UNCHANGED <<started, phase>>
            /\ cpc \in {"stop", "unassign"}
        BY <2>5 DEF AssignStops, Unassign
      <3>2. joins[Caller] = 0
        BY <1>1, <3>1 DEF Joins
      <3>3. /\ joins'[Server] = joins[Server]
            /\ (worker' = 0 /\ joins'[Caller] = worker) \/ UNCHANGED <<worker, joins>>
        BY <1>1, <3>1, MovedOut
      <3>4. Alive' = Alive
        BY <3>1 DEF Alive
      <3> QED BY <1>1, <1>5, <3>1, <3>2, <3>3, <3>4, Constants DEF Threads, Worker
    <2>6. CASE AssignJoins \/ AssignEnds \/ Unassigned
      <3>1. Joined(Caller) /\ UNCHANGED <<worker, started, phase>>
            /\ cpc \in {"join", "discard", "unassigned"}
        BY <2>6 DEF AssignJoins, AssignEnds, Unassigned, deviceVars
      <3>2. /\ joins'[Server] = joins[Server]
            /\ \A w \in Worker : joins[Caller] = w => w \notin Alive
        BY <1>1, <3>1, HasJoined
      <3>3. Alive' = Alive
        BY <3>1 DEF Alive
      <3> QED BY <1>1, <1>5, <3>1, <3>2, <3>3 DEF Threads
    <2>7. CASE AssignResets
      <3>1. UNCHANGED <<worker, joins, started, phase>> /\ cpc = "reset"
        BY <2>7 DEF AssignResets, threadVars
      <3> QED BY <1>1, <3>1 DEF Threads, Alive
    <2>8. CASE AssignStarts
      <3>1. UNCHANGED <<worker, joins>> /\ cpc = "start"
        BY <2>8 DEF AssignStarts, deviceVars
      <3> QED BY <1>1, <1>2, <1>3, <3>1 DEF Threads
    <2>9. CASE AssignSwaps
      <3>1. /\ cpc = "swap" /\ UNCHANGED <<started, phase>>
            /\ joins'[Server] = joins[Server]
            /\ \/ worker' = started /\ joins'[Caller] = worker
               \/ worker' = worker /\ joins'[Caller] = started
        BY <1>1, <2>9 DEF AssignSwaps
      <3>2. joins[Caller] = 0
        BY <1>1, <3>1 DEF Joins
      <3>3. Alive' = Alive
        BY <3>1 DEF Alive
      <3> QED BY <1>1, <1>5, <3>1, <3>2, <3>3, Constants DEF Threads, Worker
    <2>10. CASE \E w \in Worker : AcquireImage(w) \/ WriteImage(w) \/ SeesStop(w) \/ Breaks(w)
      <3>1. UNCHANGED <<worker, joins, started, cpc>>
        BY <2>10, OthersKeep DEF callVars
      <3>2. \A w \in Alive' : w \in Alive \/ (cpc' = "swap" /\ w = started')
        BY <1>2
      <3> QED BY <1>1, <3>1, <3>2 DEF Threads
    <2> QED BY <2>1, <2>2, <2>3, <2>4, <2>5, <2>6, <2>7, <2>8, <2>9, <2>10, Steps
  <1> QED BY <1>4, <1>6 DEF Threads

LEMMA ServingStep == DInv /\ DriverNext => Serving'
  <1> SUFFICES ASSUME DInv, DriverNext PROVE Serving'
    OBVIOUS
  <1> USE DEF Stopping
  <1>1. /\ DriverTypeOK /\ Places /\ News /\ Callbacks /\ Serving /\ Threads
        /\ old \in 0..Monitors /\ target \in 0..Monitors
        /\ worker \in 0..Workers /\ started \in 0..Workers
        /\ owner \in [Worker -> 0..Monitors]
        /\ worker # 0 => worker \in Worker
    BY Constants DEF DInv, DriverTypeOK, Worker
  <1>2. CASE OpenHandle \/ Close \/ (\E kind \in {"start", "stop"} : Request(kind))
    BY <1>1, <1>2 DEF OpenHandle, Close, Request, deviceVars, threadVars, Serving
  <1>3. CASE TakeMonitor
    BY <1>1, <1>3 DEF TakeMonitor, threadVars, Serving
  <1>4. CASE Notify
    BY <1>1, <1>4 DEF Notify, threadVars, Serving
  <1>5. CASE UnassignInside \/ StopWorker
    <2>1. /\ MoveOut(Server, old) /\ UNCHANGED <<old, monitor, owner>> /\ monitor = 0
          /\ rpc \in {"unassign", "stop"} /\ rpc' \in {"unassigned", "join"}
          /\ rpc = "unassign" => rpc' = "unassigned"
      BY <1>1, <1>5 DEF UnassignInside, StopWorker, Places
    <2>2. \/ worker' = 0
          \/ worker' = worker /\ ~(worker # 0 /\ (old = 0 \/ owner[worker] = old))
      BY <1>1, <2>1, MovedOut
    <2> QED BY <1>1, <2>1, <2>2 DEF Serving
  <1>6. CASE UnassignedInside \/ JoinWorker
    BY <1>1, <1>6 DEF UnassignedInside, JoinWorker, deviceVars, Serving
  <1>7. CASE Clear \/ CreateMonitor \/ Publish \/ Arrive \/ Arrived
    <2>1. UNCHANGED <<worker, owner, old>> /\ (monitor' = monitor \/ (Publish /\ monitor = 0))
      BY <1>1, <1>7 DEF Clear, CreateMonitor, Publish, Arrive, Arrived, deviceVars, threadVars,
                        Places
    <2>2. rpc \in {"clear", "create", "publish", "arrive", "arrived"}
      BY <1>7 DEF Clear, CreateMonitor, Publish, Arrive, Arrived
    <2>3. Publish => rpc = "publish"
      BY DEF Publish
    <2> QED BY <1>1, <2>1, <2>2, <2>3 DEF Serving
  <1>8. CASE ArrivalFails
    <2>1. rpc = "fail" /\ UNCHANGED <<worker, owner>> /\ monitor = created
      BY <1>1, <1>8 DEF ArrivalFails, threadVars, Places
    <2>2. worker = 0
      BY <1>1, <2>1 DEF Serving, News, Unknown
    <2> QED BY <2>1, <2>2 DEF Serving
  <1>9. CASE \E m \in Monitor : BeginAssign(m) \/ BeginUnassign(m)
    BY <1>1, <1>9, OthersKeep DEF requestVars, deviceVars, threadVars, Serving
  <1>10. CASE AssignStops \/ Unassign
    <2>1. MoveOut(Caller, target) /\ UNCHANGED <<old, monitor, owner, rpc>>
      BY <1>10 DEF AssignStops, Unassign, requestVars
    <2>2. worker' \in {0, worker}
      BY <1>1, <2>1, MovedOut
    <2> QED BY <1>1, <2>1, <2>2 DEF Serving
  <1>11. CASE AssignJoins \/ AssignEnds \/ Unassigned \/ AssignResets
    BY <1>1, <1>11 DEF AssignJoins, AssignEnds, Unassigned, AssignResets, requestVars,
                       deviceVars, threadVars, Serving
  <1>12. CASE AssignStarts
    <2>1. /\ UNCHANGED <<old, monitor, rpc, worker>>
          /\ owner' = owner \/ owner' = [owner EXCEPT ![started + 1] = target]
      BY <1>12 DEF AssignStarts, requestVars, deviceVars
    <2>2. worker # 0 => owner'[worker] = owner[worker]
      BY <1>1, <2>1 DEF Threads
    <2> QED BY <1>1, <2>1, <2>2 DEF Serving
  <1>13. CASE AssignSwaps
    <2>1. /\ UNCHANGED <<old, monitor, rpc, owner>> /\ cpc = "swap"
          /\ worker' = worker \/ (worker' = started /\ monitor = target)
      BY <1>13 DEF AssignSwaps, StillThere, requestVars
    <2> QED BY <1>1, <2>1 DEF Serving, Callbacks
  <1>14. CASE \E w \in Worker : AcquireImage(w) \/ WriteImage(w) \/ SeesStop(w) \/ Breaks(w)
    BY <1>1, <1>14, OthersKeep DEF requestVars, Serving
  <1> QED BY <1>2, <1>3, <1>4, <1>5, <1>6, <1>7, <1>8, <1>9, <1>10, <1>11, <1>12, <1>13,
             <1>14, Steps

\* When depart() is done and no callback is under way, nothing runs.
LEMMA NothingRuns ==
  ASSUME DInv, rpc \in {"clear", "create", "publish", "arrive", "fail", "idle"}, cpc = "idle",
         rpc = "idle" => monitor = 0
  PROVE  Alive = {}
  <1>1. /\ Places /\ News /\ Joins /\ Threads /\ Serving /\ worker \in 0..Workers
        /\ Workers \in Nat
    BY Constants DEF DInv, DriverTypeOK
  <1>2. worker = 0
    <2>1. rpc \in {"arrive", "fail"} => monitor = created
      BY <1>1 DEF Places
    <2>2. rpc \in {"clear", "create", "publish", "idle"} => monitor = 0
      BY <1>1 DEF Places
    <2>3. worker # 0 => worker \in Worker
      BY <1>1 DEF Worker
    <2> QED BY <1>1, <2>1, <2>2, <2>3 DEF Serving, Stopping, News, Unknown
  <1>3. joins[Server] = 0 /\ joins[Caller] = 0
    BY <1>1 DEF Joins
  <1>4. \A w \in Alive : w # 0
    BY <1>1 DEF Alive, Worker
  <1> QED BY <1>1, <1>2, <1>3, <1>4 DEF Threads

LEMMA InTimeStep == DInv /\ DriverNext => InTime'
  <1> SUFFICES ASSUME DInv, DriverNext, ~late' PROVE InTime'
    BY DEF InTime
  <1> USE DEF Departing, Present
  <1>1. /\ DriverTypeOK /\ Places /\ News /\ Callbacks /\ InTime
        /\ owner \in [Worker -> 0..Monitors] /\ Alive \subseteq Worker
    BY DEF DInv, DriverTypeOK, Alive
  <1>2. CASE \/ OpenHandle \/ Close \/ (\E kind \in {"start", "stop"} : Request(kind))
             \/ TakeMonitor \/ Notify \/ UnassignInside \/ UnassignedInside \/ StopWorker
             \/ JoinWorker \/ CreateMonitor \/ Publish \/ Arrive \/ Arrived
    <2>1. UNCHANGED <<shown, late, callVars, owner, phase>>
      BY <1>2 DEF OpenHandle, Close, Request, TakeMonitor, Notify, UnassignInside,
         UnassignedInside, StopWorker, JoinWorker, CreateMonitor, Publish, Arrive, Arrived,
         deviceVars, threadVars
    <2>2. Present \subseteq Present'
      <3>1. CASE OpenHandle \/ Close \/ (\E kind \in {"start", "stop"} : Request(kind))
        BY <3>1 DEF OpenHandle, Close, Request, deviceVars
      <3>2. CASE TakeMonitor \/ Notify \/ UnassignInside \/ UnassignedInside
        BY <3>2 DEF TakeMonitor, Notify, UnassignInside, UnassignedInside, deviceVars
      <3>3. CASE StopWorker \/ JoinWorker
        BY <3>3 DEF StopWorker, JoinWorker, deviceVars
      <3>4. CASE CreateMonitor \/ Publish \/ Arrive \/ Arrived
        BY <1>1, <3>4 DEF CreateMonitor, Publish, Arrive, Arrived, deviceVars, Places
      <3> QED BY <1>2, <3>1, <3>2, <3>3, <3>4
    <2>3. Alive' = Alive
      BY <2>1 DEF Alive
    <2> QED BY <1>1, <2>1, <2>2, <2>3 DEF InTime, callVars
  <1>3. CASE Clear
    <2>1. /\ shown' = 0 /\ cpc = "idle" /\ cpc' = "idle" /\ phase' = phase /\ rpc = "clear"
      BY <1>3 DEF Clear, callVars, threadVars
    <2>2. Alive' = {}
      BY <2>1, NothingRuns DEF Alive
    <2> QED BY <2>1, <2>2 DEF InTime
  <1>4. CASE ArrivalFails
    <2>1. /\ rpc = "fail" /\ monitor = created /\ monitor' = 0 /\ rpc' = "idle"
          /\ UNCHANGED <<shown, late, callVars, owner, phase>>
      BY <1>1, <1>4 DEF ArrivalFails, Places, threadVars
    <2>2. /\ target # created /\ shown # created
          /\ \A w \in Worker : owner[w] # created
      BY <1>1, <2>1 DEF News, Unknown
    <2>3. Alive' = Alive
      BY <2>1 DEF Alive
    <2>4. Present = {0, created} /\ Present' = {0}
      BY <2>1
    <2> QED BY <1>1, <2>1, <2>2, <2>3, <2>4 DEF InTime, callVars
  <1>5. CASE \E m \in Monitor : BeginAssign(m) \/ BeginUnassign(m)
    <2>1. /\ target' \in arrived /\ UNCHANGED <<requestVars, deviceVars, threadVars>>
      BY <1>5, OthersKeep DEF BeginAssign, BeginUnassign
    <2>2. arrived \subseteq Present
      <3>1. rpc \in {"idle", "take", "notify", "unassign", "unassigned", "stop", "join",
                     "clear", "create", "publish", "arrive", "fail", "arrived"}
        BY <1>1 DEF DriverTypeOK
      <3> QED BY <1>1, <3>1 DEF Places
    <2>3. Alive' = Alive /\ Present' = Present
      BY <2>1 DEF Alive, threadVars, requestVars, deviceVars
    <2> QED BY <1>1, <2>1, <2>2, <2>3 DEF InTime, deviceVars, threadVars
  <1>6. CASE AssignStarts
    <2>1. /\ UNCHANGED <<requestVars, deviceVars, target>> /\ cpc = "start"
          /\ \/ UNCHANGED <<owner, phase>>
             \/ /\ owner' = [owner EXCEPT ![started + 1] = target]
                /\ phase' = [phase EXCEPT ![started + 1] = "loop"]
      BY <1>6 DEF AssignStarts
    <2>2. Present' = Present /\ late' = late /\ shown' = shown
      BY <2>1 DEF requestVars, deviceVars
    <2>3. phase \in [Worker -> {"none", "loop", "image", "done"}]
      BY <1>1 DEF DriverTypeOK
    <2>4. \A w \in Alive' : owner'[w] = target \/ (w \in Alive /\ owner'[w] = owner[w])
      BY <1>1, <2>1, <2>3 DEF Alive
    <2> QED BY <1>1, <2>1, <2>2, <2>4 DEF InTime
  <1>7. CASE \/ AssignStops \/ AssignJoins \/ AssignResets \/ AssignSwaps
             \/ AssignEnds \/ Unassign \/ Unassigned
    <2>1. UNCHANGED <<requestVars, monitor, late, target>>
      BY <1>7, OthersKeep
    <2>2. /\ UNCHANGED <<owner, phase>> /\ shown' \in {shown, 0} /\ cpc # "idle"
      BY <1>7 DEF AssignStops, AssignJoins, AssignResets, AssignSwaps, AssignEnds, Unassign,
                  Unassigned, threadVars, deviceVars
    <2>3. Alive' = Alive /\ Present' = Present
      BY <2>1, <2>2 DEF Alive, requestVars
    <2> QED BY <1>1, <2>1, <2>2, <2>3 DEF InTime
  <1>8. CASE \E w \in Worker : AcquireImage(w) \/ WriteImage(w) \/ SeesStop(w) \/ Breaks(w)
    <2>1. UNCHANGED <<requestVars, monitor, late, callVars, owner>>
      BY <1>8, OthersKeep
    <2>2. shown' = shown \/ \E w \in Alive : shown' = owner[w]
      BY <1>8 DEF AcquireImage, WriteImage, SeesStop, Breaks, LeaveLoop, deviceVars, At, Alive
    <2>3. ~AssignStarts
      BY <1>8 DEF AssignStarts, AcquireImage, WriteImage, SeesStop, Breaks, LeaveLoop, callVars
    <2>4. \A w \in Alive' : w \in Alive
      BY <2>3, AliveKept
    <2>5. Present' = Present
      BY <2>1 DEF requestVars
    <2> QED BY <1>1, <2>1, <2>2, <2>4, <2>5 DEF InTime, callVars
  <1> QED BY <1>2, <1>3, <1>4, <1>5, <1>6, <1>7, <1>8, Steps

LEMMA DriverTypeStep == DInv /\ DriverNext => DriverTypeOK'
  <1> SUFFICES ASSUME DInv, DriverNext PROVE DriverTypeOK'
    OBVIOUS
  <1>1. /\ DriverTypeOK /\ Places /\ Places' /\ Requests /\ Callbacks /\ Joins /\ News
        /\ Monitors \in Nat /\ Workers \in Nat /\ created \in 0..Monitors
        /\ old \in 0..Monitors /\ target \in 0..Monitors
    BY PlacesStep, Constants DEF DInv, DriverTypeOK
  <1>2. handle' \in BOOLEAN /\ late' \in BOOLEAN
    BY <1>1, Steps, RequestsKeep, OthersKeep, Zenon DEF DriverTypeOK, OpenHandle, Close,
       Request, TakeMonitor, Notify, UnassignInside, UnassignedInside, StopWorker, JoinWorker,
       Clear, CreateMonitor, Publish, Arrive, ArrivalFails, Arrived, deviceVars, requestVars
  <1>3. request' \in {"none", "start", "stop", "cleanup"}
    BY <1>1, Steps, OthersKeep DEF DriverTypeOK, OpenHandle, Close,
       Request, TakeMonitor, Notify, UnassignInside, UnassignedInside, StopWorker, JoinWorker,
       Clear, CreateMonitor, Publish, Arrive, ArrivalFails, Arrived, deviceVars, requestVars
  <1>4. rpc' \in {"idle", "take", "notify", "unassign", "unassigned", "stop", "join", "clear",
                  "create", "publish", "arrive", "fail", "arrived"}
    BY <1>1, Steps, OthersKeep DEF DriverTypeOK, OpenHandle, Close,
       Request, TakeMonitor, Notify, UnassignInside, UnassignedInside, StopWorker, JoinWorker,
       Clear, CreateMonitor, Publish, Arrive, ArrivalFails, Arrived, deviceVars, requestVars
  <1>5. cpc' \in {"idle", "stop", "join", "reset", "start", "swap", "discard",
                  "unassign", "unassigned"}
    BY <1>1, Steps, RequestsKeep, OthersKeep DEF DriverTypeOK, BeginAssign, BeginUnassign,
       AssignStops, AssignJoins, AssignResets, AssignStarts, AssignSwaps, AssignEnds, Unassign,
       Unassigned, callVars
  <1>6. created' \in 0..Monitors
    <2>1. CASE CreateMonitor
      <3>1. created < Monitors
        BY <1>1, <2>1 DEF Requests, CreateMonitor
      <3> QED BY <1>1, <2>1, <3>1 DEF CreateMonitor
    <2>2. CASE ~CreateMonitor
      <3>1. created' = created
        BY <2>2, Steps, OthersKeep DEF OpenHandle, Close, Request, TakeMonitor, Notify,
           UnassignInside, UnassignedInside, StopWorker, JoinWorker, Clear, Publish, Arrive,
           ArrivalFails, Arrived, deviceVars
      <3> QED BY <1>1, <3>1
    <2> QED BY <2>1, <2>2
  <1>7. {old', monitor', target', shown'} \subseteq 0..Monitors
    <2>1. News'
      BY NewsStep
    <2> QED BY <1>1, <1>6, <2>1 DEF News
  <1>8. arrived' \subseteq Monitor /\ Cardinality(arrived') <= 1
    <2>1. arrived' = {} \/ \E m \in {old', monitor', created'} : m # 0 /\ arrived' = {m}
      <3>1. created' # 0 \/ rpc' # "arrived"
        BY NewsStep DEF News
      <3> QED BY <1>1, <1>4, <3>1 DEF Places
    <2>2. {old', monitor', created'} \subseteq 0..Monitors
      BY <1>6, <1>7
    <2>3. CASE arrived' = {}
      BY <2>3, AtMostOne
    <2>4. CASE \E m \in {old', monitor', created'} : m # 0 /\ arrived' = {m}
      <3>1. PICK m \in {old', monitor', created'} : m # 0 /\ arrived' = {m}
        BY <2>4
      <3>2. Cardinality({m}) <= 1
        BY AtMostOne
      <3> QED BY <1>1, <2>2, <3>1, <3>2 DEF Monitor
    <2> QED BY <2>1, <2>3, <2>4
  <1>9. started' \in 0..Workers
    <2>1. CASE AssignStarts
      BY <1>1, <2>1 DEF AssignStarts, Callbacks, DriverTypeOK
    <2>2. CASE ~AssignStarts
      <3>1. started' = started
        BY <2>2, Steps, RequestsKeep, OthersKeep DEF AssignStops, AssignJoins, AssignResets,
           AssignSwaps, AssignEnds, Unassign, Unassigned, threadVars
      <3> QED BY <1>1, <3>1 DEF DriverTypeOK
    <2> QED BY <2>1, <2>2
  <1>10. worker' \in 0..Workers /\ joins' \in [{Server, Caller} -> 0..Workers]
         /\ stop' \in [Worker -> BOOLEAN]
    <2>1. CASE UnassignInside \/ StopWorker
      BY <1>1, <2>1, RequestsKeep, MovedOut
    <2>2. CASE AssignStops \/ Unassign
      <3>1. MoveOut(Caller, target)
        BY <2>2 DEF AssignStops, Unassign
      <3> QED BY <1>1, <3>1, MovedOut
    <2>3. CASE UnassignedInside \/ JoinWorker
      BY <1>1, <2>3, RequestsKeep, HasJoined DEF DriverTypeOK
    <2>4. CASE AssignJoins \/ AssignEnds \/ Unassigned
      <3>1. Joined(Caller) /\ UNCHANGED <<worker, stop>>
        BY <2>4 DEF AssignJoins, AssignEnds, Unassigned, deviceVars
      <3>2. joins' \in [{Server, Caller} -> 0..Workers]
        BY <1>1, <3>1, HasJoined
      <3> QED BY <1>1, <3>1, <3>2 DEF DriverTypeOK
    <2>5. CASE AssignSwaps
      <3>1. worker' \in 0..Workers /\ joins' \in [{Server, Caller} -> 0..Workers]
        BY <1>1, <2>5 DEF AssignSwaps, DriverTypeOK
      <3>2. stop' \in [Worker -> BOOLEAN]
        <4>1. \A w \in Worker : stop[w] \in BOOLEAN
          BY <1>1 DEF DriverTypeOK
        <4>2. stop' = [w \in Worker |-> stop[w] \/ w = joins'[Caller]]
          BY <2>5 DEF AssignSwaps
        <4> QED BY <4>1, <4>2
      <3> QED BY <3>1, <3>2
    <2>6. CASE UNCHANGED <<worker, joins, stop>>
      BY <1>1, <2>6 DEF DriverTypeOK
    <2>7. AssignResets \/ AssignStarts => UNCHANGED <<worker, joins, stop>>
      BY DEF AssignResets, AssignStarts, deviceVars, threadVars
    <2> QED BY <2>1, <2>2, <2>3, <2>4, <2>5, <2>6, <2>7, Steps, RequestsKeep, OthersKeep
            DEF deviceVars, threadVars
  <1>11. owner' \in [Worker -> 0..Monitors]
         /\ phase' \in [Worker -> {"none", "loop", "image", "done"}]
    <2>1. CASE AssignStarts
      BY <1>1, <2>1 DEF AssignStarts, DriverTypeOK
    <2>2. CASE \E w \in Worker : AcquireImage(w) \/ WriteImage(w) \/ SeesStop(w) \/ Breaks(w)
      <3>1. owner' = owner
        BY <2>2, OthersKeep
      <3>2. \E w \in Worker, to \in {"loop", "image", "done"} :
              phase' = [phase EXCEPT ![w] = to]
        BY <2>2 DEF AcquireImage, WriteImage, SeesStop, Breaks, LeaveLoop, At
      <3> QED BY <1>1, <3>1, <3>2 DEF DriverTypeOK
    <2>3. CASE UNCHANGED <<owner, phase>>
      BY <1>1, <2>3 DEF DriverTypeOK
    <2>4. AssignStops \/ AssignJoins \/ AssignResets \/ AssignSwaps \/ AssignEnds \/ Unassign
            \/ Unassigned => UNCHANGED <<owner, phase>>
      BY DEF AssignStops, AssignJoins, AssignResets, AssignSwaps, AssignEnds, Unassign,
             Unassigned, threadVars
    <2> QED BY <2>1, <2>2, <2>3, <2>4, Steps, RequestsKeep, OthersKeep DEF threadVars
  <1>12. mutex' \in {0, Server}
    <2>1. mutex' = mutex \/ mutex' = 0
      BY Steps DEF OpenHandle, Close, Request, TakeMonitor, Notify, UnassignInside,
         UnassignedInside, StopWorker, JoinWorker, Clear, CreateMonitor, Publish, Arrive,
         ArrivalFails, Arrived, BeginAssign, BeginUnassign, AssignStops, AssignJoins,
         AssignResets, AssignStarts, AssignSwaps, AssignEnds, Unassign, Unassigned,
         AcquireImage, WriteImage, SeesStop, Breaks, LeaveLoop, Locking
    <2> QED BY <1>1, <2>1 DEF DriverTypeOK
  <1>13. /\ DriverTypeOK' = (/\ handle' \in BOOLEAN
                             /\ request' \in {"none", "start", "stop", "cleanup"}
                             /\ rpc' \in {"idle", "take", "notify", "unassign", "unassigned",
                                          "stop", "join", "clear", "create", "publish",
                                          "arrive", "fail", "arrived"}
                             /\ cpc' \in {"idle", "stop", "join", "reset", "start", "swap",
                                          "discard", "unassign", "unassigned"}
                             /\ {old', monitor', created', target', shown'} \subseteq 0..Monitors
                             /\ arrived' \subseteq Monitor /\ Cardinality(arrived') <= 1
                             /\ worker' \in 0..Workers /\ started' \in 0..Workers
                             /\ owner' \in [Worker -> 0..Monitors]
                             /\ stop' \in [Worker -> BOOLEAN]
                             /\ phase' \in [Worker -> {"none", "loop", "image", "done"}]
                             /\ joins' \in [{Server, Caller} -> 0..Workers]
                             /\ mutex' \in {0, Server}
                             /\ late' \in BOOLEAN)
    BY Zenon DEF DriverTypeOK
  <1>14. {old', monitor', created', target', shown'} \subseteq 0..Monitors
    BY <1>6, <1>7
  <1> QED BY <1>2, <1>3, <1>4, <1>5, <1>8, <1>9, <1>10, <1>11, <1>12, <1>13, <1>14, Zenon
-----------------------------------------------------------------------------
(* The theorem.                                                            *)

LEMMA DInvStep == DInv /\ [DriverNext]_driverVars => DInv'
  <1> SUFFICES ASSUME DInv, [DriverNext]_driverVars PROVE DInv'
    OBVIOUS
  <1>1. CASE DriverNext
    <2>1. DriverTypeOK' /\ Places' /\ Requests' /\ News'
      BY <1>1, DriverTypeStep, PlacesStep, RequestsStep, NewsStep
    <2>2. Callbacks' /\ Joins' /\ Threads' /\ Serving' /\ InTime'
      BY <1>1, CallbacksStep, JoinsStep, ThreadsStep, ServingStep, InTimeStep
    <2> QED BY <2>1, <2>2 DEF DInv
  <1>2. CASE UNCHANGED driverVars
    BY <1>2 DEF driverVars, requestVars, deviceVars, callVars, threadVars, DInv, DriverTypeOK,
       Places, Requests, News, Callbacks, Joins, Threads, Serving, InTime, Present, Alive,
       Departing, Stopping, Unknown
  <1> QED BY <1>1, <1>2

LEMMA InStep == DInv => DriverInv
  <1> SUFFICES ASSUME DInv PROVE DriverInv
    OBVIOUS
  <1>1. /\ DriverTypeOK /\ Places /\ Requests /\ Joins /\ Threads /\ Serving /\ InTime
        /\ worker \in 0..Workers
    BY DEF DInv, DriverTypeOK
  <1>2. Quiet => NoOrphan
    <2> SUFFICES ASSUME Quiet, NEW w \in Alive
                 PROVE  w = worker /\ owner[w] = monitor /\ monitor \in arrived
      BY DEF NoOrphan
    <2>1. w # 0
      BY DEF Alive, Worker
    <2>2. w = worker
      BY <1>1, <2>1 DEF Threads, Joins, Quiet
    <2>3. monitor # 0 /\ owner[w] = monitor
      BY <1>1, <2>1, <2>2 DEF Serving, Stopping, Quiet
    <2> QED BY <1>1, <2>2, <2>3 DEF Places, Quiet
  <1>3. NothingLeft
    <2> SUFFICES ASSUME Quiet, ~handle PROVE monitor = 0 /\ arrived = {} /\ Alive = {}
      BY DEF NothingLeft
    <2>1. monitor = 0 /\ arrived = {}
      BY <1>1 DEF Quiet, Requests, Places
    <2> QED BY <2>1, NothingRuns DEF Quiet
  <1>4. StatusOfMonitor
    BY <1>1 DEF StatusOfMonitor, InTime, Present, Departing, Quiet
  <1> QED BY <1>1, <1>2, <1>3, <1>4 DEF DriverInv, NoOrphan

\* However requests, callbacks of IddCx and workers overlap: with nothing under way, what
\* runs is the device's own worker for the monitor there is, a host that has gone has left
\* neither monitor nor worker, and the status describes the monitor there is.  For any
\* number of monitors and workers.
THEOREM DriverInStep == DriverSpec => []DriverInv
  <1>1. DriverInit => DInv
    BY DriverStart
  <1>2. DInv /\ [DriverNext]_driverVars => DInv'
    BY DInvStep
  <1>3. DInv => DriverInv
    BY InStep
  <1> QED BY <1>1, <1>2, <1>3, PTL DEF DriverSpec
=============================================================================
