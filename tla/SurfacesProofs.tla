----------------------------- MODULE SurfacesProofs -----------------------------
(***************************************************************************)
(* What SharedSurfaces promises for any number of slots, texture sets,     *)
(* captures and generations: no texture is lost between driver and host,   *)
(* what is in one is what the driver's metadata says, and the encoder's    *)
(* images come in the order of their capture.                              *)
(***************************************************************************)
EXTENDS SharedSurfaces, WellFoundedInduction, TLAPS

\* Frames of a swapchain and captures advance together, so both tell the same order.
Numbered ==
  /\ frame <= clock
  /\ \A i \in Slot : slots[i].frame <= frame
  /\ \A i \in Slot : slots[i].frame # 0 => slots[i].capture + frame = slots[i].frame + clock
  /\ \A i, j \in Slot : (slots[i].frame # 0 /\ slots[i].frame = slots[j].frame) => i = j

\* Nothing holds an image from the future.
FromThePast ==
  /\ \A s \in Set, i \in Slot : pixels[s][i] <= clock
  /\ sample.pixels <= clock

\* The host has an encoder when it works for one.  Textures that are not registered yet
\* are out of the driver's reach and free.
HostReady ==
  /\ pc \in {"register", "offer"} => encoder # NoSet
  /\ pc = "register" =>
       /\ encoder \notin {open, reg.set} /\ seen = Unseen
       /\ hostGeneration = status.generation
       /\ \A i \in Slot : key[encoder][i] = 0
  /\ pc = "offer" => cursor \in Slot

\* The host's copy was made in this generation, or in one before.  What differs from a
\* copy of this generation was written later than all that is in it.
NewerThan(i, st) == \A k \in Slot : slots[i].frame > st.slots[k].frame
CopyIsOlder ==
  /\ status.generation <= generation
  /\ status.generation = generation =>
       \A i \in Slot : slots[i] = status.slots[i] \/ NewerThan(i, status)

\* While textures are registered, the host's copy is of this generation and the driver
\* writes to them or has yet to open them.
Serving ==
  Registered =>
    /\ status.generation = generation /\ hostGeneration = generation
    /\ pc \in {"idle", "offer"}
    /\ unread \/ open = encoder
    /\ \A i \in Slot : seen[i] <= frame

\* An encoder of the current generation has its textures registered.
HostCurrent ==
  /\ hostGeneration <= generation
  /\ (encoder # NoSet /\ hostGeneration = generation /\ pc \in {"idle", "offer"}) => Registered

\* A filled texture that the host's pass has left behind was filled after the copy.
PassedAreNew ==
  Registered /\ pc = "offer" =>
    \A i \in Slot : (i < cursor /\ key[encoder][i] = 1) => NewerThan(i, status)

\* A texture with an image older than the last sample will not be the next one: a newer
\* one is fresh, or it is released before this pass ends.
Old(i)      == key[encoder][i] = 1 /\ pixels[encoder][i] <= sample.pixels
Overtaken(i) ==
  \E n \in Slot : slots[n].frame > slots[i].frame /\ slots[n].frame > seen[n]
Released(i) ==
  pc = "offer" /\ i >= cursor /\ status.slots[i].frame > seen[i] /\ cursor > newest
OldAreOver == Registered => \A i \in Slot : Old(i) => Overtaken(i) \/ Released(i)

\* Until the pass comes to its choice, that is the newest of the slots it has yet to see,
\* and its image is newer than the last sample.
ChosenIsNewest ==
  (pc = "offer" /\ cursor <= newest) =>
    \A j \in FreshSlots(status, seen) :
      /\ newest \in FreshSlots(status, seen)
      /\ status.slots[j].frame <= status.slots[newest].frame
ChosenIsNew ==
  (/\ pc = "offer" /\ newest \in FreshSlots(status, seen) /\ cursor <= newest
   /\ key[encoder][newest] = 1)
  => pixels[encoder][newest] > sample.pixels

SInv ==
  /\ SlotInv /\ FilledAsAnnounced
  /\ Numbered /\ FromThePast /\ HostReady /\ CopyIsOlder /\ Serving /\ HostCurrent
  /\ PassedAreNew /\ OldAreOver /\ ChosenIsNewest /\ ChosenIsNew
-----------------------------------------------------------------------------
(* Operators.                                                              *)

\* A set of numbers that is not empty and has a bound has a maximum.
LEMMA Greatest ==
  ASSUME NEW S, S # {}, NEW bound \in Nat, NEW f \in [S -> 0..bound]
  PROVE  \E x \in S : \A y \in S : f[y] <= f[x]
<1> DEFINE T == {bound - f[x] : x \in S}
<1>1. T \subseteq Nat /\ T # {}
  OBVIOUS
<1>2. PICK m \in T : \A y \in T : ~(<<y, m>> \in OpToRel(<, Nat))
  BY <1>1, NatLessThanWellFounded, WFMin, Zenon
<1>3. PICK x \in S : m = bound - f[x]
  BY <1>2
<1>4. ASSUME NEW y \in S PROVE f[y] <= f[x]
  <2> DEFINE n == bound - f[y]
  <2>1. n \in T /\ n \in Nat /\ m \in Nat
    BY <1>1
  <2>2. ~(n < m)
    BY <1>2, <2>1 DEF OpToRel
  <2> QED BY <1>3, <2>1, <2>2
<1> QED BY <1>4

LEMMA SlotTypes ==
  /\ Slot \subseteq Nat /\ NoSlot \in Nat /\ NoSlot \notin Slot
  /\ \A i \in Slot : i < NoSlot
  /\ NoMeta \in Meta /\ NoSlots \in [Slot -> Meta] /\ Unseen \in [Slot -> 0..MaxCaptures]
BY SurfacesAssumption DEF Slot, NoSlot, NoMeta, Meta, NoSlots, Unseen

\* Newest() finds the fresh slot with the highest frame, if there is one.
LEMMA NewestSlot ==
  ASSUME NEW st \in Status, NEW sn \in [Slot -> 0..MaxCaptures]
  PROVE  /\ Newest(st, sn) \in Slot \cup {NoSlot}
         /\ Newest(st, sn) \in FreshSlots(st, sn) \/ Newest(st, sn) = NoSlot
         /\ \A j \in FreshSlots(st, sn) :
              /\ Newest(st, sn) \in FreshSlots(st, sn)
              /\ st.slots[j].frame <= st.slots[Newest(st, sn)].frame
<1> DEFINE F == FreshSlots(st, sn)
<1>1. F \subseteq Slot
  BY DEF FreshSlots
<1>2. CASE F = {}
  BY <1>2 DEF Newest
<1>3. CASE F # {}
  <2> DEFINE f == [i \in F |-> st.slots[i].frame]
  <2>1. \A i \in Slot : st.slots[i].frame \in 0..MaxCaptures
    BY DEF Status, Meta
  <2>2. f \in [F -> 0..MaxCaptures]
    BY <1>1, <2>1
  <2>3. MaxCaptures \in Nat
    BY SurfacesAssumption
  <2> HIDE DEF F, f
  <2>4. \E x \in F : \A y \in F : f[y] <= f[x]
    BY <1>3, <2>2, <2>3, Greatest
  <2>5. \E x \in F : \A y \in F : st.slots[y].frame <= st.slots[x].frame
    BY <2>4 DEF f
  <2> QED BY <1>1, <1>3, <2>5 DEF Newest, F
<1> QED BY <1>2, <1>3

\* Without a registration of this generation, nothing is registered.
LEMMA NotRegistered ==
  ASSUME reg' = NoReg
  PROVE  ~Registered'
BY DEF Registered, NoReg

\* What is only said of registered textures.
RegisteredInv == NoSlotLost /\ FilledAsAnnounced /\ Serving /\ PassedAreNew /\ OldAreOver

LEMMA Unregistered ==
  ASSUME ~Registered'
  PROVE  RegisteredInv'
BY DEF RegisteredInv, NoSlotLost, FilledAsAnnounced, Serving, PassedAreNew, OldAreOver, Registered

\* The parts that hold of the host and its copy, whatever is registered.
LoopInv == HostReady /\ CopyIsOlder /\ HostCurrent /\ ChosenIsNewest /\ ChosenIsNew

LEMMA Parts ==
  SInv <=> SurfacesTypeOK /\ RegisteredInv /\ Numbered /\ FromThePast /\ LoopInv
BY DEF SInv, SlotInv, RegisteredInv, LoopInv

\* The host's copy of this generation knows no frame that the driver has not counted.
LEMMA CopyCounts ==
  ASSUME SurfacesTypeOK, Numbered, CopyIsOlder, status.generation = generation
  PROVE  \A i \in Slot : /\ status.slots[i].frame <= frame
                         /\ status.slots[i].frame <= slots[i].frame
<1> SUFFICES ASSUME NEW i \in Slot
             PROVE  /\ status.slots[i].frame <= frame
                    /\ status.slots[i].frame <= slots[i].frame
  OBVIOUS
<1>1. status.slots[i] \in Meta /\ slots[i] \in Meta /\ frame \in Nat
  BY SurfacesAssumption DEF SurfacesTypeOK, Status
<1>2. slots[i] = status.slots[i] \/ NewerThan(i, status)
  BY DEF CopyIsOlder
<1> QED BY <1>1, <1>2, SurfacesAssumption DEF Numbered, NewerThan, Meta
-----------------------------------------------------------------------------
(* Steps.                                                                  *)

LEMMA InitHolds == SurfacesInit => SInv
<1> SUFFICES ASSUME SurfacesInit PROVE SInv
  OBVIOUS
<1> USE SurfacesAssumption, SlotTypes
<1>1. shown \in BOOLEAN /\ running \in BOOLEAN /\ unread \in BOOLEAN
  BY Zenon DEF SurfacesInit
<1>2. SurfacesTypeOK
  BY <1>1 DEF SurfacesInit, SurfacesTypeOK, NoReg, Status, Slot
<1>3. ~Registered
  BY DEF SurfacesInit, Registered
<1>4. Numbered /\ FromThePast /\ LoopInv
  BY DEF SurfacesInit, Numbered, FromThePast, LoopInv, HostReady, CopyIsOlder, HostCurrent,
     ChosenIsNewest, ChosenIsNew, NoSlots, NoMeta
<1>5. RegisteredInv
  BY <1>3 DEF RegisteredInv, NoSlotLost, FilledAsAnnounced, Serving, PassedAreNew, OldAreOver,
     Registered
<1> QED BY <1>2, <1>4, <1>5, Parts

\* A new generation, with or without a new swapchain or an image: what was registered is
\* not any more.
LEMMA GenerationStep ==
  ASSUME SInv, Assign \/ Commit \/ CaptureFirst \/ Stop
  PROVE  SInv' /\ sample' = sample
<1> USE SurfacesAssumption, SlotTypes
<1>1. /\ SurfacesTypeOK /\ Numbered /\ FromThePast
      /\ HostReady /\ CopyIsOlder /\ HostCurrent /\ ChosenIsNewest /\ ChosenIsNew
  BY Parts DEF LoopInv
<1>2. /\ generation < MaxGeneration /\ generation' = generation + 1 /\ reg' = NoReg
      /\ \/ slots' = slots /\ frame' = frame /\ clock' = clock
         \/ slots' = NoSlots /\ frame' = 0 /\ clock' = clock
         \/ slots' = NoSlots /\ frame' = frame + 1 /\ clock' = clock + 1 /\ clock < MaxCaptures
         \/ slots' = NoSlots /\ frame' = frame /\ clock' = clock
      /\ open' = open \/ open' = NoSet
      /\ UNCHANGED <<key, pixels, hostGeneration, seen, status, newest, cursor, sample>>
      /\ UNCHANGED <<pc, encoder>> \/ (pc' = "idle" /\ encoder' = NoSet)
  BY DEF Assign, Commit, CaptureFirst, Stop, NextGeneration, NextImage, captureVars, textureVars,
     hostSideVars, loopVars
<1>3. shown' \in BOOLEAN /\ running' \in BOOLEAN /\ unread' \in BOOLEAN
  BY <1>1, Zenon DEF Assign, Commit, CaptureFirst, Stop, NextImage, captureVars, SurfacesTypeOK
<1>4. /\ generation' \in 0..MaxGeneration /\ slots' \in [Slot -> Meta]
      /\ reg' \in [generation : 0..MaxGeneration, set : Set \cup {NoSet}]
      /\ frame' \in 0..MaxCaptures /\ clock' \in 0..MaxCaptures
  BY <1>1, <1>2 DEF SurfacesTypeOK, NoReg, Numbered
<1>5. SurfacesTypeOK'
  BY <1>1, <1>2, <1>3, <1>4 DEF SurfacesTypeOK
<1>6. RegisteredInv'
  BY <1>2, NotRegistered, Unregistered
<1>7. Numbered'
  <2>1. CASE slots' = slots /\ frame' = frame /\ clock' = clock
    BY <1>1, <2>1 DEF Numbered
  <2>2. CASE slots' = NoSlots
    BY <1>1, <1>2, <2>2 DEF Numbered, NoSlots, NoMeta, SurfacesTypeOK
  <2> QED BY <1>2, <2>1, <2>2
<1>8. FromThePast'
  BY <1>1, <1>2 DEF FromThePast, SurfacesTypeOK
<1>9. HostReady'
  <2>1. CASE UNCHANGED <<pc, encoder>>
    BY <1>1, <1>2, <2>1 DEF HostReady, NoReg
  <2>2. CASE pc' = "idle"
    BY <2>2 DEF HostReady
  <2> QED BY <1>2, <2>1, <2>2
<1>10. CopyIsOlder' /\ HostCurrent'
  BY <1>1, <1>2 DEF CopyIsOlder, HostCurrent, SurfacesTypeOK, Status
<1>11. ChosenIsNewest' /\ ChosenIsNew'
  BY <1>1, <1>2 DEF ChosenIsNewest, ChosenIsNew, FreshSlots
<1>12. LoopInv'
  BY <1>9, <1>10, <1>11 DEF LoopInv
<1> QED BY <1>2, <1>5, <1>6, <1>7, <1>8, <1>12 DEF SInv, SlotInv, RegisteredInv, LoopInv

LEMMA WorkerStops ==
  ASSUME SInv, Unassign \/ UNCHANGED surfacesVars
  PROVE  SInv' /\ sample' = sample
<1>1. /\ UNCHANGED <<generation, shown, slots, reg, open, unread, frame, clock, key, pixels>>
      /\ UNCHANGED <<pc, status, newest, cursor, encoder, hostGeneration, seen, sample>>
  BY DEF Unassign, surfacesVars, deviceVars, captureVars, textureVars, hostSideVars, loopVars
<1>2. running' \in BOOLEAN
  BY Parts, Zenon DEF Unassign, surfacesVars, captureVars, SurfacesTypeOK
<1>3. SurfacesTypeOK'
  BY <1>1, <1>2, Parts DEF SurfacesTypeOK
<1>4. Registered' <=> Registered
  BY <1>1 DEF Registered
<1>5. RegisteredInv'
  BY <1>1, <1>4, Parts DEF RegisteredInv, NoSlotLost, FilledAsAnnounced, Serving, PassedAreNew,
     NewerThan, OldAreOver, Old, Overtaken, Released
<1>6. Numbered' /\ FromThePast'
  BY <1>1, Parts DEF Numbered, FromThePast
<1>7. LoopInv'
  BY <1>1, <1>4, Parts DEF LoopInv, HostReady, CopyIsOlder, NewerThan, HostCurrent,
     ChosenIsNewest, ChosenIsNew, FreshSlots
<1> QED BY <1>1, <1>3, <1>5, <1>6, <1>7 DEF SInv, SlotInv, RegisteredInv, LoopInv

\* An image of the driver, copied into a free texture of the registered set or dropped.
LEMMA CaptureStep ==
  ASSUME SInv, Capture
  PROVE  SInv' /\ sample' = sample
<1> USE SurfacesAssumption, SlotTypes
<1>1. /\ SurfacesTypeOK /\ RegisteredInv /\ Numbered /\ FromThePast
      /\ HostReady /\ CopyIsOlder /\ HostCurrent /\ ChosenIsNewest /\ ChosenIsNew
  BY Parts DEF LoopInv
<1>2. /\ clock < MaxCaptures /\ clock' = clock + 1 /\ frame' = frame + 1
      /\ open' = Opened /\ unread' = (unread /\ ~NeedsOpen)
      /\ UNCHANGED <<generation, shown, reg, running>>
      /\ UNCHANGED <<pc, status, newest, cursor, encoder, hostGeneration, seen, sample>>
  BY DEF Capture, NextImage, hostSideVars, loopVars
<1>3. /\ frame \in Nat /\ clock \in Nat /\ frame <= clock
      /\ frame' \in 0..MaxCaptures /\ clock' \in 0..MaxCaptures
      /\ sample.pixels \in Nat
      /\ \A i \in Slot : /\ slots[i] \in Meta /\ slots[i].frame \in Nat /\ slots[i].capture \in Nat
                       /\ slots[i].frame <= frame /\ seen[i] \in Nat
  BY <1>1, <1>2 DEF SurfacesTypeOK, Numbered, Meta
<1>4. Opened \in Set \cup {NoSet}
  BY <1>1 DEF SurfacesTypeOK, Opened
<1>5. unread' \in BOOLEAN
  BY <1>1, <1>2, Zenon DEF SurfacesTypeOK
<1>6. Registered' <=> Registered
  BY <1>2 DEF Registered
<1>7. Registered => Opened = encoder
  BY <1>1 DEF RegisteredInv, Serving, Registered, Opened, NeedsOpen
<1>8. Serving'
  <2>1. \A i \in Slot : Registered => seen[i] <= frame'
    BY <1>1, <1>2, <1>3 DEF RegisteredInv, Serving
  <2> QED BY <1>1, <1>2, <1>6, <1>7, <2>1 DEF RegisteredInv, Serving
<1>9. HostCurrent'
  BY <1>1, <1>2, <1>6 DEF HostCurrent
<1>10. pc = "register" => encoder # Opened
  BY <1>1 DEF HostReady, Opened
<1>11. ChosenIsNewest'
  BY <1>1, <1>2 DEF ChosenIsNewest, FreshSlots
<1>12. CASE UNCHANGED <<slots, textureVars>>
  <2>1. UNCHANGED <<slots, key, pixels>>
    BY <1>12 DEF textureVars
  <2>2. SurfacesTypeOK'
    BY <1>1, <1>2, <1>3, <1>4, <1>5, <2>1 DEF SurfacesTypeOK
  <2>3. RegisteredInv'
    BY <1>1, <1>2, <1>6, <1>8, <2>1 DEF RegisteredInv, NoSlotLost, FilledAsAnnounced, PassedAreNew,
       NewerThan, OldAreOver, Old, Overtaken, Released
  <2>4. Numbered' /\ FromThePast'
    <3>1. \A s \in Set, i \in Slot : pixels[s][i] \in Nat
      BY <1>1 DEF SurfacesTypeOK
    <3>2. FromThePast'
      BY <1>1, <1>2, <1>3, <2>1, <3>1 DEF FromThePast
    <3>3. Numbered'
      BY <1>1, <1>2, <1>3, <2>1 DEF Numbered
    <3> QED BY <3>2, <3>3
  <2>5. HostReady' /\ CopyIsOlder' /\ ChosenIsNew'
    BY <1>1, <1>2, <1>10, <2>1 DEF HostReady, CopyIsOlder, NewerThan, ChosenIsNew, FreshSlots
  <2> QED BY <1>2, <1>9, <1>11, <2>2, <2>3, <2>4, <2>5
          DEF SInv, SlotInv, RegisteredInv
<1>13. CASE \E i \in Slot : FirstFree(Opened, i) /\ Write(Opened, i)
  <2>1. PICK i \in Slot : FirstFree(Opened, i) /\ Write(Opened, i)
    BY <1>13
  <2> DEFINE s == Opened
             m == [frame |-> frame + 1, capture |-> clock + 1]
  <2>2. s \in Set /\ key[s][i] = 0
    BY <1>4, <2>1 DEF FirstFree
  <2>3. m \in Meta /\ clock + 1 \in 0..MaxCaptures
    BY <1>2, <1>3 DEF Meta
  <2>4. /\ key' = [key EXCEPT ![s][i] = 1] /\ pixels' = [pixels EXCEPT ![s][i] = clock + 1]
        /\ slots' = [slots EXCEPT ![i] = m]
    BY <2>1 DEF Write
  <2> HIDE DEF s, m
  <2>5. /\ key' \in [Set -> [Slot -> {0, 1}]] /\ pixels' \in [Set -> [Slot -> 0..MaxCaptures]]
        /\ slots' \in [Slot -> Meta]
    BY <1>1, <2>2, <2>3, <2>4 DEF SurfacesTypeOK
  <2>6. /\ m.frame = frame + 1 /\ m.capture = clock + 1
        /\ slots'[i] = m /\ key'[s][i] = 1 /\ pixels'[s][i] = clock + 1
        /\ \A j \in Slot : j # i => slots'[j] = slots[j]
        /\ \A r \in Set, j \in Slot :
             (r # s \/ j # i) => key'[r][j] = key[r][j] /\ pixels'[r][j] = pixels[r][j]
    <3>1. m.frame = frame + 1 /\ m.capture = clock + 1
      BY DEF m
    <3>2. slots'[i] = m /\ \A j \in Slot : j # i => slots'[j] = slots[j]
      BY <1>1, <2>4 DEF SurfacesTypeOK
    <3>3. key'[s][i] = 1 /\ pixels'[s][i] = clock + 1
      BY <1>1, <2>2, <2>4 DEF SurfacesTypeOK
    <3>4. \A r \in Set, j \in Slot :
             (r # s \/ j # i) => key'[r][j] = key[r][j] /\ pixels'[r][j] = pixels[r][j]
      BY <1>1, <2>2, <2>4 DEF SurfacesTypeOK
    <3> QED BY <3>1, <3>2, <3>3, <3>4
  <2>7. SurfacesTypeOK'
    BY <1>1, <1>2, <1>3, <1>4, <1>5, <2>5 DEF SurfacesTypeOK
  <2>8. Numbered'
    <3>1. \A j \in Slot : slots'[j].frame <= frame'
      BY <1>2, <1>3, <2>6
    <3>2. \A j \in Slot : slots'[j].frame # 0 =>
            slots'[j].capture + frame' = slots'[j].frame + clock'
      <4> TAKE j \in Slot
      <4>1. CASE j = i
        BY <1>2, <1>3, <2>6, <4>1
      <4>2. CASE j # i
        <5>1. slots'[j] = slots[j] /\ slots[j] \in Meta
          BY <1>1, <2>6, <4>2 DEF SurfacesTypeOK
        <5>2. slots[j].capture \in Nat /\ slots[j].frame \in Nat
          BY <5>1 DEF Meta
        <5>3. slots[j].frame # 0 => slots[j].capture + frame = slots[j].frame + clock
          BY <1>1 DEF Numbered
        <5> QED BY <1>2, <1>3, <5>1, <5>2, <5>3
      <4> QED BY <4>1, <4>2
    <3>3. \A j, k \in Slot : (slots'[j].frame # 0 /\ slots'[j].frame = slots'[k].frame) => j = k
      <4> SUFFICES ASSUME NEW j \in Slot, NEW k \in Slot, slots'[j].frame # 0,
                          slots'[j].frame = slots'[k].frame
                   PROVE  j = k
        OBVIOUS
      <4>1. CASE j # i /\ k # i
        BY <1>1, <2>6, <4>1 DEF Numbered
      <4>2. CASE j = i \/ k = i
        BY <1>3, <2>6, <4>2
      <4> QED BY <4>1, <4>2
    <3>4. frame' <= clock'
      BY <1>2, <1>3
    <3> QED BY <3>1, <3>2, <3>3, <3>4 DEF Numbered
  <2>9. FromThePast'
    <3>1. \A r \in Set, j \in Slot : pixels[r][j] \in Nat /\ pixels[r][j] <= clock
      BY <1>1 DEF SurfacesTypeOK, FromThePast
    <3>2. \A r \in Set, j \in Slot : pixels'[r][j] <= clock + 1
      BY <1>3, <2>6, <3>1
    <3> QED BY <1>1, <1>2, <1>3, <3>2 DEF FromThePast
  <2>10. HostReady'
    <3>1. pc = "register" => \A j \in Slot : key'[encoder][j] = key[encoder][j]
      BY <1>1, <1>10, <2>6 DEF HostReady, SurfacesTypeOK, s
    <3> QED BY <1>1, <1>2, <1>10, <3>1 DEF HostReady
  <2>11. status.generation = generation => NewerThan(i, status)'
    BY <1>1, <1>2, <1>3, <2>6, CopyCounts DEF NewerThan, SurfacesTypeOK, Status, Meta
  <2>12. \A j \in Slot : j # i => (NewerThan(j, status)' <=> NewerThan(j, status))
    BY <1>2, <2>6 DEF NewerThan
  <2>13. CopyIsOlder'
    BY <1>1, <1>2, <2>6, <2>11, <2>12 DEF CopyIsOlder
  <2>14. RegisteredInv'
    <3>1. CASE ~Registered
      BY <1>6, <3>1, Unregistered
    <3>2. CASE Registered
      <4>1. encoder = s /\ status.generation = generation
        BY <1>1, <1>7, <3>2 DEF RegisteredInv, Serving, s
      <4>2. /\ NoSlotLost /\ FilledAsAnnounced /\ PassedAreNew /\ OldAreOver
            /\ \A j \in Slot : seen[j] <= frame
        BY <1>1, <3>2 DEF RegisteredInv, Serving
      <4>3. NoSlotLost'
        BY <1>2, <1>3, <1>6, <2>2, <2>6, <4>1, <4>2 DEF NoSlotLost
      <4>4. FilledAsAnnounced'
        BY <1>2, <1>6, <2>2, <2>6, <4>1, <4>2 DEF FilledAsAnnounced
      <4>5. PassedAreNew'
        BY <1>2, <1>6, <2>2, <2>6, <2>11, <2>12, <4>1, <4>2 DEF PassedAreNew
      <4>6. ASSUME NEW j \in Slot, Old(j)' PROVE Overtaken(j)' \/ Released(j)'
        <5>1. j # i
          BY <1>1, <1>2, <1>3, <2>6, <4>1, <4>6 DEF Old, FromThePast
        <5>2. Old(j)
          BY <1>2, <2>2, <2>6, <4>1, <4>6, <5>1 DEF Old
        <5>3. CASE Overtaken(j)
          <6>1. PICK n \in Slot : slots[n].frame > slots[j].frame /\ slots[n].frame > seen[n]
            BY <5>3 DEF Overtaken
          <6>2. slots'[n].frame > slots'[j].frame /\ slots'[n].frame > seen[n]
            BY <1>3, <2>6, <4>2, <5>1, <6>1 DEF Meta
          <6> QED BY <1>2, <6>2 DEF Overtaken
        <5>4. CASE Released(j)
          BY <1>2, <5>4 DEF Released
        <5> QED BY <3>2, <4>2, <5>2, <5>3, <5>4 DEF OldAreOver
      <4> QED BY <1>8, <4>3, <4>4, <4>5, <4>6 DEF RegisteredInv, OldAreOver
    <3> QED BY <3>1, <3>2
  <2>15. ChosenIsNew'
    <3> SUFFICES ASSUME pc' = "offer", newest' \in FreshSlots(status, seen)', cursor' <= newest',
                        key'[encoder'][newest'] = 1
                 PROVE  pixels'[encoder'][newest'] > sample'.pixels
      BY DEF ChosenIsNew
    <3>1. newest \in FreshSlots(status, seen) /\ newest \in Slot /\ encoder \in Set
      BY <1>1, <1>2 DEF FreshSlots, HostReady, SurfacesTypeOK
    <3>2. CASE newest = i /\ encoder = s
      BY <1>1, <1>2, <1>3, <2>6, <3>2 DEF FromThePast
    <3>3. CASE newest # i \/ encoder # s
      BY <1>1, <1>2, <2>6, <3>1, <3>3 DEF ChosenIsNew
    <3> QED BY <3>2, <3>3
  <2> QED BY <1>2, <1>9, <1>11, <2>7, <2>8, <2>9, <2>10, <2>13, <2>14, <2>15
          DEF SInv, SlotInv, RegisteredInv
<1> QED BY <1>12, <1>13 DEF Capture

\* The host reads the status: the pass that begins works with what is true now.
LEMMA ReadStatusStep ==
  ASSUME SInv, ReadStatus
  PROVE  SInv' /\ sample' = sample
<1> USE SurfacesAssumption, SlotTypes
<1>1. /\ SurfacesTypeOK /\ RegisteredInv /\ Numbered /\ FromThePast
      /\ HostReady /\ CopyIsOlder /\ HostCurrent /\ ChosenIsNewest /\ ChosenIsNew
  BY Parts DEF LoopInv
<1>2. /\ pc = "idle" /\ status' = [generation |-> generation, slots |-> slots]
      /\ UNCHANGED <<generation, shown, slots, reg, running, open, unread, frame, clock>>
      /\ UNCHANGED <<key, pixels, encoder, hostGeneration, seen, sample>>
  BY DEF ReadStatus, deviceVars, captureVars, textureVars
<1>3. \/ /\ encoder = NoSet \/ hostGeneration # generation
         /\ pc' = "open" /\ UNCHANGED <<newest, cursor>>
      \/ /\ encoder # NoSet /\ hostGeneration = generation
         /\ pc' = "offer" /\ newest' = Newest(status', seen) /\ cursor' = 0
  BY DEF ReadStatus, BeginOffer
<1>4. shown' \in BOOLEAN /\ running' \in BOOLEAN /\ unread' \in BOOLEAN
  BY <1>1, <1>2, Zenon DEF SurfacesTypeOK
<1>5. status' \in Status /\ status'.generation = generation /\ status'.slots = slots
  BY <1>1, <1>2 DEF SurfacesTypeOK, Status
<1>6. newest' \in Slot \cup {NoSlot}
  BY <1>1, <1>3, <1>5, NewestSlot DEF SurfacesTypeOK, NoSlot
<1>7. SurfacesTypeOK'
  BY <1>1, <1>2, <1>3, <1>4, <1>5, <1>6 DEF SurfacesTypeOK, NoSlot
<1>8. Numbered' /\ FromThePast'
  BY <1>1, <1>2 DEF Numbered, FromThePast
<1>9. HostReady' /\ CopyIsOlder'
  <2>1. HostReady'
    BY <1>2, <1>3 DEF HostReady, Slot
  <2>2. CopyIsOlder'
    BY <1>1, <1>2, <1>5 DEF CopyIsOlder, SurfacesTypeOK
  <2> QED BY <2>1, <2>2
<1>10. Registered' <=> Registered
  BY <1>2 DEF Registered
<1>11. Registered => encoder # NoSet /\ hostGeneration = generation
  BY <1>1 DEF RegisteredInv, Serving, Registered
<1>12. HostCurrent'
  BY <1>1, <1>2, <1>3, <1>10 DEF HostCurrent
<1>13. FreshSlots(status', seen) = {i \in Slot : slots[i].frame > seen[i]}
  BY <1>5 DEF FreshSlots
<1>14. ASSUME pc' = "offer"
       PROVE  \A j \in FreshSlots(status', seen) :
                /\ newest' \in FreshSlots(status', seen)
                /\ slots[j].frame <= slots[newest'].frame
  BY <1>1, <1>3, <1>5, <1>14, NewestSlot DEF SurfacesTypeOK
<1>15. ChosenIsNewest'
  BY <1>2, <1>5, <1>14 DEF ChosenIsNewest, FreshSlots
<1>16. RegisteredInv'
  <2>1. CASE ~Registered
    BY <1>10, <2>1, Unregistered
  <2>2. CASE Registered
    <3>1. NoSlotLost' /\ FilledAsAnnounced'
      BY <1>1, <1>2, <1>10, <2>2 DEF RegisteredInv, NoSlotLost, FilledAsAnnounced
    <3>2. Serving'
      BY <1>1, <1>2, <1>3, <1>5, <1>11, <2>2 DEF RegisteredInv, Serving
    <3>3. PassedAreNew'
      BY <1>3, <1>11, <2>2 DEF PassedAreNew, Slot
    <3>4. OldAreOver'
      BY <1>1, <1>2, <2>2 DEF RegisteredInv, OldAreOver, Old, Overtaken, Released
    <3> QED BY <3>1, <3>2, <3>3, <3>4 DEF RegisteredInv
  <2> QED BY <2>1, <2>2
<1>17. ChosenIsNew'
  <2> SUFFICES ASSUME pc' = "offer", newest' \in FreshSlots(status', seen),
                      key[encoder][newest'] = 1, ~(pixels[encoder][newest'] > sample.pixels)
               PROVE  FALSE
    BY <1>2 DEF ChosenIsNew, FreshSlots
  <2>1. Registered /\ newest' \in Slot /\ encoder \in Set
    BY <1>1, <1>2, <1>3, <1>13 DEF HostCurrent, SurfacesTypeOK
  <2>2. Old(newest')
    BY <1>1, <2>1 DEF Old, SurfacesTypeOK
  <2>3. Overtaken(newest')
    BY <1>1, <1>2, <2>1, <2>2 DEF RegisteredInv, OldAreOver, Released
  <2>4. PICK n \in Slot : slots[n].frame > slots[newest'].frame /\ slots[n].frame > seen[n]
    BY <2>3 DEF Overtaken
  <2>5. slots[n].frame <= slots[newest'].frame
    BY <1>13, <1>14, <2>4
  <2>6. slots[n].frame \in Nat /\ slots[newest'].frame \in Nat
    BY <1>1, <2>1 DEF SurfacesTypeOK, Meta
  <2> QED BY <2>4, <2>5, <2>6
<1> QED BY <1>2, <1>7, <1>8, <1>9, <1>12, <1>15, <1>16, <1>17 DEF SInv, SlotInv, RegisteredInv

\* New textures are nobody's yet.
LEMMA OpenEncoderStep ==
  ASSUME SInv, OpenEncoder
  PROVE  SInv' /\ sample' = sample
<1> USE SurfacesAssumption, SlotTypes
<1>1. /\ SurfacesTypeOK /\ Numbered /\ FromThePast
      /\ HostReady /\ CopyIsOlder /\ HostCurrent
  BY Parts DEF LoopInv
<1>2. PICK s \in Set \ {open, reg.set} :
        /\ encoder' = s
        /\ key' = [key EXCEPT ![s] = [i \in Slot |-> 0]]
        /\ pixels' = [pixels EXCEPT ![s] = [i \in Slot |-> 0]]
  BY DEF OpenEncoder
<1>3. /\ hostGeneration' = status.generation /\ seen' = Unseen /\ pc' = "register"
      /\ UNCHANGED <<generation, shown, slots, reg, running, open, unread, frame, clock>>
      /\ UNCHANGED <<status, newest, cursor, sample>>
  BY DEF OpenEncoder, deviceVars, captureVars
<1>4. shown' \in BOOLEAN /\ running' \in BOOLEAN /\ unread' \in BOOLEAN
  BY <1>1, <1>3, Zenon DEF SurfacesTypeOK
<1>5. /\ key' \in [Set -> [Slot -> {0, 1}]] /\ pixels' \in [Set -> [Slot -> 0..MaxCaptures]]
      /\ \A i \in Slot : key'[s][i] = 0
      /\ \A r \in Set, i \in Slot : pixels'[r][i] = 0 \/ pixels'[r][i] = pixels[r][i]
  BY <1>1, <1>2 DEF SurfacesTypeOK
<1>6. SurfacesTypeOK'
  BY <1>1, <1>2, <1>3, <1>4, <1>5 DEF SurfacesTypeOK, Status
<1>7. RegisteredInv'
  BY <1>1, <1>2, <1>3, Unregistered DEF Registered
<1>8. Numbered' /\ FromThePast'
  <2>1. \A r \in Set, i \in Slot : 0 <= clock /\ pixels[r][i] <= clock
    BY <1>1 DEF FromThePast, SurfacesTypeOK
  <2>2. FromThePast'
    BY <1>1, <1>3, <1>5, <2>1 DEF FromThePast
  <2>3. Numbered'
    BY <1>1, <1>3 DEF Numbered
  <2> QED BY <2>2, <2>3
<1>9. LoopInv'
  BY <1>1, <1>2, <1>3, <1>5 DEF LoopInv, HostReady, CopyIsOlder, NewerThan, HostCurrent,
     ChosenIsNewest, ChosenIsNew
<1> QED BY <1>3, <1>6, <1>7, <1>8, <1>9 DEF SInv, SlotInv, RegisteredInv, LoopInv

\* Registration makes them the driver's, all free and none seen.
LEMMA RegisterStep ==
  ASSUME SInv, Register
  PROVE  SInv' /\ sample' = sample
<1> USE SurfacesAssumption, SlotTypes
<1>1. /\ SurfacesTypeOK /\ Numbered /\ FromThePast
      /\ HostReady /\ CopyIsOlder /\ HostCurrent
  BY Parts DEF LoopInv
<1>2. /\ pc = "register" /\ status.generation = generation
      /\ reg' = [generation |-> generation, set |-> encoder] /\ unread' = TRUE
      /\ pc' = "offer" /\ newest' = Newest(status, seen) /\ cursor' = 0
      /\ UNCHANGED <<generation, shown, slots, running, open, frame, clock>>
      /\ UNCHANGED <<key, pixels, status, encoder, hostGeneration, seen, sample>>
  BY DEF Register, BeginOffer, textureVars
<1>3. shown' \in BOOLEAN /\ running' \in BOOLEAN /\ unread' \in BOOLEAN
  BY <1>1, <1>2, Zenon DEF SurfacesTypeOK
<1>4. /\ newest' \in Slot \cup {NoSlot}
      /\ \A j \in FreshSlots(status, seen) :
           /\ newest' \in FreshSlots(status, seen)
           /\ status.slots[j].frame <= status.slots[newest'].frame
  BY <1>1, <1>2, NewestSlot DEF SurfacesTypeOK
<1>5. SurfacesTypeOK'
  BY <1>1, <1>2, <1>3, <1>4 DEF SurfacesTypeOK, NoSlot
<1>6. /\ encoder # NoSet /\ hostGeneration = generation /\ seen = Unseen
      /\ \A i \in Slot : key[encoder][i] = 0
  BY <1>1, <1>2 DEF HostReady
<1>7. Serving'
  BY <1>1, <1>2, <1>6 DEF Serving, Unseen, SurfacesTypeOK
<1>8. NoSlotLost' /\ FilledAsAnnounced' /\ PassedAreNew' /\ OldAreOver'
  BY <1>2, <1>6 DEF NoSlotLost, FilledAsAnnounced, PassedAreNew, OldAreOver, Old
<1>9. Numbered' /\ FromThePast'
  BY <1>1, <1>2 DEF Numbered, FromThePast
<1>10. HostReady' /\ CopyIsOlder'
  BY <1>1, <1>2, <1>6 DEF HostReady, CopyIsOlder, NewerThan, Slot
<1>11. HostCurrent'
  BY <1>1, <1>2, <1>6 DEF HostCurrent, Registered
<1>12. ChosenIsNewest' /\ ChosenIsNew'
  BY <1>2, <1>4, <1>6 DEF ChosenIsNewest, ChosenIsNew, FreshSlots
<1> QED BY <1>2, <1>5, <1>7, <1>8, <1>9, <1>10, <1>11, <1>12 DEF SInv, SlotInv

LEMMA ReconnectStep ==
  ASSUME SInv, Reconnect
  PROVE  SInv' /\ sample' = sample
<1> USE SurfacesAssumption, SlotTypes
<1>1. /\ SurfacesTypeOK /\ Numbered /\ FromThePast
      /\ HostReady /\ CopyIsOlder /\ HostCurrent
  BY Parts DEF LoopInv
<1>2. /\ pc = "idle" /\ encoder' = NoSet /\ hostGeneration' = 0 /\ seen' = Unseen
      /\ UNCHANGED <<generation, shown, slots, reg, running, open, unread, frame, clock>>
      /\ UNCHANGED <<key, pixels, pc, status, newest, cursor, sample>>
  BY DEF Reconnect, deviceVars, captureVars, textureVars, loopVars
<1>3. shown' \in BOOLEAN /\ running' \in BOOLEAN /\ unread' \in BOOLEAN
  BY <1>1, <1>2, Zenon DEF SurfacesTypeOK
<1>4. SurfacesTypeOK'
  BY <1>1, <1>2, <1>3 DEF SurfacesTypeOK
<1>5. RegisteredInv'
  BY <1>2, Unregistered DEF Registered
<1>6. Numbered' /\ FromThePast'
  BY <1>1, <1>2 DEF Numbered, FromThePast
<1>7. LoopInv'
  BY <1>1, <1>2 DEF LoopInv, HostReady, CopyIsOlder, NewerThan, HostCurrent, ChosenIsNewest,
     ChosenIsNew, SurfacesTypeOK
<1> QED BY <1>2, <1>4, <1>5, <1>6, <1>7 DEF SInv, SlotInv, RegisteredInv, LoopInv

\* One slot of the host's pass.  Each outcome of sd_gpu_input leaves a texture that is
\* still old overtaken by a newer one, or due for release in this pass.
LEMMA OfferStep ==
  ASSUME SInv, Offer
  PROVE  SInv' /\ (sample' # sample => sample'.pixels > sample.pixels)
<1> USE SurfacesAssumption, SlotTypes
<1> DEFINE c == cursor
           e == encoder
<1>1. /\ SurfacesTypeOK /\ RegisteredInv /\ Numbered /\ FromThePast
      /\ HostReady /\ CopyIsOlder /\ HostCurrent /\ ChosenIsNewest /\ ChosenIsNew
  BY Parts DEF LoopInv
<1>2. /\ pc = "offer" /\ c \in Slot /\ e \in Set
      /\ cursor' = c + 1 /\ pc' = IF c = LastSlot THEN "idle" ELSE "offer"
      /\ UNCHANGED <<generation, shown, slots, reg, running, open, unread, frame, clock>>
      /\ UNCHANGED <<pixels, status, newest, encoder, hostGeneration>>
  BY <1>1 DEF Offer, deviceVars, captureVars, HostReady, SurfacesTypeOK
<1>3. \/ /\ c \in FreshSlots(status, seen) /\ key[e][c] = 1
         /\ key' = [key EXCEPT ![e][c] = 0] /\ seen' = [seen EXCEPT ![c] = status.slots[c].frame]
         /\ \/ sample' = sample
            \/ /\ c = newest
               /\ sample' = [pixels |-> pixels[e][c], capture |-> status.slots[c].capture]
      \/ /\ c \notin FreshSlots(status, seen) \/ key[e][c] = 0
         /\ key' = key /\ seen' = seen /\ sample' = sample
  BY DEF Offer, Release, Feeds
<1>4. /\ status \in Status /\ \A i \in Slot : status.slots[i] \in Meta /\ slots[i] \in Meta
      /\ \A i \in Slot : /\ status.slots[i].frame \in 0..MaxCaptures
                         /\ status.slots[i].capture \in 0..MaxCaptures
                         /\ slots[i].frame \in Nat /\ slots[i].capture \in Nat /\ seen[i] \in Nat
                         /\ pixels[e][i] \in 0..MaxCaptures /\ key[e][i] \in {0, 1}
      /\ frame \in Nat /\ clock \in Nat /\ c \in Nat /\ LastSlot \in Nat /\ sample.pixels \in Nat
  BY <1>1, <1>2 DEF SurfacesTypeOK, Status, Meta
<1>5. shown' \in BOOLEAN /\ running' \in BOOLEAN /\ unread' \in BOOLEAN
  BY <1>1, <1>2, Zenon DEF SurfacesTypeOK
<1> HIDE DEF c, e
<1>6. /\ key' \in [Set -> [Slot -> {0, 1}]] /\ seen' \in [Slot -> 0..MaxCaptures]
      /\ sample' \in [pixels : 0..MaxCaptures, capture : 0..MaxCaptures]
  <2>1. CASE key' = key /\ seen' = seen /\ sample' = sample
    BY <1>1, <2>1 DEF SurfacesTypeOK
  <2>2. CASE key' = [key EXCEPT ![e][c] = 0] /\ seen' = [seen EXCEPT ![c] = status.slots[c].frame]
    <3>1. seen' \in [Slot -> 0..MaxCaptures]
      BY <1>1, <1>2, <1>4, <2>2 DEF SurfacesTypeOK
    <3>2. key' \in [Set -> [Slot -> {0, 1}]]
      BY <1>1, <1>2, <2>2 DEF SurfacesTypeOK
    <3>3. sample' \in [pixels : 0..MaxCaptures, capture : 0..MaxCaptures]
      BY <1>1, <1>2, <1>3, <1>4 DEF SurfacesTypeOK
    <3> QED BY <3>1, <3>2, <3>3
  <2> QED BY <1>3, <2>1, <2>2
<1>7. cursor' \in 0..(LastSlot + 1) /\ pc' \in {"idle", "offer"}
      /\ (pc' = "offer" => cursor' \in Slot)
  BY <1>2, <1>4 DEF Slot
<1>8. SurfacesTypeOK'
  BY <1>1, <1>2, <1>5, <1>6, <1>7 DEF SurfacesTypeOK
<1>9. HostReady' /\ CopyIsOlder'
  BY <1>1, <1>2, <1>7 DEF HostReady, CopyIsOlder, NewerThan
<1>10. Registered' <=> Registered
  BY <1>2 DEF Registered
<1>11. HostCurrent'
  BY <1>1, <1>2, <1>10 DEF HostCurrent
\* What the step does to the slots.
<1>12. /\ \A i \in Slot : key'[e][i] = 1 => key[e][i] = 1
       /\ \A i \in Slot : i # c => key'[e][i] = key[e][i] /\ seen'[i] = seen[i]
       /\ \/ /\ c \in FreshSlots(status, seen) /\ key[e][c] = 1
             /\ key'[e][c] = 0 /\ seen'[c] = status.slots[c].frame
          \/ /\ c \notin FreshSlots(status, seen) \/ key[e][c] = 0
             /\ key' = key /\ seen' = seen /\ sample' = sample
  <2>1. CASE key' = key /\ seen' = seen
    BY <1>3, <2>1, <1>1, <1>2 DEF SurfacesTypeOK
  <2>2. CASE /\ c \in FreshSlots(status, seen) /\ key[e][c] = 1
             /\ key' = [key EXCEPT ![e][c] = 0]
             /\ seen' = [seen EXCEPT ![c] = status.slots[c].frame]
    <3>1. key'[e][c] = 0 /\ \A i \in Slot : i # c => key'[e][i] = key[e][i]
      BY <1>1, <1>2, <2>2 DEF SurfacesTypeOK
    <3>2. seen'[c] = status.slots[c].frame /\ \A i \in Slot : i # c => seen'[i] = seen[i]
      BY <1>1, <1>2, <2>2 DEF SurfacesTypeOK
    <3> QED BY <2>2, <3>1, <3>2
  <2> QED BY <1>3, <2>1, <2>2
<1>13. \A i \in FreshSlots(status, seen)' : i \in FreshSlots(status, seen)
  BY <1>2, <1>4, <1>12 DEF FreshSlots
<1>14. \A i \in FreshSlots(status, seen) : i # c => i \in FreshSlots(status, seen)'
  BY <1>2, <1>12 DEF FreshSlots
<1>15. newest \in Slot \cup {NoSlot} /\ newest \in Nat
  BY <1>1 DEF SurfacesTypeOK, NoSlot
<1>16. ChosenIsNewest'
  <2> SUFFICES ASSUME pc' = "offer", cursor' <= newest', NEW j \in FreshSlots(status, seen)'
               PROVE  /\ newest' \in FreshSlots(status, seen)'
                      /\ status'.slots[j].frame <= status'.slots[newest'].frame
    BY DEF ChosenIsNewest
  <2>1. cursor <= newest /\ newest # c
    BY <1>2, <1>4, <1>15 DEF c
  <2> QED BY <1>1, <1>2, <1>13, <1>14, <2>1 DEF ChosenIsNewest
<1>17. ChosenIsNew'
  <2> SUFFICES ASSUME pc' = "offer", newest' \in FreshSlots(status, seen)', cursor' <= newest',
                      key'[encoder'][newest'] = 1
               PROVE  pixels'[encoder'][newest'] > sample'.pixels
    BY DEF ChosenIsNew
  <2>1. cursor <= newest /\ newest # c
    BY <1>2, <1>4, <1>15 DEF c
  <2>2. sample' = sample
    BY <1>3, <2>1
  <2>3. newest \in FreshSlots(status, seen) /\ newest \in Slot /\ key[encoder][newest] = 1
    BY <1>2, <1>12, <1>13 DEF FreshSlots, e
  <2> QED BY <1>1, <1>2, <2>1, <2>2, <2>3 DEF ChosenIsNew
\* The encoder is only given the chosen image.
<1>18. sample' # sample =>
         /\ c = newest /\ sample'.pixels = pixels[e][c] /\ pixels[e][c] > sample.pixels
  BY <1>1, <1>2, <1>3, <1>4 DEF ChosenIsNew, c, e
<1>19. sample'.pixels <= clock
  BY <1>1, <1>2, <1>18 DEF FromThePast
<1>20. Numbered' /\ FromThePast'
  BY <1>1, <1>2, <1>19 DEF Numbered, FromThePast
<1>21. RegisteredInv'
  <2>1. CASE ~Registered
    BY <1>10, <2>1, Unregistered
  <2>2. CASE Registered
    <3>1. /\ NoSlotLost /\ FilledAsAnnounced /\ PassedAreNew /\ OldAreOver
          /\ status.generation = generation /\ hostGeneration = generation
          /\ unread \/ open = encoder
          /\ \A i \in Slot : seen[i] <= frame
      BY <1>1, <2>2 DEF RegisteredInv, Serving
    <3>2. \A i \in Slot : /\ status.slots[i].frame <= frame
                          /\ status.slots[i].frame <= slots[i].frame
      BY <1>1, <3>1, CopyCounts
    <3>3. \A i \in Slot : slots[i] = status.slots[i] \/ NewerThan(i, status)
      BY <1>1, <3>1 DEF CopyIsOlder
    <3>4. \A i \in Slot : key[e][i] = 1 =>
            /\ slots[i].frame > seen[i] /\ slots[i].frame # 0 /\ pixels[e][i] = slots[i].capture
      BY <1>4, <2>2, <3>1 DEF NoSlotLost, FilledAsAnnounced, e
    <3>5. NoSlotLost' /\ FilledAsAnnounced'
      BY <1>2, <1>12, <3>4 DEF NoSlotLost, FilledAsAnnounced, e
    <3>6. Serving'
      <4>1. \A i \in Slot : seen'[i] <= frame
        BY <1>12, <3>1, <3>2
      <4> QED BY <1>2, <1>7, <3>1, <4>1 DEF Serving
    <3>7. PassedAreNew'
      <4> SUFFICES ASSUME NEW i \in Slot, i < c + 1, key'[e][i] = 1
                   PROVE  NewerThan(i, status)
        BY <1>2 DEF PassedAreNew, NewerThan, e
      <4>1. CASE i < c
        BY <1>2, <1>12, <2>2, <3>1, <4>1 DEF PassedAreNew, c, e
      <4>2. CASE i = c
        <5>1. ~(status.slots[i].frame > seen[i])
          BY <1>12, <4>2 DEF FreshSlots
        <5> QED BY <1>12, <3>3, <3>4, <5>1
      <4> QED BY <1>4, <4>1, <4>2
    \* A filled texture that is older than a slot of the copy is in the copy as well, and
    \* comes later in the pass.
    <3>8. ASSUME NEW i \in Slot, NEW k \in Slot, i # c, key[e][i] = 1,
                 slots[i].frame < status.slots[k].frame
          PROVE  slots[i] = status.slots[i] /\ i > c /\ status.slots[i].frame > seen[i]
      <4>1. ~NewerThan(i, status)
        BY <1>4, <3>8 DEF NewerThan
      <4>2. ~(i < c)
        BY <1>2, <2>2, <3>1, <3>8, <4>1 DEF PassedAreNew, c, e
      <4>3. i \in Nat
        OBVIOUS
      <4> QED BY <1>4, <3>3, <3>4, <3>8, <4>1, <4>2, <4>3
    \* What the release of a newer one leaves behind.
    <3>9. ASSUME NEW i \in Slot, i # c, key[e][i] = 1, slots[i].frame < slots[c].frame,
                 c \in FreshSlots(status, seen), key[e][c] = 1
          PROVE  Overtaken(i)' \/ Released(i)'
      <4>1. seen'[c] = status.slots[c].frame
        BY <1>12, <3>9
      <4>2. CASE slots[c] # status.slots[c]
        <5>1. slots[c].frame > seen'[c]
          BY <1>2, <3>3, <4>1, <4>2 DEF NewerThan
        <5> QED BY <1>2, <3>9, <5>1 DEF Overtaken
      <4>3. CASE slots[c] = status.slots[c]
        <5>1. i > c /\ status.slots[i].frame > seen[i]
          BY <1>2, <3>8, <3>9, <4>3
        <5>2. pc' = "offer" /\ cursor' = c + 1 /\ i >= cursor' /\ seen'[i] = seen[i]
          BY <1>2, <1>4, <1>12, <3>9, <5>1 DEF Slot
        <5>3. CASE newest > c
          <6>1. cursor <= newest
            BY <1>4, <1>15, <5>3 DEF c
          <6>2. /\ newest \in FreshSlots(status, seen) /\ newest \in Slot
                /\ status.slots[c].frame <= status.slots[newest].frame
            BY <1>1, <1>2, <3>9, <6>1 DEF ChosenIsNewest, FreshSlots
          <6>3. newest # c /\ seen'[newest] = seen[newest]
            BY <1>4, <1>12, <5>3, <6>2
          <6>4. slots[newest].frame > slots[i].frame /\ slots[newest].frame > seen'[newest]
            <7>1. /\ slots[newest].frame \in Nat /\ status.slots[newest].frame \in Nat
                  /\ status.slots[newest].frame <= slots[newest].frame
                  /\ status.slots[newest].frame > seen[newest] /\ seen[newest] \in Nat
              BY <1>4, <3>2, <6>2 DEF FreshSlots
            <7>2. slots[i].frame < status.slots[newest].frame /\ slots[i].frame \in Nat
              BY <1>2, <1>4, <3>9, <4>3, <6>2, <7>1
            <7> QED BY <6>3, <7>1, <7>2
          <6> QED BY <1>2, <6>2, <6>4 DEF Overtaken
        <5>4. CASE ~(newest > c)
          <6>1. cursor' > newest'
            BY <1>2, <1>4, <1>15, <5>4
          <6> QED BY <1>2, <5>1, <5>2, <6>1 DEF Released
        <5> QED BY <5>3, <5>4
      <4> QED BY <4>2, <4>3
    <3>10. ASSUME NEW i \in Slot, Old(i)' PROVE Overtaken(i)' \/ Released(i)'
      <4>1. key'[e][i] = 1 /\ key[e][i] = 1 /\ pixels[e][i] <= sample'.pixels
        BY <1>2, <1>12, <3>10 DEF Old, e
      <4>2. CASE sample' # sample
        <5>1. /\ c \in FreshSlots(status, seen) /\ key[e][c] = 1 /\ key'[e][c] = 0
              /\ pixels[e][i] <= pixels[e][c]
          BY <1>12, <1>18, <4>1, <4>2
        <5>2. i # c
          BY <4>1, <5>1
        <5>3. slots[i].capture <= slots[c].capture
          BY <1>2, <3>4, <4>1, <5>1
        <5>4. slots[i].frame # 0 /\ slots[c].frame # 0
          BY <1>2, <3>4, <4>1, <5>1
        <5>5. /\ slots[i].capture + frame = slots[i].frame + clock
              /\ slots[c].capture + frame = slots[c].frame + clock
              /\ slots[i].frame # slots[c].frame
          BY <1>1, <1>2, <5>2, <5>4 DEF Numbered
        <5>6. slots[i].frame < slots[c].frame
          BY <1>2, <1>4, <5>3, <5>5
        <5> QED BY <3>9, <4>1, <5>1, <5>2, <5>6
      <4>3. CASE sample' = sample
        <5>1. Old(i)
          BY <4>1, <4>3 DEF Old, e
        <5>2. CASE Overtaken(i)
          <6>1. PICK n \in Slot : slots[n].frame > slots[i].frame /\ slots[n].frame > seen[n]
            BY <5>2 DEF Overtaken
          <6>2. CASE seen'[n] = seen[n]
            BY <1>2, <6>1, <6>2 DEF Overtaken
          <6>3. CASE seen'[n] # seen[n]
            <7>1. n = c /\ c \in FreshSlots(status, seen) /\ key[e][c] = 1 /\ key'[e][c] = 0
              BY <1>12, <6>3
            <7>2. i # c /\ slots[i].frame < slots[c].frame
              BY <1>4, <4>1, <6>1, <7>1
            <7> QED BY <3>9, <4>1, <7>1, <7>2
          <6> QED BY <6>2, <6>3
        <5>3. CASE Released(i)
          <6>1. i >= c /\ status.slots[i].frame > seen[i] /\ c > newest
            BY <5>3 DEF Released, c
          <6>2. i # c
            BY <1>12, <4>1, <6>1 DEF FreshSlots
          <6>3. pc' = "offer" /\ i >= cursor' /\ cursor' > newest /\ seen'[i] = seen[i]
            BY <1>2, <1>4, <1>12, <1>15, <6>1, <6>2 DEF Slot
          <6> QED BY <1>2, <6>1, <6>3 DEF Released
        <5> QED BY <2>2, <3>1, <5>1, <5>2, <5>3 DEF OldAreOver
      <4> QED BY <4>2, <4>3
    <3>11. OldAreOver'
      BY <3>10 DEF OldAreOver
    <3> QED BY <3>5, <3>6, <3>7, <3>11 DEF RegisteredInv
  <2> QED BY <2>1, <2>2
<1> QED BY <1>8, <1>9, <1>11, <1>16, <1>17, <1>18, <1>20, <1>21 DEF SInv, SlotInv, RegisteredInv

LEMMA SafetyStep ==
  ASSUME SInv, [SurfacesNext]_surfacesVars
  PROVE  SInv' /\ (sample' # sample => sample'.pixels > sample.pixels)
<1>1. CASE Assign \/ Commit \/ CaptureFirst \/ Stop
  BY <1>1, GenerationStep, Zenon
<1>2. CASE Unassign \/ UNCHANGED surfacesVars
  BY <1>2, WorkerStops, Zenon
<1>3. CASE Capture
  BY <1>3, CaptureStep, Zenon
<1>4. CASE ReadStatus
  BY <1>4, ReadStatusStep, Zenon
<1>5. CASE OpenEncoder
  BY <1>5, OpenEncoderStep, Zenon
<1>6. CASE Register
  BY <1>6, RegisterStep, Zenon
<1>7. CASE Offer
  BY <1>7, OfferStep, Zenon
<1>8. CASE Reconnect
  BY <1>8, ReconnectStep, Zenon
<1> QED
  BY <1>1, <1>2, <1>3, <1>4, <1>5, <1>6, <1>7, <1>8 DEF SurfacesNext, DriverNext, HostLoop

THEOREM SurfacesInvariant == SurfacesSafety => []SInv
<1>1. SurfacesInit => SInv
  BY InitHolds
<1>2. SInv /\ [SurfacesNext]_surfacesVars => SInv'
  BY SafetyStep
<1> QED BY <1>1, <1>2, PTL DEF SurfacesSafety
-----------------------------------------------------------------------------
(* Results.                                                                *)

\* Whatever the order of captures, status reads, passes, registrations and departures, a
\* filled texture of the current registration is announced by metadata that the host has
\* yet to see, so no texture stays with the host for ever unseen.
THEOREM NoTextureLost == SurfacesSafety => []SlotInv
<1>1. SInv => SlotInv
  BY DEF SInv
<1> QED BY <1>1, SurfacesInvariant, PTL

\* What the driver says of a filled texture is what the texture holds.
THEOREM MetadataTellsPixels == SurfacesSafety => []FilledAsAnnounced
<1>1. SInv => FilledAsAnnounced
  BY DEF SInv
<1> QED BY <1>1, SurfacesInvariant, PTL

\* The encoder is never given an image that was captured before its last one, although the
\* host chooses by an old copy of the metadata and releases the others unread.
THEOREM NeverBackInTime == SurfacesSafety => InCaptureOrder
<1>1. SInv /\ [SurfacesNext]_surfacesVars => [sample' # sample => sample'.pixels > sample.pixels]_surfacesVars
  BY SafetyStep
<1> QED BY <1>1, SurfacesInvariant, PTL DEF SurfacesSafety, InCaptureOrder
=============================================================================
