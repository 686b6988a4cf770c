---------------------------- MODULE SharedSurfaces ----------------------------
(***************************************************************************)
(* The hand-over of desktop images from the driver to the host: the        *)
(* swapchain worker and the IOCTLs of windows/driver/Driver.cpp, the slot  *)
(* loop of windows/host/src/app/runtime.rs and the keyed mutex of          *)
(* windows/host/native/gpu.cpp.                                            *)
(*                                                                         *)
(* The host allocates a set of shared textures per encoder and registers   *)
(* its names.  A texture with key 0 may be written by the driver, one with *)
(* key 1 read by the host.  What a texture holds is described elsewhere,   *)
(* in status.slots, which the host reads as a copy.                        *)
(***************************************************************************)
EXTENDS Naturals

CONSTANTS LastSlot,      \* slots are 0..LastSlot (0..2 in the code)
          MaxCaptures,   \* bound: images captured
          MaxGeneration, \* bound: driver generations
          Set, NoSet     \* texture sets; one nobody refers to is used again

ASSUME SurfacesAssumption ==
  /\ LastSlot \in Nat /\ MaxCaptures \in Nat /\ MaxGeneration \in Nat
  /\ NoSet \notin Set

Slot == 0..LastSlot
NoMeta == [frame |-> 0, capture |-> 0]
NoReg  == [generation |-> 0, set |-> NoSet]
Meta   == [frame : 0..MaxCaptures, capture : 0..MaxCaptures]

VARIABLES
  \* Device::status and surfaces
  generation, shown, slots, reg,
  \* Worker::run: running, the opened set, whether localRevision differs from
  \* surfaceRevision, and its frame count
  running, open, unread, frame,
  clock,                 \* captures so far; stands for clockUs()
  \* the textures: keyed mutex and the capture each one holds
  key, pixels,
  \* the host's capture thread
  pc, encoder, hostGeneration, seen, status, newest, cursor,
  sample                 \* the last sample given to the encoder: pixels and metadata

deviceVars   == <<generation, shown, slots, reg>>
captureVars  == <<running, open, unread, frame, clock>>
textureVars  == <<key, pixels>>
loopVars     == <<pc, status, newest, cursor>>
hostSideVars == <<loopVars, encoder, hostGeneration, seen, sample>>
surfacesVars == <<deviceVars, captureVars, textureVars, hostSideVars>>

Status == [generation : 0..MaxGeneration, slots : [Slot -> Meta]]

SurfacesTypeOK ==
  /\ generation \in 0..MaxGeneration /\ shown \in BOOLEAN
  /\ slots \in [Slot -> Meta]
  /\ reg \in [generation : 0..MaxGeneration, set : Set \cup {NoSet}]
  /\ running \in BOOLEAN /\ open \in Set \cup {NoSet} /\ unread \in BOOLEAN
  /\ frame \in 0..MaxCaptures /\ clock \in 0..MaxCaptures
  /\ key \in [Set -> [Slot -> {0, 1}]]
  /\ pixels \in [Set -> [Slot -> 0..MaxCaptures]]
  /\ pc \in {"idle", "open", "register", "offer"}
  /\ encoder \in Set \cup {NoSet} /\ hostGeneration \in 0..MaxGeneration
  /\ seen \in [Slot -> 0..MaxCaptures]
  /\ status \in Status
  /\ newest \in Slot \cup {LastSlot + 1} /\ cursor \in 0..(LastSlot + 1)
  /\ sample \in [pixels : 0..MaxCaptures, capture : 0..MaxCaptures]

NoSlots == [i \in Slot |-> NoMeta]
Unseen  == [i \in Slot |-> 0]

SurfacesInit ==
  /\ generation = 0 /\ shown = FALSE /\ slots = NoSlots /\ reg = NoReg
  /\ running = FALSE /\ open = NoSet /\ unread = FALSE /\ frame = 0 /\ clock = 0
  /\ key = [s \in Set |-> [i \in Slot |-> 0]]
  /\ pixels = [s \in Set |-> [i \in Slot |-> 0]]
  /\ pc = "idle" /\ encoder = NoSet /\ hostGeneration = 0 /\ seen = Unseen
  /\ status = [generation |-> 0, slots |-> NoSlots]
  /\ newest = LastSlot + 1 /\ cursor = 0
  /\ sample = [pixels |-> 0, capture |-> 0]
-----------------------------------------------------------------------------
(* The driver.                                                             *)

\* A new generation drops the registration; all but a changed refresh rate
\* clears the slot metadata as well.
NextGeneration ==
  /\ generation < MaxGeneration
  /\ generation' = generation + 1 /\ reg' = NoReg

\* Assign stops the old worker and starts one for the new swapchain.
Assign ==
  /\ NextGeneration /\ shown' = FALSE /\ slots' = NoSlots
  /\ running' = TRUE /\ open' = NoSet /\ unread' = TRUE /\ frame' = 0
  /\ UNCHANGED <<clock, textureVars, hostSideVars>>

\* Unassign, or the worker loop breaks: the status stays as it was.
Unassign ==
  /\ running /\ running' = FALSE
  /\ UNCHANGED <<deviceVars, open, unread, frame, clock, textureVars, hostSideVars>>

\* Commit with another refresh rate: the worker goes on with its textures.
Commit ==
  /\ running /\ shown
  /\ NextGeneration
  /\ UNCHANGED <<shown, slots, captureVars, textureVars, hostSideVars>>


\* One image of Worker::run, under the device mutex.  The first image of a
\* swapchain fixes the geometry and starts a generation; it finds no texture.
NextImage ==
  /\ running /\ clock < MaxCaptures
  /\ clock' = clock + 1 /\ frame' = frame + 1

CaptureFirst ==
  /\ NextImage /\ ~shown
  /\ NextGeneration /\ shown' = TRUE /\ slots' = NoSlots
  /\ UNCHANGED <<running, open, unread, textureVars, hostSideVars>>

\* A later image first opens a new registration of this generation, then goes
\* into the first texture that is free, or is dropped.
NeedsOpen == unread /\ reg.generation = generation
Opened    == IF NeedsOpen THEN reg.set ELSE open

FirstFree(s, i) == s # NoSet /\ key[s][i] = 0 /\ \A j \in Slot : j < i => key[s][j] = 1

\* Mutant: the metadata is published before the copy.
WriteLate(s, i) ==
  /\ key' = [key EXCEPT ![s][i] = 1]
  /\ pixels' = [pixels EXCEPT ![s][i] = clock + 1]
  /\ slots' = [slots EXCEPT ![i] = [frame |-> frame + 1, capture |-> clock]]

Write(s, i) ==
  /\ key' = [key EXCEPT ![s][i] = 1]
  /\ pixels' = [pixels EXCEPT ![s][i] = clock + 1]
  /\ slots' = [slots EXCEPT ![i] = [frame |-> frame + 1, capture |-> clock + 1]]

Capture ==
  /\ NextImage /\ shown
  /\ open' = Opened
  /\ unread' = (unread /\ ~NeedsOpen)
  /\ \/ \E i \in Slot : FirstFree(Opened, i) /\ Write(Opened, i)
     \/ (\A i \in Slot : ~FirstFree(Opened, i)) /\ UNCHANGED <<slots, textureVars>>
  /\ UNCHANGED <<generation, shown, reg, running, hostSideVars>>
-----------------------------------------------------------------------------
(* The host's capture thread: one iteration of its loop reads the status,  *)
(* opens an encoder if it has none for this generation, registers its      *)
(* textures, and offers every slot the status calls fresh.                 *)

FreshSlots(st, sn) == {i \in Slot : st.slots[i].frame > sn[i]}
NoSlot == LastSlot + 1

Newest(st, sn) ==
  IF FreshSlots(st, sn) = {} THEN NoSlot
  ELSE CHOOSE i \in FreshSlots(st, sn) :
         \A j \in FreshSlots(st, sn) : st.slots[j].frame <= st.slots[i].frame

BeginOffer(st, sn) == pc' = "offer" /\ newest' = Newest(st, sn) /\ cursor' = 0

\* Driver::status; a width of 0 ends the iteration.
ReadStatus ==
  /\ pc = "idle" /\ shown
  /\ status' = [generation |-> generation, slots |-> slots]
  /\ IF encoder = NoSet \/ hostGeneration # generation
     THEN pc' = "open" /\ UNCHANGED <<newest, cursor>>
     ELSE BeginOffer(status', seen)
  /\ UNCHANGED <<deviceVars, captureVars, textureVars, encoder, hostGeneration, seen,
                 sample>>

\* Mutant: the new encoder's slots count as seen up to the old one's frames.
OpenEncoderKeepsSeen ==
  /\ pc = "open"
  /\ \E s \in Set \ {open, reg.set} :
       /\ encoder' = s
       /\ key' = [key EXCEPT ![s] = [i \in Slot |-> 0]]
       /\ pixels' = [pixels EXCEPT ![s] = [i \in Slot |-> 0]]
  /\ hostGeneration' = status.generation
  /\ pc' = "register"
  /\ UNCHANGED <<deviceVars, captureVars, status, newest, cursor, seen, sample>>

\* MfEncoder::open creates free textures under fresh names.
OpenEncoder ==
  /\ pc = "open"
  /\ \E s \in Set \ {open, reg.set} :
       /\ encoder' = s
       /\ key' = [key EXCEPT ![s] = [i \in Slot |-> 0]]
       /\ pixels' = [pixels EXCEPT ![s] = [i \in Slot |-> 0]]
  /\ hostGeneration' = status.generation /\ seen' = Unseen
  /\ pc' = "register"
  /\ UNCHANGED <<deviceVars, captureVars, status, newest, cursor, sample>>

\* SURFACES is accepted for the current generation only.  The iteration goes on
\* with the status it read before.
Register ==
  /\ pc = "register" /\ status.generation = generation
  /\ reg' = [generation |-> generation, set |-> encoder] /\ unread' = TRUE
  /\ BeginOffer(status, seen)
  /\ UNCHANGED <<generation, shown, slots, running, open, frame, clock, textureVars,
                 status, encoder, hostGeneration, seen, sample>>

\* sd_gpu_input on slot cursor: a texture without key 1 is left for later,
\* an older one is released unread, the newest goes to the encoder unless it
\* has no credit or already holds three samples.
\* Mutants: one mark for all slots; every fresh slot is fed to the encoder.
ReleaseAllSeen(i) ==
  /\ key' = [key EXCEPT ![encoder][i] = 0]
  /\ seen' = [j \in Slot |-> status.slots[i].frame]
FeedsAll == TRUE

Feeds == cursor = newest

Release(i) ==
  /\ key' = [key EXCEPT ![encoder][i] = 0]
  /\ seen' = [seen EXCEPT ![i] = status.slots[i].frame]

Offer ==
  /\ pc = "offer" /\ cursor \in Slot
  /\ \/ /\ cursor \in FreshSlots(status, seen) /\ key[encoder][cursor] = 1
        /\ Release(cursor)
        /\ \/ UNCHANGED sample
           \/ /\ Feeds
              /\ sample' = [pixels |-> pixels[encoder][cursor],
                            capture |-> status.slots[cursor].capture]
     \/ /\ cursor \notin FreshSlots(status, seen) \/ key[encoder][cursor] = 0
        /\ UNCHANGED <<key, seen, sample>>
  /\ cursor' = cursor + 1
  /\ pc' = IF cursor = LastSlot THEN "idle" ELSE "offer"
  /\ UNCHANGED <<deviceVars, captureVars, pixels, status, newest, encoder,
                 hostGeneration>>

\* A reconnecting iPad: the encoder is dropped, the monitor and its generation stay.
Reconnect ==
  /\ pc = "idle" /\ encoder # NoSet
  /\ encoder' = NoSet /\ hostGeneration' = 0 /\ seen' = Unseen
  /\ UNCHANGED <<deviceVars, captureVars, textureVars, loopVars, sample>>

\* STOP departs the monitor: at the end of a session, at the end of the grace,
\* and after any error, of which a registration for an old generation is one.
Stop ==
  /\ pc \in {"idle", "register", "offer"}
  /\ NextGeneration /\ shown' = FALSE /\ slots' = NoSlots
  /\ running' = FALSE
  /\ encoder' = NoSet /\ pc' = "idle"
  /\ UNCHANGED <<open, unread, frame, clock, textureVars, hostGeneration, seen,
                 status, newest, cursor, sample>>
-----------------------------------------------------------------------------
DriverNext == Assign \/ Unassign \/ Commit \/ CaptureFirst \/ Capture

HostLoop == ReadStatus \/ OpenEncoder \/ Register \/ Offer

\* The bounds end a behaviour.
SurfacesNext == DriverNext \/ HostLoop \/ Reconnect \/ Stop

SurfacesSafety == SurfacesInit /\ [][SurfacesNext]_surfacesVars
SurfacesSpec   == SurfacesSafety /\ WF_surfacesVars(HostLoop)
-----------------------------------------------------------------------------
(* Properties.                                                             *)

Registered == encoder # NoSet /\ reg = [generation |-> generation, set |-> encoder]

\* No texture is lost between the two processes: one of the current registration
\* that the driver has filled is announced by metadata the host has yet to see,
\* although the host works with old copies of that metadata.
NoSlotLost ==
  Registered =>
    \A i \in Slot : key[encoder][i] = 1 => slots[i].frame > seen[i]

\* A filled texture holds what the driver's metadata says it holds.
FilledAsAnnounced ==
  Registered =>
    \A i \in Slot : key[encoder][i] = 1 => pixels[encoder][i] = slots[i].capture

\* Registered textures and generations stay in their range and none of them is lost,
\* over registrations, reconnects and departures in any order.
SlotInv == SurfacesTypeOK /\ NoSlotLost

\* The encoder never steps back in time: each image it is given was captured
\* after the one before, across releases of older slots, new registrations and
\* new swapchains.
InCaptureOrder ==
  [][sample' # sample => sample'.pixels > sample.pixels]_surfacesVars

Waiting(i) == encoder # NoSet /\ shown /\ key[encoder][i] = 1

\* A filled texture comes back to the driver while the host keeps its encoder
\* and Windows keeps the display.  (A new encoder starts with free textures.)
FilledComesBack == \A i \in Slot : []<>~Waiting(i)

\* "Driver releases key 1 and publishes frame ID / capture QPC timestamp": the
\* capture time that goes to the encoder is that of the image it goes with.
SampleWithOwnMetadata == sample.pixels = sample.capture
=============================================================================
