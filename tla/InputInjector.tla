----------------------------- MODULE InputInjector -----------------------------
(***************************************************************************)
(* The host's input injector, windows/host/src/input/win.rs, from its      *)
(* creation to its drop, and what Windows holds down on its account.       *)
(*                                                                         *)
(* One event makes several calls to Windows, each of which can fail: input *)
(* is blocked while a window of a higher integrity level or the secure     *)
(* desktop is in front.  The loops over modifiers and buttons are taken    *)
(* one call at a time, in the order of their masks, so that blocking can   *)
(* begin or end between two calls.  An event that fails ends the pipeline, *)
(* which drops the injector (runtime.rs, worker loop).                     *)
(***************************************************************************)
EXTENDS Naturals, FiniteSets

CONSTANTS Contact,    \* touch contacts (0..9)
          Key,        \* keys that are no modifiers
          Masks,      \* modifiers: ctrl, shift, alt, win
          Buttons     \* mouse buttons: left, right, middle

ASSUME InjectorAssumption == Masks \in Nat /\ Buttons \in Nat

Mask     == 1..Masks
Button   == 1..Buttons
Code     == [mask : {0}, side : Key] \cup [mask : Mask, side : {"left", "right"}]
Left(m)  == [mask |-> m, side |-> "left"]
Right(m) == [mask |-> m, side |-> "right"]

Flag == {"none", "down", "update", "up"}

VARIABLES
  pc,         \* where event() is; "dropped" when the injector is gone
  event, at,  \* the event in hand and the loop's position
  touches, keys, buttons,          \* what the injector believes is held
  contactsDown, keysDown, buttonsDown,  \* what Windows holds down for it
  blocked,    \* Windows refuses injected input
  failed      \* history: a call was refused

believed == <<touches, keys, buttons>>
windows  == <<contactsDown, keysDown, buttonsDown>>
vars == <<pc, event, at, believed, windows, blocked, failed>>

NoEvent    == [kind |-> "none"]
KeyEvents  == [kind : {"key"}, code : Code, up : BOOLEAN, modifiers : SUBSET Mask]
MouseEvents == [kind : {"mouse"}, buttons : SUBSET Button, wheel : BOOLEAN]

TypeOK ==
  /\ pc \in {"idle", "modifiers", "buttons", "wheel", "failing", "dropped"}
  /\ event \in {NoEvent} \cup KeyEvents \cup MouseEvents
  /\ at \in Mask \cup Button \cup {Masks + 1, Buttons + 1}
  /\ touches \in [Contact -> Flag]
  /\ keys \subseteq Code /\ buttons \subseteq Button
  /\ contactsDown \subseteq Contact /\ keysDown \subseteq Code /\ buttonsDown \subseteq Button
  /\ blocked \in BOOLEAN /\ failed \in BOOLEAN

Init ==
  /\ pc = "idle" /\ event = NoEvent /\ at = 1
  /\ touches = [c \in Contact |-> "none"] /\ keys = {} /\ buttons = {}
  /\ contactsDown = {} /\ keysDown = {} /\ buttonsDown = {}
  /\ blocked = FALSE /\ failed = FALSE
-----------------------------------------------------------------------------
\* A call is refused: event() returns Err at once.
Refused == blocked /\ failed' = TRUE /\ pc' = "failing"
Accepted == ~blocked /\ UNCHANGED failed

Finish == pc' = "idle" /\ event' = NoEvent /\ at' = 1

\* Windows' view of an injected frame of contacts.
AfterFrame(frame) ==
  (contactsDown \ {c \in Contact : frame[c] = "up"})
    \cup {c \in Contact : frame[c] = "down"}

Touched == {c \in Contact : touches[c] # "none"}

\* touch(): the contact enters the map before the frame with every contact is
\* injected, and leaves it after.
TouchFrame(c, flag) == [touches EXCEPT ![c] = flag]
\* Mutant: a contact just pressed is pressed again with the next frame.
SettleKeepsDown(frame) ==
  [c \in Contact |-> IF frame[c] = "up" THEN "none" ELSE frame[c]]
Settle(frame) ==
  [c \in Contact |-> IF frame[c] \in {"up", "none"} THEN "none" ELSE "update"]

Touch(c, flag) ==
  /\ pc = "idle"
  /\ (flag = "down") <=> (c \notin Touched)
  /\ \/ /\ Accepted
        /\ contactsDown' = AfterFrame(TouchFrame(c, flag))
        /\ touches' = Settle(TouchFrame(c, flag)) /\ UNCHANGED pc
     \/ Refused /\ touches' = TouchFrame(c, flag) /\ UNCHANGED contactsDown
  /\ UNCHANGED <<event, at, keys, buttons, keysDown, buttonsDown, blocked>>

\* An event of impossible flags, a second down, or an update without a down.
Malformed ==
  /\ pc = "idle" /\ pc' = "failing"
  /\ UNCHANGED <<event, at, believed, windows, blocked, failed>>
-----------------------------------------------------------------------------
(* mouse(): the move, each changed button, then the buttons are believed,  *)
(* then the wheel.  Nothing of it happens while a contact is down.         *)

Mouse(b, w) ==
  /\ pc = "idle" /\ Touched = {}
  /\ \/ Accepted /\ pc' = "buttons" /\ at' = 1
        /\ event' = [kind |-> "mouse", buttons |-> b, wheel |-> w]
     \/ Refused /\ UNCHANGED <<event, at>>
  /\ UNCHANGED <<believed, windows, blocked>>

MoreButtons == at \in Button

MouseButton ==
  LET changed == (at \in event.buttons) # (at \in buttons) IN
  /\ pc = "buttons" /\ MoreButtons
  /\ \/ ~changed /\ at' = at + 1 /\ UNCHANGED <<pc, buttonsDown, failed>>
     \/ changed /\ Accepted /\ at' = at + 1 /\ UNCHANGED pc
        /\ buttonsDown' = IF at \in event.buttons THEN buttonsDown \cup {at}
                          ELSE buttonsDown \ {at}
     \/ changed /\ Refused /\ UNCHANGED <<at, buttonsDown>>
  /\ UNCHANGED <<event, believed, contactsDown, keysDown, blocked>>

MouseCommit ==
  /\ pc = "buttons" /\ ~MoreButtons
  /\ buttons' = event.buttons
  /\ IF event.wheel THEN pc' = "wheel" /\ UNCHANGED <<event, at>> ELSE Finish
  /\ UNCHANGED <<touches, keys, windows, blocked, failed>>

MouseWheel ==
  /\ pc = "wheel"
  /\ \/ Accepted /\ Finish
     \/ Refused /\ UNCHANGED <<event, at>>
  /\ UNCHANGED <<believed, windows, blocked>>
-----------------------------------------------------------------------------
(* keyboard(): the modifiers are brought in line with the event's, except  *)
(* the one whose key the event is about, then the key itself is sent.      *)

Keyboard(c, up, m) ==
  /\ pc = "idle" /\ pc' = "modifiers" /\ at' = 1
  /\ event' = [kind |-> "key", code |-> c, up |-> up, modifiers |-> m]
  /\ UNCHANGED <<believed, windows, blocked, failed>>

Own == event.code.mask = at
Held    == {Left(at), Right(at)} \cap keys
Missing == at \in event.modifiers /\ Held = {}
Surplus == at \notin event.modifiers /\ Held # {}

ModifierSettled ==
  /\ pc = "modifiers" /\ at \in Mask
  /\ Own \/ ~(Missing \/ Surplus)
  /\ at' = at + 1
  /\ UNCHANGED <<pc, event, believed, windows, blocked, failed>>

\* A missing modifier is pressed, then believed.
ModifierPress ==
  /\ pc = "modifiers" /\ at \in Mask /\ ~Own /\ Missing
  /\ \/ Accepted /\ keysDown' = keysDown \cup {Left(at)} /\ keys' = keys \cup {Left(at)}
        /\ UNCHANGED pc
     \/ Refused /\ UNCHANGED <<keys, keysDown>>
  /\ UNCHANGED <<event, at, touches, buttons, contactsDown, buttonsDown, blocked>>

\* A surplus modifier is forgotten, then released; the left one first.
ModifierRelease ==
  /\ pc = "modifiers" /\ at \in Mask /\ ~Own /\ Surplus
  /\ LET c == IF Left(at) \in keys THEN Left(at) ELSE Right(at) IN
     /\ keys' = keys \ {c}
     /\ \/ Accepted /\ keysDown' = keysDown \ {c} /\ UNCHANGED pc
        \/ Refused /\ UNCHANGED keysDown
  /\ UNCHANGED <<event, at, touches, buttons, contactsDown, buttonsDown, blocked>>

\* A release of a key that is not believed down is ignored; a repeated press is sent.
Ignored == event.up /\ event.code \notin keys

KeyIgnored ==
  /\ pc = "modifiers" /\ at \notin Mask /\ Ignored /\ Finish
  /\ UNCHANGED <<believed, windows, blocked, failed>>

KeySent ==
  LET after(s) == IF event.up THEN s \ {event.code} ELSE s \cup {event.code} IN
  /\ pc = "modifiers" /\ at \notin Mask /\ ~Ignored
  /\ \/ Accepted /\ keysDown' = after(keysDown) /\ keys' = after(keys) /\ Finish
     \/ Refused /\ UNCHANGED <<event, at, keys, keysDown>>
  /\ UNCHANGED <<touches, buttons, contactsDown, buttonsDown, blocked>>
-----------------------------------------------------------------------------
(* release_all() ignores refusals: what it believed held is forgotten.      *)

\* Mutant: the keys are forgotten before they are released.
ReleaseForgets ==
  /\ buttonsDown' = IF blocked THEN buttonsDown ELSE buttonsDown \ buttons
  /\ UNCHANGED keysDown
  /\ touches' = [c \in Contact |-> "none"] /\ keys' = {} /\ buttons' = {}
  /\ failed' = (failed \/ (blocked /\ (keys # {} \/ buttons # {})))

\* Nothing looks at its calls one by one: each ignores how the one before ended, and a
\* refusal that comes between two of them is failed, as is one of all of them.
ReleaseAll ==
  /\ buttonsDown' = IF blocked THEN buttonsDown ELSE buttonsDown \ buttons
  /\ keysDown' = IF blocked THEN keysDown ELSE keysDown \ keys
  /\ touches' = [c \in Contact |-> "none"] /\ keys' = {} /\ buttons' = {}
  /\ failed' = (failed \/ (blocked /\ (Touched # {} \/ keys # {} \/ buttons # {})))

\* Destroying the synthetic device lifts its contacts in any case.  A failed
\* event, a disconnect or another mode drops the injector.
Drop ==
  /\ pc \in {"idle", "failing"} /\ pc' = "dropped"
  /\ ReleaseAll /\ contactsDown' = {}
  /\ event' = NoEvent /\ at' = 1
  /\ UNCHANGED blocked

\* The topology moved the display: everything is released, the injector stays.
BoundsChange ==
  /\ pc = "idle"
  /\ ReleaseAll
  /\ contactsDown' = IF blocked THEN contactsDown ELSE contactsDown \ Touched
  /\ UNCHANGED <<pc, event, at, blocked>>

\* Windows begins or ends to refuse input.
Block ==
  /\ pc # "dropped" /\ blocked' = ~blocked
  /\ UNCHANGED <<pc, event, at, believed, windows, failed>>

\* runtime.rs creates the next injector when the topology has the path.
Create ==
  /\ pc = "dropped" /\ pc' = "idle"
  /\ UNCHANGED <<event, at, believed, windows, blocked, failed>>

Next ==
  \/ \E c \in Contact, flag \in {"down", "update", "up"} : Touch(c, flag)
  \/ \E b \in SUBSET Button, w \in BOOLEAN : Mouse(b, w)
  \/ \E c \in Code, up \in BOOLEAN, m \in SUBSET Mask : Keyboard(c, up, m)
  \/ Malformed
  \/ MouseButton \/ MouseCommit \/ MouseWheel
  \/ ModifierSettled \/ ModifierPress \/ ModifierRelease \/ KeyIgnored \/ KeySent
  \/ Drop \/ BoundsChange \/ Block \/ Create

Safety == Init /\ [][Next]_vars
-----------------------------------------------------------------------------
(* Properties.                                                             *)

\* Over any sequence of events the injector knows what it holds down in Windows,
\* as long as no call was refused: no key and no button is ever orphaned.
BelievesWhatIsHeld ==
  (pc = "idle" /\ ~failed) => keys = keysDown /\ buttons = buttonsDown

\* After a drop nothing is held down, whichever event the drop cut short.
NothingHeldAfterDrop ==
  (pc = "dropped" /\ ~failed) => keysDown = {} /\ buttonsDown = {} /\ contactsDown = {}

\* Every frame of contacts that event() injects is one Windows takes: it names all
\* contacts that are down, presses none of them again, and updates no others.
TouchFramesLegal ==
  (pc = "idle" /\ ~failed) =>
     \A c \in Contact : touches[c] = IF c \in contactsDown THEN "update" ELSE "none"

\* The injector's account fits what Windows holds, at rest and after a drop, whatever
\* calls were cut short.
InjectorInv == TypeOK /\ BelievesWhatIsHeld /\ NothingHeldAfterDrop

\* "Disconnect and failure paths release held contacts, keys and mouse buttons":
\* a drop that Windows does not refuse leaves nothing of this injector's behind.
FailureReleases ==
  [][(Drop /\ ~blocked) => (keysDown' = {} /\ buttonsDown' = {})]_vars
=============================================================================
