------------------------------- MODULE HostProofs -------------------------------
(***************************************************************************)
(* What two parts of the host promise that share no state: InputInjector   *)
(* for any number of contacts, keys, modifiers and buttons, HostSettings   *)
(* for all sides, rates, limits a file may have and any run of healthy     *)
(* samples; and what they promise together with the control stream and     *)
(* the display's modes.                                                    *)
(***************************************************************************)
EXTENDS MCHost, ModesProofs

\* An event is in hand while it is being carried out, and it is of the right kind.
EventFits ==
  /\ pc = "modifiers" => event \in KeyEvents
  /\ pc \in {"buttons", "wheel"} => event \in MouseEvents
  /\ pc = "buttons" => at \in 1..(Buttons + 1)

\* Unless a call was refused, the injector's view of keys is Windows' all the time,
\* that of buttons too but while they are being brought in line: then Windows
\* has those before the loop's position as the event wants them, the others as believed.
KeysAgree == ~failed => keys = keysDown
ButtonsAgree ==
  ~failed => IF pc = "buttons"
             THEN \A b \in Button :
                    b \in buttonsDown <=> IF b < at THEN b \in event.buttons ELSE b \in buttons
             ELSE buttons = buttonsDown
ContactsAgree ==
  ~failed => \A c \in Contact : touches[c] = IF c \in contactsDown THEN "update" ELSE "none"
NothingLeft ==
  pc = "dropped" /\ ~failed => keys = {} /\ buttons = {} /\ contactsDown = {}

IInv == TypeOK /\ EventFits /\ KeysAgree /\ ButtonsAgree /\ ContactsAgree /\ NothingLeft
-----------------------------------------------------------------------------
(* The injector: operators.                                                *)

LEMMA FrameTypes ==
  ASSUME TypeOK, NEW c \in Contact, NEW flag \in Flag
  PROVE  /\ TouchFrame(c, flag) \in [Contact -> Flag]
         /\ Settle(TouchFrame(c, flag)) \in [Contact -> Flag]
         /\ AfterFrame(TouchFrame(c, flag)) \subseteq Contact
BY DEF TypeOK, Flag, TouchFrame, Settle, AfterFrame

LEMMA ReleaseTypes ==
  ASSUME TypeOK, ReleaseAll
  PROVE  /\ touches' \in [Contact -> Flag] /\ keys' = {} /\ buttons' = {}
         /\ keysDown' \subseteq Code /\ buttonsDown' \subseteq Button /\ failed' \in BOOLEAN
<1>1. failed' \in BOOLEAN
  BY DEF ReleaseAll
<1> QED BY <1>1 DEF TypeOK, Flag, ReleaseAll
-----------------------------------------------------------------------------
(* The injector: the invariant.                                            *)

LEMMA InjectorStart == Init => IInv
<1> SUFFICES ASSUME Init PROVE IInv
  OBVIOUS
<1>1. TypeOK
  <2>1. at \in Mask \cup Button \cup {Masks + 1, Buttons + 1}
    BY InjectorAssumption DEF Init, Mask, Button
  <2> QED BY <2>1 DEF Init, TypeOK, Flag
<1>2. EventFits /\ KeysAgree /\ ButtonsAgree /\ ContactsAgree /\ NothingLeft
  BY DEF Init, EventFits, KeysAgree, ButtonsAgree, ContactsAgree, NothingLeft
<1> QED BY <1>1, <1>2 DEF IInv

\* After Finish the loop's position is 1.
LEMMA FirstPosition == 1 \in Mask \cup Button \cup {Masks + 1, Buttons + 1}
BY InjectorAssumption DEF Mask, Button

LEMMA InjectorTypeStep == TypeOK /\ EventFits /\ [Next]_vars => TypeOK'
<1> SUFFICES ASSUME TypeOK, EventFits, [Next]_vars PROVE TypeOK'
  OBVIOUS
<1> USE FirstPosition
<1>1. ASSUME NEW c \in Contact, NEW flag \in {"down", "update", "up"}, Touch(c, flag)
      PROVE  TypeOK'
  <2>1. flag \in Flag
    BY <1>1 DEF Flag
  <2>2. touches' \in [Contact -> Flag] /\ contactsDown' \subseteq Contact
    BY <1>1, <2>1, FrameTypes DEF Touch, TypeOK
  <2>3. pc' \in {"idle", "failing"} /\ failed' \in BOOLEAN
    BY <1>1 DEF Touch, Accepted, Refused, TypeOK
  <2> QED BY <1>1, <2>2, <2>3 DEF Touch, TypeOK
<1>2. ASSUME NEW b \in SUBSET Button, NEW w \in BOOLEAN, Mouse(b, w) PROVE TypeOK'
  <2>1. [kind |-> "mouse", buttons |-> b, wheel |-> w] \in MouseEvents
    BY DEF MouseEvents
  <2>2. pc' \in {"buttons", "failing"} /\ failed' \in BOOLEAN
        /\ event' \in {NoEvent} \cup KeyEvents \cup MouseEvents
        /\ at' \in Mask \cup Button \cup {Masks + 1, Buttons + 1}
    BY <1>2, <2>1 DEF Mouse, Accepted, Refused, TypeOK
  <2> QED BY <1>2, <2>2 DEF Mouse, TypeOK, believed, windows
<1>3. ASSUME NEW c \in Code, NEW up \in BOOLEAN, NEW m \in SUBSET Mask, Keyboard(c, up, m)
      PROVE  TypeOK'
  <2>1. event' \in KeyEvents
    BY <1>3 DEF Keyboard, KeyEvents
  <2> QED BY <1>3, <2>1 DEF Keyboard, TypeOK, believed, windows
<1>4. CASE Malformed
  BY <1>4 DEF Malformed, TypeOK, believed, windows
<1>5. CASE MouseButton
  <2>1. at + 1 \in Mask \cup Button \cup {Masks + 1, Buttons + 1}
    BY <1>5, InjectorAssumption DEF MouseButton, MoreButtons, Button
  <2>2. at' \in Mask \cup Button \cup {Masks + 1, Buttons + 1} /\ pc' \in {"buttons", "failing"}
    BY <1>5, <2>1 DEF MouseButton, Accepted, Refused, TypeOK
  <2>3. buttonsDown' \subseteq Button /\ failed' \in BOOLEAN
    BY <1>5 DEF MouseButton, MoreButtons, Accepted, Refused, TypeOK
  <2> QED BY <1>5, <2>2, <2>3 DEF MouseButton, TypeOK, believed
<1>6. CASE MouseCommit
  <2>1. event \in MouseEvents /\ event.buttons \subseteq Button
    BY <1>6 DEF MouseCommit, EventFits, MouseEvents
  <2>2. pc' \in {"idle", "wheel"} /\ event' \in {event, NoEvent} /\ at' \in {at, 1}
    BY <1>6 DEF MouseCommit, Finish
  <2> QED BY <1>6, <2>1, <2>2 DEF MouseCommit, TypeOK, windows
<1>7. CASE MouseWheel
  BY <1>7 DEF MouseWheel, Accepted, Refused, Finish, TypeOK, believed, windows
<1>8. CASE ModifierSettled
  <2>1. at + 1 \in Mask \cup Button \cup {Masks + 1, Buttons + 1}
    BY <1>8, InjectorAssumption DEF ModifierSettled, Mask
  <2> QED BY <1>8, <2>1 DEF ModifierSettled, TypeOK, believed, windows
<1>9. CASE ModifierPress
  <2>1. Left(at) \in Code
    BY <1>9 DEF ModifierPress, Left, Code
  <2>2. keys' \subseteq Code /\ keysDown' \subseteq Code
        /\ pc' \in {"modifiers", "failing"} /\ failed' \in BOOLEAN
    BY <1>9, <2>1 DEF ModifierPress, Accepted, Refused, TypeOK
  <2> QED BY <1>9, <2>2 DEF ModifierPress, TypeOK
<1>10. CASE ModifierRelease
  <2>1. keys' \subseteq Code /\ keysDown' \subseteq Code
        /\ pc' \in {"modifiers", "failing"} /\ failed' \in BOOLEAN
    BY <1>10 DEF ModifierRelease, Accepted, Refused, TypeOK
  <2> QED BY <1>10, <2>1 DEF ModifierRelease, TypeOK
<1>11. CASE KeyIgnored
  BY <1>11 DEF KeyIgnored, Finish, TypeOK, believed, windows
<1>12. CASE KeySent
  <2>1. event.code \in Code
    BY <1>12 DEF KeySent, EventFits, KeyEvents
  <2>2. keys' \subseteq Code /\ keysDown' \subseteq Code
    BY <1>12, <2>1 DEF KeySent, Accepted, Refused, TypeOK
  <2>3. pc' \in {"idle", "failing"} /\ event' \in {event, NoEvent} /\ at' \in {at, 1}
        /\ failed' \in BOOLEAN
    BY <1>12 DEF KeySent, Accepted, Refused, Finish, TypeOK
  <2> QED BY <1>12, <2>2, <2>3 DEF KeySent, TypeOK
<1>13. CASE Drop
  BY <1>13, ReleaseTypes DEF Drop, TypeOK
<1>14. CASE BoundsChange
  <2>1. contactsDown' \subseteq Contact
    BY <1>14 DEF BoundsChange, TypeOK
  <2> QED BY <1>14, <2>1, ReleaseTypes DEF BoundsChange, TypeOK
<1>15. CASE Block
  BY <1>15 DEF Block, TypeOK, believed, windows
<1>16. CASE Create
  BY <1>16 DEF Create, TypeOK, believed, windows
<1>17. CASE UNCHANGED vars
  BY <1>17 DEF vars, TypeOK, believed, windows
<1> QED BY <1>1, <1>2, <1>3, <1>4, <1>5, <1>6, <1>7, <1>8, <1>9, <1>10, <1>11, <1>12,
           <1>13, <1>14, <1>15, <1>16, <1>17 DEF Next

LEMMA EventStep == TypeOK /\ EventFits /\ [Next]_vars => EventFits'
<1> SUFFICES ASSUME TypeOK, EventFits, [Next]_vars PROVE EventFits'
  OBVIOUS
<1>1. ASSUME NEW c \in Contact, NEW flag \in {"down", "update", "up"}, Touch(c, flag)
      PROVE  EventFits'
  BY <1>1 DEF Touch, Accepted, Refused, EventFits
<1>2. ASSUME NEW b \in SUBSET Button, NEW w \in BOOLEAN, Mouse(b, w) PROVE EventFits'
  <2>1. [kind |-> "mouse", buttons |-> b, wheel |-> w] \in MouseEvents
    BY DEF MouseEvents
  <2>2. 1 \in 1..(Buttons + 1)
    BY InjectorAssumption
  <2> QED BY <1>2, <2>1, <2>2 DEF Mouse, Accepted, Refused, EventFits
<1>3. ASSUME NEW c \in Code, NEW up \in BOOLEAN, NEW m \in SUBSET Mask, Keyboard(c, up, m)
      PROVE  EventFits'
  <2>1. event' \in KeyEvents
    BY <1>3 DEF Keyboard, KeyEvents
  <2> QED BY <1>3, <2>1 DEF Keyboard, EventFits
<1>4. CASE MouseButton
  <2>1. at + 1 \in 1..(Buttons + 1) /\ event \in MouseEvents
    BY <1>4, InjectorAssumption DEF MouseButton, MoreButtons, Button, EventFits
  <2> QED BY <1>4, <2>1 DEF MouseButton, Accepted, Refused, EventFits
<1>5. CASE MouseCommit \/ MouseWheel
  BY <1>5 DEF MouseCommit, MouseWheel, Accepted, Refused, Finish, EventFits
<1>6. CASE ModifierSettled \/ ModifierPress \/ ModifierRelease
  BY <1>6 DEF ModifierSettled, ModifierPress, ModifierRelease, Accepted, Refused, EventFits
<1>7. CASE KeyIgnored \/ KeySent
  BY <1>7 DEF KeyIgnored, KeySent, Accepted, Refused, Finish, EventFits
<1>8. CASE Malformed \/ Drop \/ BoundsChange \/ Block \/ Create
  BY <1>8 DEF Malformed, Drop, BoundsChange, Block, Create, EventFits
<1>9. CASE UNCHANGED vars
  BY <1>9 DEF vars, EventFits
<1> QED BY <1>1, <1>2, <1>3, <1>4, <1>5, <1>6, <1>7, <1>8, <1>9 DEF Next

LEMMA KeysStep == IInv /\ [Next]_vars => KeysAgree'
<1> SUFFICES ASSUME IInv, [Next]_vars, ~failed' PROVE keys' = keysDown'
  BY DEF KeysAgree
<1>1. ~failed => keys = keysDown
  BY DEF IInv, KeysAgree
<1>2. ASSUME NEW c \in Contact, NEW flag \in {"down", "update", "up"}, Touch(c, flag)
      PROVE  keys' = keysDown'
  BY <1>1, <1>2 DEF Touch, Accepted, Refused
<1>3. ASSUME NEW b \in SUBSET Button, NEW w \in BOOLEAN, Mouse(b, w) PROVE keys' = keysDown'
  BY <1>1, <1>3 DEF Mouse, Accepted, Refused, believed, windows
<1>4. ASSUME NEW c \in Code, NEW up \in BOOLEAN, NEW m \in SUBSET Mask, Keyboard(c, up, m)
      PROVE  keys' = keysDown'
  BY <1>1, <1>4 DEF Keyboard, believed, windows
<1>5. CASE MouseButton \/ MouseCommit \/ MouseWheel
  BY <1>1, <1>5 DEF MouseButton, MouseCommit, MouseWheel, Accepted, Refused, believed, windows
<1>6. CASE ModifierSettled \/ ModifierPress \/ ModifierRelease
  BY <1>1, <1>6 DEF ModifierSettled, ModifierPress, ModifierRelease, Accepted, Refused,
                    believed, windows
<1>7. CASE KeyIgnored \/ KeySent
  BY <1>1, <1>7 DEF KeyIgnored, KeySent, Accepted, Refused, believed, windows
<1>8. CASE Drop \/ BoundsChange
  BY <1>1, <1>8 DEF Drop, BoundsChange, ReleaseAll
<1>9. CASE Malformed \/ Block \/ Create
  BY <1>1, <1>9 DEF Malformed, Block, Create, believed, windows
<1>10. CASE UNCHANGED vars
  BY <1>1, <1>10 DEF vars, believed, windows
<1> QED BY <1>2, <1>3, <1>4, <1>5, <1>6, <1>7, <1>8, <1>9, <1>10 DEF Next

LEMMA ButtonsStep == IInv /\ [Next]_vars => ButtonsAgree'
<1> SUFFICES ASSUME IInv, [Next]_vars PROVE ButtonsAgree'
  OBVIOUS
<1>0. ButtonsAgree /\ EventFits /\ TypeOK
  BY DEF IInv
<1>1. ASSUME NEW c \in Contact, NEW flag \in {"down", "update", "up"}, Touch(c, flag)
      PROVE  ButtonsAgree'
  BY <1>0, <1>1 DEF Touch, Accepted, Refused, ButtonsAgree
<1>2. ASSUME NEW b \in SUBSET Button, NEW w \in BOOLEAN, Mouse(b, w) PROVE ButtonsAgree'
  <2> SUFFICES ASSUME ~failed' PROVE ButtonsAgree'
    BY DEF ButtonsAgree
  <2>1. ~failed /\ pc' = "buttons" /\ at' = 1 /\ buttons = buttonsDown
        /\ UNCHANGED <<buttons, buttonsDown>>
    BY <1>0, <1>2 DEF Mouse, Accepted, Refused, ButtonsAgree, believed, windows
  <2>2. \A n \in Button : ~(n < 1)
    BY InjectorAssumption DEF Button
  <2> QED BY <2>1, <2>2 DEF ButtonsAgree
<1>3. ASSUME NEW c \in Code, NEW up \in BOOLEAN, NEW m \in SUBSET Mask, Keyboard(c, up, m)
      PROVE  ButtonsAgree'
  BY <1>0, <1>3 DEF Keyboard, ButtonsAgree, believed, windows
<1>4. CASE MouseButton
  <2> SUFFICES ASSUME ~failed', NEW n \in Button
               PROVE  /\ pc' = "buttons"
                      /\ n \in buttonsDown' <=> IF n < at + 1 THEN n \in event.buttons
                                                ELSE n \in buttons
                      /\ at' = at + 1 /\ UNCHANGED <<event, buttons>>
    <3>1. MouseButton /\ ~failed' => pc' = "buttons" /\ at' = at + 1 /\ UNCHANGED <<event, buttons>>
      BY DEF MouseButton, Refused, believed
    <3> QED BY <1>4, <3>1 DEF ButtonsAgree
  <2>1. /\ pc' = "buttons" /\ at' = at + 1 /\ UNCHANGED <<event, buttons>>
        /\ ~failed /\ pc = "buttons"
    BY <1>4 DEF MouseButton, Accepted, Refused, believed
  <2>2. \A b \in Button : b \in buttonsDown <=> IF b < at THEN b \in event.buttons
                                                ELSE b \in buttons
    BY <1>0, <2>1 DEF ButtonsAgree
  <2>3. /\ n # at => (n \in buttonsDown' <=> n \in buttonsDown)
        /\ at \in buttonsDown' <=> at \in event.buttons
    <3>1. at \in Button
      BY <1>4 DEF MouseButton, MoreButtons
    <3>2. at \in buttonsDown <=> at \in buttons
      BY <2>2, <3>1, InjectorAssumption DEF Button
    <3> QED BY <1>4, <3>2 DEF MouseButton, Refused
  <2>4. n \in Nat /\ at \in Nat
    BY <1>4, InjectorAssumption DEF MouseButton, MoreButtons, Button
  <2> QED BY <2>1, <2>2, <2>3, <2>4
<1>5. CASE MouseCommit
  <2> SUFFICES ASSUME ~failed PROVE pc' # "buttons" /\ buttons' = buttonsDown'
    BY <1>5 DEF MouseCommit, ButtonsAgree
  <2>1. /\ pc = "buttons" /\ at \notin Button /\ pc' # "buttons"
        /\ buttons' = event.buttons /\ buttonsDown' = buttonsDown
    BY <1>5 DEF MouseCommit, MoreButtons, Finish, windows
  <2>2. at = Buttons + 1 /\ event.buttons \subseteq Button
    BY <1>0, <2>1, InjectorAssumption DEF EventFits, MouseEvents, Button
  <2>3. \A b \in Button : b < at
    BY <2>2, InjectorAssumption DEF Button
  <2>4. buttonsDown \subseteq Button
    BY <1>0 DEF TypeOK
  <2>5. \A b \in Button : b \in buttonsDown <=> b \in event.buttons
    BY <1>0, <2>1, <2>3 DEF ButtonsAgree
  <2> QED BY <2>1, <2>2, <2>4, <2>5
<1>6. CASE MouseWheel
  BY <1>0, <1>6 DEF MouseWheel, Accepted, Refused, Finish, ButtonsAgree, believed, windows
<1>7. CASE ModifierSettled \/ ModifierPress \/ ModifierRelease
  BY <1>0, <1>7 DEF ModifierSettled, ModifierPress, ModifierRelease, Accepted, Refused,
                    ButtonsAgree, believed, windows
<1>8. CASE KeyIgnored \/ KeySent
  BY <1>0, <1>8 DEF KeyIgnored, KeySent, Accepted, Refused, Finish, ButtonsAgree, believed, windows
<1>9. CASE Drop \/ BoundsChange
  BY <1>0, <1>9 DEF Drop, BoundsChange, ReleaseAll, ButtonsAgree
<1>10. CASE Malformed \/ Create
  BY <1>0, <1>10 DEF Malformed, Create, ButtonsAgree, believed, windows
<1>11. CASE Block
  BY <1>0, <1>11 DEF Block, ButtonsAgree, believed, windows
<1>12. CASE UNCHANGED vars
  BY <1>0, <1>12 DEF vars, ButtonsAgree, believed, windows
<1> QED BY <1>1, <1>2, <1>3, <1>4, <1>5, <1>6, <1>7, <1>8, <1>9, <1>10, <1>11, <1>12 DEF Next

\* A frame that Windows takes leaves both sides with the same contacts.
LEMMA FrameAgrees ==
  ASSUME TypeOK, NEW c \in Contact, NEW flag \in {"down", "update", "up"},
         (flag = "down") <=> (c \notin Touched),
         \A x \in Contact : touches[x] = IF x \in contactsDown THEN "update" ELSE "none",
         NEW x \in Contact
  PROVE  Settle(TouchFrame(c, flag))[x]
           = IF x \in AfterFrame(TouchFrame(c, flag)) THEN "update" ELSE "none"
<1>1. TouchFrame(c, flag)[x] = IF x = c THEN flag ELSE touches[x]
  BY DEF TouchFrame, TypeOK
<1>2. x \in AfterFrame(TouchFrame(c, flag)) <=>
        \/ TouchFrame(c, flag)[x] = "down"
        \/ x \in contactsDown /\ TouchFrame(c, flag)[x] # "up"
  BY DEF AfterFrame
<1>3. Settle(TouchFrame(c, flag))[x]
        = IF TouchFrame(c, flag)[x] \in {"up", "none"} THEN "none" ELSE "update"
  BY DEF Settle
<1>4. c \in contactsDown <=> flag # "down"
  BY DEF Touched
<1>5. CASE x = c
  BY <1>1, <1>2, <1>3, <1>4, <1>5
<1>6. CASE x # c
  BY <1>1, <1>2, <1>3, <1>6
<1> QED BY <1>5, <1>6

LEMMA ContactsStep == IInv /\ [Next]_vars => ContactsAgree'
<1> SUFFICES ASSUME IInv, [Next]_vars, ~failed'
             PROVE  \A x \in Contact :
                      touches'[x] = IF x \in contactsDown' THEN "update" ELSE "none"
  BY DEF ContactsAgree
<1>0. TypeOK /\ KeysAgree /\ ButtonsAgree
      /\ (~failed => \A x \in Contact :
                       touches[x] = IF x \in contactsDown THEN "update" ELSE "none")
  BY DEF IInv, ContactsAgree
<1>1. ASSUME NEW c \in Contact, NEW flag \in {"down", "update", "up"}, Touch(c, flag),
             NEW x \in Contact
      PROVE  touches'[x] = IF x \in contactsDown' THEN "update" ELSE "none"
  <2>1. /\ ~failed /\ ((flag = "down") <=> (c \notin Touched))
        /\ touches' = Settle(TouchFrame(c, flag))
        /\ contactsDown' = AfterFrame(TouchFrame(c, flag))
    BY <1>1 DEF Touch, Accepted, Refused
  <2> QED BY <1>0, <2>1, FrameAgrees
<1>2. ASSUME NEW b \in SUBSET Button, NEW w \in BOOLEAN, Mouse(b, w)
      PROVE  ~failed /\ UNCHANGED <<touches, contactsDown>>
  BY <1>2 DEF Mouse, Accepted, Refused, believed, windows
<1>3. ASSUME NEW c \in Code, NEW up \in BOOLEAN, NEW m \in SUBSET Mask, Keyboard(c, up, m)
      PROVE  ~failed /\ UNCHANGED <<touches, contactsDown>>
  BY <1>3 DEF Keyboard, believed, windows
<1>4. CASE Drop \/ BoundsChange
  <2>1. /\ \A x \in Contact : touches'[x] = "none"
        /\ ~failed /\ (blocked => Touched = {})
    BY <1>4 DEF Drop, BoundsChange, ReleaseAll
  <2>2. contactsDown \subseteq Touched
    BY <1>0, <2>1 DEF Touched, TypeOK
  <2>3. contactsDown' = {}
    BY <1>4, <2>1, <2>2 DEF Drop, BoundsChange
  <2> QED BY <2>1, <2>3
<1>5. CASE MouseButton \/ MouseCommit \/ MouseWheel
  <2>1. ~failed /\ UNCHANGED <<touches, contactsDown>>
    BY <1>5 DEF MouseButton, MouseCommit, MouseWheel, Accepted, Refused, believed, windows
  <2> QED BY <1>0, <2>1
<1>6. CASE ModifierSettled \/ ModifierPress \/ ModifierRelease
  <2>1. ~failed /\ UNCHANGED <<touches, contactsDown>>
    BY <1>6 DEF ModifierSettled, ModifierPress, ModifierRelease, Accepted, Refused,
                believed, windows
  <2> QED BY <1>0, <2>1
<1>7. CASE KeyIgnored \/ KeySent
  <2>1. ~failed /\ UNCHANGED <<touches, contactsDown>>
    BY <1>7 DEF KeyIgnored, KeySent, Accepted, Refused, believed, windows
  <2> QED BY <1>0, <2>1
<1>8. CASE Malformed \/ Block \/ Create
  <2>1. ~failed /\ UNCHANGED <<touches, contactsDown>>
    BY <1>8 DEF Malformed, Block, Create, believed, windows
  <2> QED BY <1>0, <2>1
<1>9. CASE UNCHANGED vars
  <2>1. ~failed /\ UNCHANGED <<touches, contactsDown>>
    BY <1>9 DEF vars, believed, windows
  <2> QED BY <1>0, <2>1
<1> QED BY <1>0, <1>1, <1>2, <1>3, <1>4, <1>5, <1>6, <1>7, <1>8, <1>9 DEF Next

LEMMA DroppedStep == IInv /\ [Next]_vars => NothingLeft'
<1> SUFFICES ASSUME IInv, [Next]_vars, pc' = "dropped", ~failed'
             PROVE  keys' = {} /\ buttons' = {} /\ contactsDown' = {}
  BY DEF NothingLeft
<1>1. CASE Drop
  BY <1>1 DEF Drop, ReleaseAll
<1>2. CASE UNCHANGED vars
  BY <1>2 DEF IInv, NothingLeft, vars, believed, windows
<1>3. ~BoundsChange /\ ~Block /\ ~Create /\ ~Malformed
  BY DEF BoundsChange, Block, Create, Malformed
<1>4. /\ \A c \in Contact, flag \in {"down", "update", "up"} : ~Touch(c, flag)
      /\ \A b \in SUBSET Button, w \in BOOLEAN : ~Mouse(b, w)
      /\ \A c \in Code, up \in BOOLEAN, m \in SUBSET Mask : ~Keyboard(c, up, m)
  BY DEF Touch, Mouse, Keyboard, Accepted, Refused
<1>5. ~MouseButton /\ ~MouseCommit /\ ~MouseWheel
  BY DEF MouseButton, MouseCommit, MouseWheel, Accepted, Refused, Finish
<1>6. ~ModifierSettled /\ ~ModifierPress /\ ~ModifierRelease /\ ~KeyIgnored /\ ~KeySent
  BY DEF ModifierSettled, ModifierPress, ModifierRelease, KeyIgnored, KeySent, Accepted,
         Refused, Finish
<1> QED BY <1>1, <1>2, <1>3, <1>4, <1>5, <1>6 DEF Next

LEMMA InjectorInvariant == Safety => []IInv
<1>1. IInv /\ [Next]_vars => IInv'
  BY InjectorTypeStep, EventStep, KeysStep, ButtonsStep, ContactsStep, DroppedStep DEF IInv
<1> QED BY InjectorStart, <1>1, PTL DEF Safety
-----------------------------------------------------------------------------
(* The injector: theorems.                                                 *)

\* As long as Windows refuses nothing, the injector knows at rest which keys and
\* buttons it holds down, and holds nothing after a drop, also one in mid-event.
THEOREM KnowsWhatIsHeld == Safety => []InjectorInv
<1>1. IInv => InjectorInv
  <2> SUFFICES ASSUME IInv PROVE InjectorInv
    OBVIOUS
  <2>1. BelievesWhatIsHeld
    BY DEF IInv, KeysAgree, ButtonsAgree, BelievesWhatIsHeld
  <2>2. NothingHeldAfterDrop
    BY DEF IInv, KeysAgree, ButtonsAgree, NothingLeft, NothingHeldAfterDrop
  <2> QED BY <2>1, <2>2 DEF IInv, InjectorInv
<1> QED BY InjectorInvariant, <1>1, PTL

\* Whatever contacts come and go, the next frame of touch() names the contacts that
\* are down in Windows and no others.
THEOREM FramesFit == Safety => []TouchFramesLegal
<1>1. IInv => TouchFramesLegal
  BY DEF IInv, ContactsAgree, TouchFramesLegal
<1> QED BY InjectorInvariant, <1>1, PTL
-----------------------------------------------------------------------------
(* The settings: what the invariant needs.                                 *)

\* Only a valid configuration is ever saved.
SavesValid == save # "none" => Valid(config)

\* Until a save has ended, what it was for is all that is not yet in effect.
Pending ==
  (host # "stopped" /\ ~choiceFailed) =>
    /\ workerSide = config.side \/ (save # "none" /\ then = "placement")
    /\ ~config.adaptive => rate = config.bitrate \/ (save # "none" /\ then = "rate")
    /\ edited \/ disk = config \/ save # "none"

SettingsInv == SettingsTypeOK /\ FileAlwaysLoads /\ SavesValid /\ Pending /\ RateWithinLimits
-----------------------------------------------------------------------------
(* The settings: operators.                                                *)

LEMMA MaxOfTwo ==
  ASSUME NEW a \in Nat, NEW b \in Nat
  PROVE  Max({a, b}) = IF a >= b THEN a ELSE b
<1> DEFINE m == IF a >= b THEN a ELSE b
<1>1. m \in {a, b} /\ \A y \in {a, b} : m >= y
  OBVIOUS
<1>2. \A x \in {a, b} : (\A y \in {a, b} : x >= y) => x = m
  BY <1>1
<1> QED BY <1>1, <1>2 DEF Max

\* What the fields of a configuration are.
LEMMA ConfigFields ==
  ASSUME NEW c \in Config
  PROVE  /\ c.side \in Sides /\ c.adaptive \in BOOLEAN /\ c.bitrate \in Rates
         /\ c.bitrate \in Nat /\ c.min \in Nat /\ c.max \in Nat
<1>1. /\ c.side \in Sides /\ c.adaptive \in BOOLEAN /\ c.bitrate \in Rates
      /\ <<c.min, c.max, c.primary>> \in Fixed
  BY DEF Config
<1>2. <<c.min, c.max, c.primary>> \in Nat \X Nat \X BOOLEAN
  BY <1>1, SettingsAssumption
<1>3. Rates \subseteq Nat
  BY SettingsAssumption DEF Rates
<1> QED BY <1>1, <1>2, <1>3

\* A choice of the tray makes a configuration with the limits of the one before.
LEMMA ChosenConfig ==
  ASSUME NEW c \in Config
  PROVE  /\ \A s \in Sides :
              LET d == [c EXCEPT !.side = s] IN
              /\ d \in Config /\ d.side = s /\ d.adaptive = c.adaptive
              /\ d.bitrate = c.bitrate /\ d.min = c.min /\ d.max = c.max
         /\ \A q \in Qualities :
              LET d == [c EXCEPT !.adaptive = (q = "auto"), !.bitrate = RateOf[q]] IN
              /\ d \in Config /\ d.side = c.side /\ d.bitrate = RateOf[q]
              /\ d.min = c.min /\ d.max = c.max
<1>1. /\ c \in [side : Sides, adaptive : BOOLEAN, bitrate : Rates,
                min : {x[1] : x \in Fixed}, max : {x[2] : x \in Fixed},
                primary : BOOLEAN]
      /\ <<c.min, c.max, c.primary>> \in Fixed
  BY DEF Config
<1>2. ASSUME NEW s \in Sides
      PROVE  LET d == [c EXCEPT !.side = s] IN
             /\ d \in Config /\ d.side = s /\ d.adaptive = c.adaptive
             /\ d.bitrate = c.bitrate /\ d.min = c.min /\ d.max = c.max
  BY <1>1 DEF Config
<1>3. ASSUME NEW q \in Qualities
      PROVE  LET d == [c EXCEPT !.adaptive = (q = "auto"), !.bitrate = RateOf[q]] IN
             /\ d \in Config /\ d.side = c.side /\ d.bitrate = RateOf[q]
             /\ d.min = c.min /\ d.max = c.max
  <2>1. (q = "auto") \in BOOLEAN /\ RateOf[q] \in Rates
    BY DEF Rates
  <2> QED BY <1>1, <2>1 DEF Config
<1> QED BY <1>2, <1>3

LEMMA DefaultConfig == Default \in Config /\ Valid(Default) /\ Default.side = DefaultSide
                       /\ Default.adaptive = TRUE /\ Default.bitrate \in Nat
<1>1. RateOf["auto"] \in Rates /\ RateOf["auto"] \in Nat
  BY SettingsAssumption DEF Rates, Qualities
<1>2. /\ DefaultFixed \in Nat \X Nat \X BOOLEAN
      /\ DefaultFixed = <<DefaultFixed[1], DefaultFixed[2], DefaultFixed[3]>>
  BY SettingsAssumption
<1>3. Default \in Config
  BY <1>1, <1>2, SettingsAssumption DEF Default, Config
<1> QED BY <1>1, <1>2, <1>3, SettingsAssumption DEF Default, Valid

\* The tray's rates are within a configuration's limits.
Allows(c) == \A q \in Qualities : c.min <= RateOf[q] /\ RateOf[q] <= c.max

LEMMA AllowedRates ==
  ASSUME NEW c \in Config, Allows(c), NEW r \in Rates
  PROVE  r \in c.min..c.max /\ c.min <= c.max
<1>1. PICK q \in Qualities : r = RateOf[q]
  BY DEF Rates
<1>2. c.min <= RateOf[q] /\ RateOf[q] <= c.max /\ RateOf[q] \in Nat
  BY SettingsAssumption DEF Allows
<1> QED BY <1>1, <1>2, ConfigFields

\* Neither step of the controller leaves the limits.
LEMMA ControllerKeeps ==
  ASSUME SettingsTypeOK
  PROVE  /\ Increased(abr) \in Nat /\ Decreased(abr) \in Nat
         /\ abr \in config.min..config.max =>
              /\ Increased(abr) \in config.min..config.max
              /\ Decreased(abr) \in config.min..config.max
<1>1. abr \in Nat /\ config.min \in Nat /\ config.max \in Nat
  BY ConfigFields DEF SettingsTypeOK
<1>2. abr + abr \div 20 \in Nat /\ abr <= abr + abr \div 20
  BY <1>1
<1>3. (abr * 3) \div 4 \in Nat /\ (abr * 3) \div 4 <= abr
  BY <1>1
<1>4. Increased(abr) = IF abr + abr \div 20 <= config.max THEN abr + abr \div 20 ELSE config.max
  BY <1>1, <1>2, MinOfTwo DEF Increased
<1>5. Decreased(abr) = IF (abr * 3) \div 4 >= config.min THEN (abr * 3) \div 4 ELSE config.min
  BY <1>1, <1>3, MaxOfTwo DEF Decreased
<1> QED BY <1>1, <1>2, <1>3, <1>4, <1>5
-----------------------------------------------------------------------------
(* The settings: the invariant.                                            *)

LEMMA SettingsStart == SettingsInit => SettingsInv
<1> SUFFICES ASSUME SettingsInit PROVE SettingsInv
  OBVIOUS
<1>1. config = Default /\ config \in Config /\ workerSide \in Sides /\ rate \in Nat
  BY DefaultConfig, ConfigFields DEF SettingsInit
<1>2. FileAlwaysLoads /\ disk \in Config \cup {NoFile, Partial}
  BY DEF SettingsInit, FileAlwaysLoads, Loadable
<1>3. SettingsTypeOK
  <2>1. 0 \in 0..(HealthyRun - 1) /\ 0 \in Nat
    BY SettingsAssumption
  <2> QED BY <1>1, <1>2, <2>1 DEF SettingsInit, SettingsTypeOK
<1>4. SavesValid /\ Pending /\ RateWithinLimits
  BY DEF SettingsInit, SavesValid, Pending, RateWithinLimits
<1> QED BY <1>2, <1>3, <1>4 DEF SettingsInv

\* What a failed choice leaves.
LEMMA FailsKeeps ==
  ASSUME SettingsTypeOK, Fails
  PROVE  /\ host' \in {"stopped", "idle"} /\ (host' # "stopped" => host = "session")
         /\ save' = "none" /\ choiceFailed' = TRUE /\ abr' = 0 /\ healthy' \in 0..(HealthyRun - 1)
BY SettingsAssumption DEF Fails, AbrGone, SettingsTypeOK

\* A configuration that was chosen, with the limits of the one in memory.
LEMMA ChooseKeeps ==
  ASSUME SettingsInv, NEW c \in Config, NEW next \in {"placement", "rate"}, Choose(c, next),
         c.min = config.min, c.max = config.max,
         next = "placement" => c.adaptive = config.adaptive /\ c.bitrate = config.bitrate,
         next = "rate" => c.side = config.side
  PROVE  SettingsInv'
<1> USE DEF SettingsInv
<1>1. CASE Valid(c)
  <2>1. /\ config' = c /\ save' = "create" /\ then' = next /\ save = "none" /\ host # "stopped"
        /\ UNCHANGED <<host, disk, workerSide, rate, abr, healthy, edited, choiceFailed>>
    BY <1>1 DEF Choose, Running, abrVars
  <2>2. SettingsTypeOK'
    BY <2>1 DEF SettingsTypeOK
  <2>3. FileAlwaysLoads' /\ SavesValid'
    BY <1>1, <2>1 DEF FileAlwaysLoads, Loadable, SavesValid, Valid
  <2>4. Pending'
    BY <2>1 DEF Pending
  <2>5. RateWithinLimits'
    BY <2>1 DEF RateWithinLimits
  <2> QED BY <2>2, <2>3, <2>4, <2>5
<1>2. CASE ~Valid(c)
  <2>1. Fails /\ config' = c /\ UNCHANGED <<then, disk, workerSide, rate, edited>>
    BY <1>2 DEF Choose
  <2>2. SettingsTypeOK'
    <3>1. /\ host' \in {"stopped", "idle"} /\ save' = "none" /\ choiceFailed' = TRUE /\ abr' = 0
          /\ healthy' \in 0..(HealthyRun - 1)
      BY <2>1, FailsKeeps
    <3>2. 0 \in Nat
      OBVIOUS
    <3> QED BY <2>1, <3>1, <3>2 DEF SettingsTypeOK
  <2>3. FileAlwaysLoads' /\ SavesValid' /\ Pending'
    BY <2>1, FailsKeeps DEF FileAlwaysLoads, Loadable, SavesValid, Pending, Valid
  <2>4. RateWithinLimits'
    BY <2>1, FailsKeeps DEF RateWithinLimits
  <2> QED BY <2>2, <2>3, <2>4
<1> QED BY <1>1, <1>2

LEMMA UpdateKeeps ==
  ASSUME SettingsInv, NEW next \in Nat, NEW run \in 0..(HealthyRun - 1), Update(next, run),
         abr \in config.min..config.max => next \in config.min..config.max
  PROVE  SettingsInv'
<1> USE DEF SettingsInv
<1>1. /\ host = "session" /\ save = "none" /\ config.adaptive /\ abr' = next /\ healthy' = run
      /\ rate' \in {rate, next}
      /\ UNCHANGED <<host, config, disk, save, then, workerSide, edited, choiceFailed>>
  BY DEF Update
<1>2. SettingsTypeOK'
  BY <1>1 DEF SettingsTypeOK
<1>3. FileAlwaysLoads' /\ SavesValid' /\ Pending'
  BY <1>1 DEF FileAlwaysLoads, Loadable, SavesValid, Pending, Valid
<1>4. RateWithinLimits'
  BY <1>1 DEF RateWithinLimits
<1> QED BY <1>2, <1>3, <1>4

LEMMA SettingsStep == SettingsInv /\ [SettingsNext]_settingsVars => SettingsInv'
<1> SUFFICES ASSUME SettingsInv, [SettingsNext]_settingsVars PROVE SettingsInv'
  OBVIOUS
<1>0. /\ SettingsTypeOK /\ FileAlwaysLoads /\ SavesValid /\ Pending /\ RateWithinLimits
      /\ config \in Config /\ config.bitrate \in Rates /\ config.bitrate \in Nat
  BY ConfigFields DEF SettingsInv, SettingsTypeOK
<1> USE DEF SettingsInv
<1>1. CASE HostStarts
  <2>1. config' \in Config /\ Valid(config') /\ save' \in {save, "create"}
    BY <1>0, <1>1, DefaultConfig DEF HostStarts, Loadable
  <2>2. config'.side \in Sides /\ config'.bitrate \in Rates /\ config'.bitrate \in Nat
    BY <2>1, ConfigFields
  <2>3. SettingsTypeOK'
    BY <1>0, <1>1, <2>1, <2>2 DEF HostStarts, SettingsTypeOK, abrVars
  <2>4. FileAlwaysLoads' /\ SavesValid'
    BY <1>0, <1>1, <2>1 DEF HostStarts, FileAlwaysLoads, Loadable, SavesValid, Valid
  <2>5. Pending'
    BY <1>0, <1>1 DEF HostStarts, Pending, SettingsTypeOK
  <2>6. RateWithinLimits'
    <3>1. host' = "idle" /\ rate' = config'.bitrate
      BY <1>1 DEF HostStarts
    <3>2. ASSUME Allows(config') PROVE rate' \in config'.min..config'.max
      BY <2>1, <2>2, <3>1, <3>2, AllowedRates
    <3> QED BY <3>1, <3>2 DEF RateWithinLimits, Allows
  <2> QED BY <2>3, <2>4, <2>5, <2>6
<1>2. CASE HostEnds
  <2>1. SettingsTypeOK'
    BY <1>0, <1>2, SettingsAssumption DEF HostEnds, AbrGone, SettingsTypeOK
  <2> QED BY <1>0, <1>2, <2>1
      DEF HostEnds, FileAlwaysLoads, Loadable, SavesValid, Pending, RateWithinLimits, Valid
<1>3. CASE Edit
  <2>1. disk' \in Config /\ Valid(disk') /\ edited' = TRUE
        /\ UNCHANGED <<host, config, save, then, workerSide, rate, abr, healthy, choiceFailed>>
    BY <1>3 DEF Edit, abrVars
  <2>2. SettingsTypeOK'
    BY <1>0, <2>1 DEF SettingsTypeOK
  <2>3. FileAlwaysLoads' /\ SavesValid' /\ Pending' /\ RateWithinLimits'
    BY <1>0, <2>1 DEF FileAlwaysLoads, Loadable, SavesValid, Pending, RateWithinLimits, Valid
  <2> QED BY <2>2, <2>3
<1>4. CASE CreateFile \/ WriteFile
  <2>1. save # "none" /\ save' \in {"write", "move"}
        /\ UNCHANGED <<host, config, disk, then, workerSide, rate, abr, healthy, edited,
                       choiceFailed>>
    BY <1>4 DEF CreateFile, WriteFile, abrVars
  <2>2. SettingsTypeOK'
    BY <1>0, <2>1 DEF SettingsTypeOK
  <2>3. FileAlwaysLoads' /\ SavesValid' /\ Pending' /\ RateWithinLimits'
    BY <1>0, <2>1 DEF FileAlwaysLoads, Loadable, SavesValid, Pending, RateWithinLimits, Valid
  <2> QED BY <2>2, <2>3
<1>5. CASE MoveFile
  <2>1. /\ save = "move" /\ save' = "none" /\ disk' = config /\ edited' = FALSE
        /\ workerSide' = IF then = "placement" THEN config.side ELSE workerSide
        /\ rate' = IF then = "rate" THEN config.bitrate ELSE rate
        /\ UNCHANGED <<host, config, then, abr, healthy, choiceFailed>>
    BY <1>5 DEF MoveFile, Applied, abrVars
  <2>2. SettingsTypeOK'
    BY <1>0, <2>1, ConfigFields DEF SettingsTypeOK
  <2>3. FileAlwaysLoads' /\ SavesValid'
    BY <1>0, <2>1 DEF FileAlwaysLoads, Loadable, SavesValid, Valid
  <2>4. Pending'
    BY <1>0, <2>1 DEF Pending
  <2>5. RateWithinLimits'
    <3>1. ASSUME host # "stopped", Allows(config)
          PROVE  /\ rate' \in config.min..config.max
                 /\ host = "session" => abr' \in config.min..config.max
      BY <1>0, <2>1, <3>1, AllowedRates DEF RateWithinLimits, Allows
    <3> QED BY <2>1, <3>1 DEF RateWithinLimits, Allows
  <2> QED BY <2>2, <2>3, <2>4, <2>5
<1>6. CASE SaveFails
  <2>1. /\ Fails /\ save # "none" /\ disk' \in {disk, config} /\ edited' \in {edited, FALSE}
        /\ UNCHANGED <<config, then, workerSide, rate>>
    BY <1>6 DEF SaveFails
  <2>2. SettingsTypeOK'
    <3>1. /\ host' \in {"stopped", "idle"} /\ save' = "none" /\ choiceFailed' = TRUE /\ abr' = 0
          /\ healthy' \in 0..(HealthyRun - 1)
      BY <1>0, <2>1, FailsKeeps
    <3>2. 0 \in Nat /\ edited' \in BOOLEAN
      BY <1>0, <2>1 DEF SettingsTypeOK
    <3>3. disk' \in Config \cup {NoFile, Partial}
      BY <1>0, <2>1 DEF SettingsTypeOK
    <3> QED BY <1>0, <2>1, <3>1, <3>2, <3>3 DEF SettingsTypeOK
  <2>3. FileAlwaysLoads' /\ SavesValid' /\ Pending' /\ RateWithinLimits'
    BY <1>0, <2>1, FailsKeeps
    DEF FileAlwaysLoads, Loadable, SavesValid, Pending, RateWithinLimits, Valid
  <2> QED BY <2>2, <2>3
<1>7. CASE BeginSession
  <2>1. /\ host = "idle" /\ host' = "session" /\ save = "none" /\ abr' = config.bitrate
        /\ healthy' = 0
        /\ UNCHANGED <<config, disk, save, then, workerSide, rate, edited, choiceFailed>>
    BY <1>7 DEF BeginSession
  <2>2. SettingsTypeOK'
    BY <1>0, <2>1, SettingsAssumption DEF SettingsTypeOK
  <2>3. FileAlwaysLoads' /\ SavesValid' /\ Pending'
    BY <1>0, <2>1 DEF FileAlwaysLoads, Loadable, SavesValid, Pending, Valid
  <2>4. RateWithinLimits'
    <3>1. ASSUME Allows(config)
          PROVE  rate \in config.min..config.max /\ config.bitrate \in config.min..config.max
      BY <1>0, <2>1, <3>1, AllowedRates DEF RateWithinLimits, Allows
    <3> QED BY <2>1, <3>1 DEF RateWithinLimits, Allows
  <2> QED BY <2>2, <2>3, <2>4
<1>8. CASE EndSession
  <2>1. /\ host = "session" /\ host' = "idle" /\ save = "none" /\ abr' = 0 /\ healthy' = 0
        /\ UNCHANGED <<config, disk, save, then, workerSide, rate, edited, choiceFailed>>
    BY <1>8 DEF EndSession, AbrGone
  <2>2. SettingsTypeOK'
    BY <1>0, <2>1, SettingsAssumption DEF SettingsTypeOK
  <2>3. FileAlwaysLoads' /\ SavesValid' /\ Pending' /\ RateWithinLimits'
    BY <1>0, <2>1 DEF FileAlwaysLoads, Loadable, SavesValid, Pending, RateWithinLimits, Valid
  <2> QED BY <2>2, <2>3
<1>9. CASE Statistics
  <2>1. 0 \in 0..(HealthyRun - 1) /\ abr \in Nat
        /\ (healthy + 1 < HealthyRun => healthy + 1 \in 0..(HealthyRun - 1))
    BY <1>0, SettingsAssumption DEF SettingsTypeOK
  <2>2. CASE Congested
    BY <1>0, <2>1, <2>2, ControllerKeeps, UpdateKeeps DEF Congested
  <2>3. CASE Fair
    BY <1>0, <2>1, <2>3, UpdateKeeps DEF Fair
  <2>4. CASE Healthy
    BY <1>0, <2>1, <2>4, ControllerKeeps, UpdateKeeps DEF Healthy
  <2> QED BY <1>9, <2>2, <2>3, <2>4 DEF Statistics
<1>10. ASSUME NEW s \in Sides, ChoosePosition(s) PROVE SettingsInv'
  BY <1>0, <1>10, ChosenConfig, ChooseKeeps DEF ChoosePosition
<1>11. ASSUME NEW q \in Qualities, ChooseQuality(q) PROVE SettingsInv'
  BY <1>0, <1>11, ChosenConfig, ChooseKeeps DEF ChooseQuality
<1>12. CASE UNCHANGED settingsVars
  BY <1>0, <1>12 DEF settingsVars, abrVars, SettingsTypeOK, FileAlwaysLoads, Loadable, SavesValid,
                     Pending, RateWithinLimits, Valid
<1> QED
  BY <1>1, <1>2, <1>3, <1>4, <1>5, <1>6, <1>7, <1>8, <1>9, <1>10, <1>11, <1>12
  DEF SettingsNext, Saving

LEMMA SettingsInvariant == SettingsSafety => []SettingsInv
BY SettingsStart, SettingsStep, PTL DEF SettingsSafety
-----------------------------------------------------------------------------
(* The settings: theorems.                                                 *)

\* No crash, failure or edit leaves a file that keeps the next host from starting.
THEOREM FileLoads == SettingsSafety => []FileAlwaysLoads
<1>1. SettingsInv => FileAlwaysLoads
  BY DEF SettingsInv
<1> QED BY <1>1, SettingsInvariant, PTL

\* A choice of the tray that has not failed is in use and in the file.
THEOREM ChoicesApply == SettingsSafety => []ChoicesTakeEffect
<1>1. SettingsInv => ChoicesTakeEffect
  BY DEF SettingsInv, Pending, ChoicesTakeEffect
<1> QED BY <1>1, SettingsInvariant, PTL

\* The bitrate stays within the configured limits, whatever limits those are.
THEOREM RateKeepsLimits == SettingsSafety => []RateWithinLimits
<1>1. SettingsInv => RateWithinLimits
  BY DEF SettingsInv
<1> QED BY <1>1, SettingsInvariant, PTL
-----------------------------------------------------------------------------
(* The host's parts together.                                              *)

HIInv == SettingsInv /\ ControlIInv /\ ModesIInv

\* No two parts share state: a step of the host is one of a part, or none to it.
LEMMA PartsApart ==
  ASSUME [HostNext]_<<part, vars, settingsVars, controlVars, datagramVars, modesVars>>
  PROVE  [SettingsNext]_settingsVars /\ [ControlNext]_controlVars /\ [ModesNext]_modesVars
BY DEF HostNext

LEMMA HostStep ==
  HIInv /\ [HostNext]_<<part, vars, settingsVars, controlVars, datagramVars, modesVars>> => HIInv'
BY PartsApart, SettingsStep, ControlStep, ModesStep DEF HIInv

LEMMA HostStart == HostInit => HIInv
BY SettingsStart, ControlStart, ModesStart DEF HostInit, HIInv

\* Settings, control stream and modes keep to their types and bounds, and the monitor has
\* the modes of the worker's list.
THEOREM PartsInOrder == HostSpec => []HostInv
<1>1. HIInv => HostInv
  BY ControlIInvTyped, ModesIInvTyped DEF HIInv, HostInv, SettingsInv
<1> QED BY <1>1, HostStart, HostStep, PTL DEF HostSpec
=============================================================================
