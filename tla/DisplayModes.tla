------------------------------ MODULE DisplayModes ------------------------------
(***************************************************************************)
(* Which modes the virtual display has: from the iPad's screen             *)
(* (Capabilities.swift) to a list (display/mod.rs), through the worker     *)
(* (runtime.rs) and START to the driver, which checks the list again and   *)
(* tells Windows of it twice: as an EDID, which Parse() reads back, and    *)
(* from memory (Driver.cpp).  Windows offers what both have in common.     *)
(*                                                                         *)
(* Sizes are pixels; a connection is one step here, SessionLifecycle has   *)
(* the steps of it.                                                        *)
(***************************************************************************)
EXTENDS Integers, Sequences, SequencesExt

CONSTANTS Ipads,       \* [id: 4 bytes, long, short: edges of the screen, fps]
          FrameRates,  \* frames per second of configurations and of DisplayModeChange
          FallSets     \* what floating point may do: see falls

\* No iPad's screen is four times as long as wide.  modes() does not ask: of one that is,
\* it would offer a size that is less than 320 wide, and the driver would refuse the list.
ASSUME ModesAssumption ==
  /\ Ipads \subseteq [id : [1..4 -> 0..255], long : Nat, short : Nat, fps : Nat]
  /\ \A p \in Ipads : p.short <= p.long /\ p.long < 4 * p.short
  /\ FrameRates \subseteq 30..60

VARIABLES
  fps,        \* config.video.fps
  falls,      \* <<n, edge, long>> whose exact result n * edge / long is missed from below
  lease,      \* "idle", "streaming", "grace"
  ipad,       \* whose display it is, and the list as derived for its screen
  width, height,
  previous,   \* previous_modes
  request,    \* the last mode_request
  modes, edid,  \* Device::modes and Device::edid of a monitor that has arrived
  rejected    \* history: the driver has refused a list that modes() had derived

screenVars  == <<ipad, width, height>>
driverModes == <<modes, edid>>
modesVars   == <<fps, falls, lease, screenVars, previous, request, driverModes, rejected>>

NoIpad  == [id |-> <<0, 0, 0, 0>>, long |-> 0, short |-> 0, fps |-> 0]
Mode(w, h, f) == [width |-> w, height |-> h, fps |-> f]
NoMode  == Mode(0, 0, 0)

IsMode(m) == m.width \in 320..4094 /\ m.height \in 320..4094 /\ m.fps \in 30..60

ModesTypeOK ==
  /\ fps \in FrameRates /\ falls \in FallSets /\ lease \in {"idle", "streaming", "grace"}
  /\ ipad \in Ipads \cup {NoIpad} /\ {width, height} \subseteq 0..4094
  /\ \A list \in {previous, modes} : Len(list) <= 4 /\ \A m \in ToSet(list) : IsMode(m)
  /\ request = NoMode \/ IsMode(request)
  /\ \A i \in DOMAIN edid : edid[i] \in 0..255
  /\ rejected \in BOOLEAN

ModesInit ==
  /\ fps \in FrameRates /\ falls \in FallSets
  /\ lease = "idle" /\ ipad = NoIpad /\ width = 0 /\ height = 0
  /\ previous = <<>> /\ request = NoMode /\ modes = <<>> /\ edid = <<>> /\ rejected = FALSE
-----------------------------------------------------------------------------
(* modes() and preferred().                                                *)

Least(a, b) == IF a <= b THEN a ELSE b
Most(a, b)  == IF a >= b THEN a ELSE b
Distance(a, b) == IF a >= b THEN a - b ELSE b - a
Even(n) == n - (n % 2)

\* n * (edge / long), cut to an integer.
Scaled(n, edge, long) ==
  LET exact == (n * edge) \div long IN
  IF edge >= long THEN n
  ELSE IF <<n, edge, long>> \in falls /\ (n * edge) % long = 0 THEN exact - 1 ELSE exact

Shrunk(w, h, edge) ==
  <<Even(Scaled(w, edge, Most(w, h))), Even(Scaled(h, edge, Most(w, h)))>>
FullHd(w, h) == IF w >= h THEN <<1920, 1080>> ELSE <<1080, 1920>>
FullHdFits(w, h) == FullHd(w, h)[1] <= w /\ FullHd(w, h)[2] <= h
AddSize(list, s) == IF s \in ToSet(list) THEN list ELSE Append(list, s)

Sizes(w, h) ==
  LET aspect == AddSize(AddSize(<<Shrunk(w, h, 1280)>>, Shrunk(w, h, 1920)),
                        Shrunk(w, h, Most(w, h)))
  IN IF FullHdFits(w, h) THEN AddSize(aspect, FullHd(w, h)) ELSE aspect

\* The pixel clock with the blanking the driver adds.
Clock(m) == (m.width + 160) * (m.height + 30) * m.fps
MaxClock == 655350000

Derived(w, h, f) ==
  LET sizes == Sizes(w, h) IN [i \in DOMAIN sizes |-> Mode(sizes[i][1], sizes[i][2], f)]

Pixels(m) == m.width * m.height
Preferred(list) ==
  CHOOSE i \in DOMAIN list :
    \A j \in DOMAIN list :
      LET off(k) == Distance(Pixels(list[k]), 1920 * 1080) IN
      off(i) < off(j) \/ (off(i) = off(j) /\ i <= j)

\* session() moves the preferred mode to the front and keeps the order of the others.
PreferredFirst(list) ==
  LET p == Preferred(list) IN <<list[p]>> \o RemoveAt(list, p)

\* What modes() refuses; the session ends.
\* Mutant: the clock is not checked.
DerivableUnclocked(w, h, list) == w \in 320..4094 /\ h \in 320..4094
Derivable(w, h, list) ==
  /\ w \in 320..4094 /\ h \in 320..4094
  /\ \A i \in DOMAIN list : Clock(list[i]) <= MaxClock
-----------------------------------------------------------------------------
(* The driver.                                                             *)

\* arrive()
AcceptableModes(list) ==
  /\ Len(list) \in 1..4
  /\ \A i \in DOMAIN list :
       /\ list[i].width \in 320..4094 /\ list[i].height \in 320..4094
       /\ list[i].width % 2 = 0 /\ list[i].height % 2 = 0
       /\ list[i].fps \in 30..60 /\ Clock(list[i]) <= MaxClock

Byte(n) == n % 256
Repeated(n, count) == [i \in 1..count |-> n]
Total(bytes) ==
  LET sum[i \in 0..Len(bytes)] == IF i = 0 THEN 0 ELSE sum[i - 1] + bytes[i]
  IN sum[Len(bytes)]

\* A detailed timing descriptor: clock in units of 10 kHz, sizes of twelve bits.
Descriptor(m) ==
  LET clock == Clock(m) \div 10000 IN
  <<Byte(clock), Byte(clock \div 256),
    Byte(m.width), 160, Byte((m.width \div 256) * 16),
    Byte(m.height), 30, Byte((m.height \div 256) * 16),
    48, 32, 53>> \o Repeated(0, 6) \o <<30>>

\* makeEdid()
Edid(list, id) ==
  LET block(i) == IF i \in DOMAIN list THEN Descriptor(list[i]) ELSE Repeated(0, 18)
      body == <<0, 255, 255, 255, 255, 255, 255, 0, 76, 131, 1, 0>> \o id
              \o <<1, 36, 1, 4, 128, 28, 21, 120, 6>> \o Repeated(0, 13) \o Repeated(1, 16)
              \o block(1) \o block(2) \o block(3) \o block(4) \o <<0>>
  IN Append(body, Byte(256 - Byte(Total(body))))

\* Parse(): sizes as packed, frames per second to the nearest.
\* Mutant: cut off.
RateCut(clock, total) == (clock * 10000) \div total
RateRounded(clock, total) == (2 * clock * 10000 + total) \div (2 * total)
ParsedMode(d) ==
  LET w == d[3] + (d[5] \div 16) * 256
      h == d[6] + (d[8] \div 16) * 256
      total == (w + d[4] + (d[5] % 16) * 256) * (h + d[7] + (d[8] % 16) * 256)
  IN Mode(w, h, RateRounded(d[1] + 256 * d[2], total))
AddParsed(list, d) == IF d[1] + 256 * d[2] = 0 THEN list ELSE Append(list, ParsedMode(d))
Parsed(bytes) ==
  LET at(i) == SubSeq(bytes, 55 + 18 * i, 72 + 18 * i)
  IN AddParsed(AddParsed(AddParsed(AddParsed(<<>>, at(0)), at(1)), at(2)), at(3))

Depart == modes' = <<>> /\ edid' = <<>>
Arrive(list, id) == modes' = list /\ edid' = Edid(list, id)
-----------------------------------------------------------------------------
(* The worker.                                                             *)

\* An iPad connects, held either way: while its display is kept it stays if the list
\* is the same.
Replaced(list) == lease = "idle" \/ list # previous

Refresh(p) == Least(fps, Least(p.fps, 60))

Connect(p, landscape) ==
  LET w == IF landscape THEN p.long ELSE p.short
      h == IF landscape THEN p.short ELSE p.long
      derived == Derived(w, h, Refresh(p))
      list    == PreferredFirst(derived)
  IN
  /\ lease = "idle" \/ (lease = "grace" /\ ipad = p)
  /\ p.fps >= 30 /\ Derivable(w, h, derived)
  /\ \/ /\ Replaced(list) /\ AcceptableModes(list)
        /\ Arrive(list, p.id) /\ request' = list[1] /\ lease' = "streaming"
        /\ previous' = list /\ ipad' = p /\ width' = w /\ height' = h
        /\ UNCHANGED rejected
     \/ /\ Replaced(list) /\ ~AcceptableModes(list)
        /\ rejected' = TRUE /\ Depart /\ lease' = "idle"
        /\ UNCHANGED <<screenVars, previous, request>>
     \/ /\ ~Replaced(list)
        /\ lease' = "streaming" /\ previous' = list /\ request' = NoMode
        /\ width' = w /\ height' = h
        /\ UNCHANGED <<driverModes, ipad, rejected>>
  /\ UNCHANGED <<fps, falls>>

\* DisplayModeChange: a size that was offered, at a rate that may be another one.  The
\* rate changes for all sizes, and the monitor is replaced; the driver may refuse.
Change(i, f) ==
  LET list == [j \in DOMAIN previous |-> [previous[j] EXCEPT !.fps = f]] IN
  /\ lease = "streaming" /\ i \in DOMAIN previous
  /\ \/ /\ f = previous[i].fps /\ request' = previous[i]
        /\ UNCHANGED <<lease, previous, driverModes>>
     \/ /\ f # previous[i].fps /\ AcceptableModes(list)
        /\ Arrive(list, ipad.id) /\ previous' = list /\ request' = list[i]
        /\ UNCHANGED lease
     \/ /\ f # previous[i].fps /\ ~AcceptableModes(list)
        /\ Depart /\ lease' = "idle" /\ previous' = list /\ UNCHANGED request
  /\ UNCHANGED <<fps, falls, screenVars, rejected>>

Disconnect ==
  /\ lease = "streaming" /\ lease' = "grace"
  /\ UNCHANGED <<fps, falls, screenVars, previous, request, driverModes, rejected>>

\* The grace is over, or the user ends the session.
Stop ==
  /\ lease # "idle" /\ lease' = "idle" /\ Depart
  /\ UNCHANGED <<fps, falls, screenVars, previous, request, rejected>>

ModesNext ==
  \/ \E p \in Ipads, landscape \in BOOLEAN : Connect(p, landscape)
  \/ \E i \in 1..4, f \in FrameRates : Change(i, f)
  \/ Disconnect \/ Stop

ModesSpec == ModesInit /\ [][ModesNext]_modesVars
-----------------------------------------------------------------------------
(* Properties.                                                             *)

\* Windows uses the modes that the EDID and the driver's memory have in common: all of
\* them survive packing, rounding and the descriptors left empty, and the EDID
\* adds up to zero.
EdidTellsModes ==
  modes # <<>> => /\ Parsed(edid) = modes
                  /\ Len(edid) = 128 /\ Byte(Total(edid)) = 0

\* The host's list is the monitor's, so the size that reconcile() asks for is one there
\* is: over rotations within the grace, reconnects and changes of rate.
MonitorHasModes ==
  lease # "idle" => modes = previous /\ request \in ToSet(modes) \cup {NoMode}

\* The lists, what is asked for and the bytes are in range, and of one mind.
ModesInv == ModesTypeOK /\ MonitorHasModes

\* "several even-sized display modes, including aspect-preserving modes and a fitting
\* 1920x1080 or 1080x1920 option", and the first is the nearest to 1080p: none exceeds
\* the screen, and those of its shape differ from it by the rounding only.
Size(m) == <<m.width, m.height>>
FitsScreen(list, w, h) ==
  /\ \A m \in ToSet(list) :
       /\ m.width <= w /\ m.height <= h /\ m.width % 2 = 0 /\ m.height % 2 = 0
       /\ Size(m) # FullHd(w, h) => Distance(m.width * h, m.height * w) <= 2 * Most(w, h)
       /\ Distance(Pixels(list[1]), 1920 * 1080) <= Distance(Pixels(m), 1920 * 1080)
  /\ FullHdFits(w, h) => \E m \in ToSet(list) : Size(m) = FullHd(w, h)
ModesFitScreen == lease # "idle" => FitsScreen(modes, width, height)

\* Host and driver check the same list by rules of their own: one that modes() has let
\* pass is never refused by arrive(), whatever the screen and however it was rounded;
\* and it fits the screen.
OffersFit == ~rejected /\ ModesFitScreen
=============================================================================
