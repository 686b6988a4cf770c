------------------------------ MODULE HostSettings ------------------------------
(***************************************************************************)
(* The host's settings: config.toml and the configuration in memory        *)
(* (config/mod.rs), the tray's choices as run() and session() carry them   *)
(* out (runtime.rs), and the adaptive bitrate (telemetry/mod.rs) with the  *)
(* rate it sets in the pipeline.                                           *)
(*                                                                         *)
(* A save is four steps on the file system, each of which can fail or be   *)
(* the last before a crash.  Bitrates are numbers of a small unit; frames  *)
(* per second, port and grace are valid or not like the bitrates, and are  *)
(* left out.                                                               *)
(***************************************************************************)
EXTENDS Naturals, FiniteSetsExt

CONSTANTS Sides,       \* positions of the display
          Fixed,       \* <<min, max, primary>>: what the tray cannot change, in the
                       \* configuration files there may be
          RateOf,      \* bitrate of each quality of the tray: auto, low, high
          DefaultSide, DefaultFixed,
          HealthyRun,  \* the 5 healthy samples before an increase
          NoFile, Partial

Qualities == {"auto", "low", "high"}

ASSUME SettingsAssumption ==
  /\ DefaultSide \in Sides /\ DefaultFixed \in Fixed
  /\ Fixed \in SUBSET (Nat \X Nat \X BOOLEAN) /\ RateOf \in [Qualities -> Nat]
  /\ DefaultFixed[1] <= RateOf["auto"] /\ RateOf["auto"] <= DefaultFixed[2]
  /\ HealthyRun \in Nat \ {0}

VARIABLES
  host,         \* "stopped", "idle" (run()), "session"
  config,       \* in memory
  disk,         \* config.toml
  save,         \* the step atomic_write() is at
  then,         \* what follows the save
  workerSide,   \* the position the worker was told last
  rate,         \* Pipeline.bitrate
  abr, healthy, \* AdaptiveBitrate of the session
  edited,       \* history: the user has edited the file since the host last read or
                \* wrote it
  choiceFailed  \* history: a choice of the tray failed since the host started

abrVars      == <<abr, healthy>>
settingsVars == <<host, config, disk, save, then, workerSide, rate, abrVars, edited,
                  choiceFailed>>

Rates  == {RateOf[q] : q \in Qualities}
Config == {c \in [side : Sides, adaptive : BOOLEAN, bitrate : Rates,
                  min : {x[1] : x \in Fixed}, max : {x[2] : x \in Fixed},
                  primary : BOOLEAN] :
             <<c.min, c.max, c.primary>> \in Fixed}

\* validate()
Valid(c) == c.min <= c.bitrate /\ c.bitrate <= c.max
Loadable(file) == file \in Config /\ Valid(file)

SettingsTypeOK ==
  /\ host \in {"stopped", "idle", "session"}
  /\ config \in Config /\ disk \in Config \cup {NoFile, Partial}
  /\ save \in {"none", "create", "write", "move"}
  /\ then \in {"nothing", "placement", "rate"}
  /\ workerSide \in Sides /\ rate \in Nat
  /\ abr \in Nat /\ healthy \in 0..(HealthyRun - 1)
  /\ edited \in BOOLEAN /\ choiceFailed \in BOOLEAN

\* Config::default(), where there is no file.
Default == [side |-> DefaultSide, adaptive |-> TRUE, bitrate |-> RateOf["auto"],
            min |-> DefaultFixed[1], max |-> DefaultFixed[2],
            primary |-> DefaultFixed[3]]

SettingsInit ==
  /\ host = "stopped" /\ config = Default
  /\ disk \in {NoFile} \cup {c \in Config : Valid(c)}
  /\ save = "none" /\ then = "nothing"
  /\ workerSide = config.side /\ rate = config.bitrate
  /\ abr = 0 /\ healthy = 0 /\ edited = FALSE /\ choiceFailed = FALSE
-----------------------------------------------------------------------------
(* Start, end and the user's editor.                                       *)

Running == host # "stopped" /\ save = "none"

\* load(), and a first save where there was no file; the pipeline gets copies.
HostStarts ==
  /\ host = "stopped" /\ host' = "idle"
  /\ IF disk = NoFile
     THEN config' = Default /\ save' = "create"
     ELSE Loadable(disk) /\ config' = disk /\ UNCHANGED save
  /\ then' = "nothing"
  /\ workerSide' = config'.side /\ rate' = config'.bitrate
  /\ edited' = FALSE /\ choiceFailed' = FALSE
  /\ UNCHANGED <<disk, abrVars>>

\* The controller is a local variable of session().
AbrGone == abr' = 0 /\ healthy' = 0

\* Exit, or a crash in the middle of anything.
HostEnds ==
  /\ host # "stopped" /\ host' = "stopped" /\ save' = "none" /\ AbrGone
  /\ UNCHANGED <<config, disk, then, workerSide, rate, edited, choiceFailed>>

\* The tray opens the file in an editor; what the user saves is a valid file.  Of
\* several edits with no reading or writing of the host's between them, only the last
\* one matters; it stands for all.
Edit ==
  /\ ~edited /\ edited' = TRUE
  /\ disk' \in {c \in Config : Valid(c)}
  /\ UNCHANGED <<host, config, save, then, workerSide, rate, abrVars, choiceFailed>>
-----------------------------------------------------------------------------
(* A choice in the tray changes the configuration in memory and saves it.  *)

\* Any error in it ends the session, or the host.
Fails ==
  /\ host' = IF host = "session" THEN "idle" ELSE "stopped"
  /\ save' = "none" /\ choiceFailed' = TRUE /\ AbrGone

Choose(c, next) ==
  /\ Running /\ config' = c
  /\ IF Valid(c)
     THEN save' = "create" /\ then' = next /\ UNCHANGED <<host, abrVars, choiceFailed>>
     ELSE Fails /\ UNCHANGED then
  /\ UNCHANGED <<disk, workerSide, rate, edited>>

ChoosePosition(s) == Choose([config EXCEPT !.side = s], "placement")
ChooseQuality(q) ==
  Choose([config EXCEPT !.adaptive = (q = "auto"), !.bitrate = RateOf[q]], "rate")

\* Mutant: the data goes into the file itself.
CreateFileInPlace ==
  /\ save = "create" /\ save' = "write" /\ disk' = Partial
  /\ UNCHANGED <<host, config, then, workerSide, rate, abrVars, edited, choiceFailed>>

\* atomic_write(): the data goes to config.new, beside the real file; what an earlier
\* save may have left of it is truncated.
CreateFile ==
  /\ save = "create" /\ save' = "write"
  /\ UNCHANGED <<host, config, disk, then, workerSide, rate, abrVars, edited, choiceFailed>>

\* write_all() and sync_all().
WriteFile ==
  /\ save = "write" /\ save' = "move"
  /\ UNCHANGED <<host, config, disk, then, workerSide, rate, abrVars, edited, choiceFailed>>

\* Mutant: only the configuration has the new rate.
AppliedToConfig ==
  /\ workerSide' = IF then = "placement" THEN config.side ELSE workerSide
  /\ UNCHANGED rate

\* What the choice was for.
Applied ==
  /\ workerSide' = IF then = "placement" THEN config.side ELSE workerSide
  /\ rate' = IF then = "rate" THEN config.bitrate ELSE rate

\* MoveFileEx() replaces the file, and the worker is told.
MoveFile ==
  /\ save = "move" /\ save' = "none"
  /\ disk' = config /\ edited' = FALSE
  /\ Applied
  /\ UNCHANGED <<host, config, then, abrVars, choiceFailed>>

\* A step of the save fails, or the command queue is full after it.
SaveFails ==
  /\ save # "none" /\ Fails
  /\ \/ save = "move" /\ disk' = config /\ edited' = FALSE
     \/ UNCHANGED <<disk, edited>>
  /\ UNCHANGED <<config, then, workerSide, rate>>
-----------------------------------------------------------------------------
(* A session and its adaptive bitrate.                                     *)

BeginSession ==
  /\ host = "idle" /\ save = "none" /\ host' = "session"
  /\ abr' = config.bitrate /\ healthy' = 0
  /\ UNCHANGED <<config, disk, save, then, workerSide, rate, edited, choiceFailed>>

EndSession ==
  /\ host = "session" /\ save = "none" /\ host' = "idle" /\ AbrGone
  /\ UNCHANGED <<config, disk, save, then, workerSide, rate, edited, choiceFailed>>

\* Mutant: the increase has no limit.
IncreasedFreely(r) == r + r \div 20
Increased(r) == Min({r + r \div 20, config.max})
Decreased(r) == Max({(r * 3) \div 4, config.min})

\* update(): a second has passed since the last sample that counted.
Update(next, run) ==
  /\ host = "session" /\ save = "none" /\ config.adaptive
  /\ abr' = next /\ healthy' = run
  /\ rate' = IF next # abr THEN next ELSE rate
  /\ UNCHANGED <<host, config, disk, save, then, workerSide, edited, choiceFailed>>

Congested == Update(Decreased(abr), 0)
Fair      == Update(abr, 0)
Healthy ==
  IF healthy + 1 < HealthyRun THEN Update(abr, healthy + 1) ELSE Update(Increased(abr), 0)
-----------------------------------------------------------------------------
Saving == CreateFile \/ WriteFile \/ MoveFile \/ SaveFails
Statistics == Congested \/ Fair \/ Healthy

SettingsNext ==
  \/ HostStarts \/ HostEnds \/ Edit \/ Saving \/ BeginSession \/ EndSession \/ Statistics
  \/ \E s \in Sides : ChoosePosition(s)
  \/ \E q \in Qualities : ChooseQuality(q)

SettingsSafety == SettingsInit /\ [][SettingsNext]_settingsVars
-----------------------------------------------------------------------------
(* Properties.                                                             *)

\* Whenever the host is stopped, however it was, the next one finds no file or a
\* complete and valid one.
FileAlwaysLoads == disk = NoFile \/ Loadable(disk)

\* "tray changes apply and persist immediately": between two of them, unless one has
\* failed, the worker has been told the side in memory, a fixed quality is the rate in
\* use, and the file holds what is in memory, or what the user has made of it since.
\* Where the display then stands is TopologyReconcile's.
ChoicesTakeEffect ==
  (host # "stopped" /\ save = "none" /\ ~choiceFailed) =>
    /\ workerSide = config.side
    /\ ~config.adaptive => rate = config.bitrate
    /\ edited \/ disk = config

\* What a choice is about.
About(next) == IF next = "placement" THEN {"side"} ELSE {"adaptive", "bitrate"}

\* "Editing the Host configuration file takes effect after Host restart": a choice in
\* the tray leaves of an edited file what it is not about.
EditSurvives ==
  [][(edited /\ save = "move" /\ then # "nothing" /\ ~edited')
       => \A f \in DOMAIN disk \ About(then) : disk'[f] = disk[f]]_settingsVars

\* "clamps to configured limits": with a file whose limits allow what the tray offers,
\* neither the controller nor the rate in use leaves them, over any sequence of
\* samples, choices, sessions and failures.
RateWithinLimits ==
  ((host # "stopped") /\ \A q \in Qualities : config.min <= RateOf[q] /\ RateOf[q] <= config.max)
    => /\ rate \in config.min..config.max
       /\ host = "session" => abr \in config.min..config.max
=============================================================================
