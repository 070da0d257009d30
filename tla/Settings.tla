------------------------------ MODULE Settings ------------------------------
(***************************************************************************)
(* What the displays were last told, kept in display.json (state.rs), and  *)
(* everything that reads it, changes it and writes it back: the commands   *)
(* show, display set, metrics set, metrics push, fans, upload --show and   *)
(* replace, the interface's worker, and the daemon's restore.              *)
(*                                                                         *)
(* Each of them is a job: a list of steps that ends with a save.  A job    *)
(* may be refused, fail at any request, be unable to save, or die.  A      *)
(* setting is one of the fields of Settings; look stands for everything    *)
(* of the screen that is not its content (labels, layout, filter).         *)
(***************************************************************************)
EXTENDS Selection, Sequences, Naturals

CONSTANTS
    Actors,     \* processes that may run jobs at the same time
    Kinds,      \* the jobs they run
    Media,      \* names of files on the displays
    Looks, Levels, Degrees, Speeds, \* values of the settings
    Labelled,   \* the looks that have labels, which KANALI calls an overlay
    DefaultBrightness,
    Buses,      \* what may be plugged in
    Aims,       \* the options of a command
    NoFile, Torn,   \* a file that is not there, one that cannot be read
    MaxJobs     \* bound: how many jobs run in a behaviour

ASSUME SettingsAssumption ==
    /\ DefaultBrightness \in Levels
    /\ MaxJobs \in Nat
ASSUME ActorsAssumption == Actors # {}

Preset == "preset"      \* the built-in animations
Plain == "plain"        \* ScreenConfig::default()
ASSUME LooksAssumption ==
    /\ Plain \in Looks /\ Preset \notin Media
    /\ Labelled \subseteq Looks \ {Plain}

\* DisplayState
State ==
    [media : Media \cup {None}, preset : BOOLEAN, look : Looks,
        brightness : Levels \cup {None}, rotation : Degrees \cup {None},
        fan : Speeds \cup {None}]

Default ==
    [media |-> None, preset |-> FALSE, look |-> Plain, brightness |-> None,
        rotation |-> None, fan |-> None]

\* No file is a state; a command names a display one way or the other (main.rs:
\* --device conflicts with --tty).
ASSUME FilesAssumption == NoFile # Torn /\ NoFile \notin State /\ Torn \notin State
ASSUME AimsAssumption ==
    /\ Aims \subseteq [tty : Places \cup {None}, device : Places \cup {None}, direct : BOOLEAN]
    /\ \A aim \in Aims : aim.tty = None \/ aim.device = None
ASSUME BusesAssumption ==
    \A b \in Buses : \E plugged \in SUBSET Places : b \in [plugged -> Displays]

\* What a display shows; None is what it shows out of the box, and the look of
\* one that has lost its labels.
Shown ==
    [plays : Media \cup {Preset, None}, look : Looks \cup {None},
        brightness : Levels \cup {None}, rotation : Degrees \cup {None},
        fan : Speeds \cup {None}]

Factory ==
    [plays |-> None, look |-> None, brightness |-> None, rotation |-> None,
        fan |-> None]

Fields == DOMAIN Factory

\* What a state says the display should show; None is no claim.
Wanted(s) ==
    [plays |-> IF s.preset THEN Preset ELSE s.media, look |-> s.look,
        brightness |-> s.brightness, rotation |-> s.rotation, fan |-> s.fan]

VARIABLES
    bus,        \* what is plugged in
    daemon,     \* the protocol and place of the daemon's display, or Refused
    file,       \* display.json
    temp,       \* display.json.tmp
    fd,         \* per actor: the name its open file now has
    display,    \* per place: what the display there shows
    ui,         \* the screen the interface keeps, or None
    job,        \* per actor: what it is doing
    left,       \* jobs still to come
    unsure      \* history, per place: settings that were not applied and
                \* saved since the display, or a request for another
                \* setting, last lost them

vars == <<bus, daemon, file, temp, fd, display, ui, job, left, unsure>>

NoJob == [kind |-> "none", todo |-> << >>]

\* state::load: an absent or unreadable file is the default.
load(f) == IF f \in {NoFile, Torn} THEN Default ELSE f

-----------------------------------------------------------------------------
(* The jobs.                                                               *)

SaveSteps == <<"open", "write", "rename">>
DaemonSteps == <<"daemon open", "daemon write", "daemon rename">>
DaemonStep == {"daemon open", "daemon write", "daemon rename"}

Script(kind) ==
    (CASE kind \in {"show", "preset", "look", "metrics", "upload", "replace",
                    "ui show", "ui overlay", "push"} -> <<"load", "connect", "apply">>
       [] kind = "brightness" -> <<"load", "connect", "brightness">>
       [] kind = "rotate" -> <<"load", "connect", "rotate">>
       [] kind = "several" -> <<"load", "connect", "brightness", "apply", "rotate">>
       [] kind = "fan" -> <<"connect", "fan", "load">>
       [] kind = "ui brightness" -> <<"connect", "brightness", "load">>
       [] kind = "ui layout" -> <<"load", "connect", "apply", "rotate">>
       [] kind = "restore" -> <<"load", "connect", "apply", "fan">>)
    \o SaveSteps

UiKinds == {"ui show", "ui brightness", "ui overlay", "ui layout"}
JobKinds ==
    UiKinds \cup {"show", "preset", "look", "metrics", "upload", "replace", "push",
                 "brightness", "rotate", "several", "fan", "restore"}
ASSUME KindsAssumption == Kinds \subseteq JobKinds

\* What the user asks for: a value for each setting the job is about.
Asks(kind) ==
    CASE kind \in {"show", "upload", "replace", "ui show"} -> [media : Media]
      [] kind \in {"look", "metrics"} -> [look : Looks]
      [] kind \in {"brightness", "ui brightness"} -> [brightness : Levels]
      [] kind = "rotate" -> [rotation : Degrees]
      [] kind = "several" ->
            [brightness : Levels, look : Looks, rotation : Degrees]
      [] kind = "fan" -> [fan : Speeds \cup {None}]
      [] kind = "ui layout" -> [rotation : Degrees]
      [] OTHER -> [none : {None}]

\* The settings a job is about.  The interface's Overlay and Display tabs are
\* about the look, and the second about the rotation too.
About(kind) ==
    CASE kind \in {"show", "upload", "ui show"} -> {"media", "preset"}
      [] kind = "preset" -> {"preset"}
      [] kind \in {"look", "metrics", "ui overlay"} -> {"look"}
      [] kind \in {"brightness", "ui brightness"} -> {"brightness"}
      [] kind = "rotate" -> {"rotation"}
      [] kind = "several" -> {"brightness", "look", "rotation"}
      [] kind = "ui layout" -> {"look", "rotation"}
      [] kind = "fan" -> {"fan"}
      [] OTHER -> {}

\* Mutant: show starts from the default screen.
Afresh(j, s) ==
    IF j.kind = "show"
    THEN [Default EXCEPT !.media = j.asks.media, !.brightness = s.brightness]
    ELSE s

\* The loaded state with the change that a job makes before it sends anything:
\* a shown file leaves the preset, an uploaded one does not, and the interface
\* puts its own copy of the whole screen in.
Edited(j, s) ==
    CASE j.kind \in {"show", "ui show"} ->
            [s EXCEPT !.preset = FALSE, !.media = j.asks.media]
      [] j.kind = "preset" -> [s EXCEPT !.preset = TRUE]
      [] j.kind = "upload" -> [s EXCEPT !.media = j.asks.media]
      [] j.kind \in {"look", "metrics", "several"} -> [s EXCEPT !.look = j.asks.look]
      [] j.kind \in {"ui overlay", "ui layout"} ->
            [s EXCEPT !.media = j.screen.media, !.preset = j.screen.preset,
                      !.look = j.screen.look]
      [] j.kind = "fan" -> [s EXCEPT !.fan = j.asks.fan]
      [] j.kind = "ui brightness" -> [s EXCEPT !.brightness = j.asks.brightness]
      [] OTHER -> s

\* What a command checks once it is connected.  (push to a KANALI display
\* applies what is saved and saves nothing: left out.)
Accepts(j, to) ==
    /\ to.protocol # "refused"
    /\ j.kind \in {"look", "several"} => j.saved.media # None
    /\ j.kind = "metrics" /\ to.protocol = "legacy" =>
            j.saved.media # None \/ j.saved.preset
    /\ j.kind \in {"fan", "push"} => to.protocol = "legacy"

\* Whether a job that may have nothing to send applies the screen.
Applies(j) ==
    CASE j.kind = "replace" -> j.saved.media = j.asks.media
      [] j.kind = "push" -> j.saved.media # None
      [] j.kind = "restore" ->
            \/ j.saved.media # None \/ j.saved.preset
            \/ (j.to.protocol = "kanali" /\ j.saved.look \in Labelled)
      [] OTHER -> TRUE

-----------------------------------------------------------------------------
(* What the requests do to a display.                                      *)

\* The firmware takes a configuration: always, or if the product can.
Configures(to) ==
    to.protocol = "legacy" \/ "configuration" \in Capable(from_product_id(bus[to.at].pid))

\* The fields apply sends: legacy::apply_screen sends the whole screen and a
\* brightness in any case, kanali::change_from what is set.
Sends(to, s) ==
    LET w == Wanted(s)
        set == {f \in {"plays", "brightness", "rotation"} : w[f] # None}
    IN  {"look"} \cup set \cup (IF to.protocol = "legacy" THEN {"plays", "brightness"} ELSE {})

\* Mutant: the screen is sent with the default brightness.
Unlit(to, s) ==
    IF to.protocol = "legacy"
    THEN [Wanted(s) EXCEPT !.brightness = DefaultBrightness] ELSE Wanted(s)

\* The values it sends.
Sent(to, s) ==
    IF to.protocol = "legacy" /\ s.brightness = None
    THEN [Wanted(s) EXCEPT !.brightness = DefaultBrightness]
    ELSE Wanted(s)

Put(shown, fields, values) ==
    [f \in Fields |-> IF f \in fields THEN values[f] ELSE shown[f]]

\* apply_screen is several requests: the screen twice, the configuration, the
\* rotation.  One that fails leaves what the ones before it did; the KANALI
\* firmware takes one configuration, then the overlay, and the readback may
\* still fail.
Partial(to, s) ==
    IF to.protocol = "legacy"
    THEN {{}, {"plays", "look"}, {"plays", "look", "brightness"}}
    ELSE {{}, Sends(to, s) \ {"look"}, Sends(to, s)}

\* The look of a display whose overlay was emptied.
Bare(look) == IF look \in Labelled THEN None ELSE look

-----------------------------------------------------------------------------
Idle(a) == job[a].kind = "none"
Step(a) == IF Idle(a) THEN "none" ELSE Head(job[a].todo)
Rest(a) == Tail(job[a].todo)

\* Steps of the daemon's save that are left; they come first.
DaemonLeft(a) ==
    CASE Step(a) = "daemon open" -> 3
      [] Step(a) = "daemon write" -> 2
      [] Step(a) = "daemon rename" -> 1
      [] OTHER -> 0

\* The daemon does one thing at a time.
DaemonBusy(a) ==
    \E b \in Actors \ {a} : job[b].kind = "restore" \/ Step(b) \in DaemonStep

Init ==
    /\ bus \in Buses
    /\ daemon = Refused
    /\ file = NoFile /\ temp = NoFile
    /\ fd = [a \in Actors |-> "none"]
    /\ display = [d \in Plugged(bus) |-> Factory]
    /\ ui = None
    /\ job = [a \in Actors |-> NoJob]
    /\ left = MaxJobs
    /\ unsure = [d \in Plugged(bus) |-> Fields]

NewJob(kind, aim, asks, screen) ==
    [kind |-> kind, aim |-> aim, asks |-> asks, screen |-> screen,
        saved |-> Default, to |-> Refused, via |-> "direct", sent |-> {},
        todo |-> Script(kind)]

Begin(a, j) ==
    /\ Idle(a) /\ left > 0
    /\ left' = left - 1
    /\ job' = [job EXCEPT ![a] = j]

\* A command starts.  push refuses to run beside a daemon.
Command(a, kind, aim, asks) ==
    /\ kind \in Kinds \ (UiKinds \cup {"restore"})
    /\ kind = "push" => aim.direct \/ daemon = Refused
    /\ Begin(a, NewJob(kind, aim, asks, None))
    /\ UNCHANGED <<bus, daemon, file, temp, fd, display, ui, unsure>>

\* The daemon looks for the display and restores it: when it starts, when the
\* display is back, when the host was asleep.
Restore(a, aim) ==
    /\ "restore" \in Kinds
    /\ ~DaemonBusy(a)
    /\ LET to == select_backend(bus, aim)
       IN  /\ to # Refused
           /\ daemon' = to
           /\ Begin(a, [NewJob("restore", aim, [none |-> None], None) EXCEPT !.to = to])
    /\ UNCHANGED <<bus, file, temp, fd, display, ui, unsure>>

NoAim == [tty |-> None, device |-> None, direct |-> FALSE]

\* App::new: the interface copies the saved screen, once.
OpenInterface ==
    /\ Kinds \cap UiKinds # {}
    /\ ui = None
    /\ ui' = [media |-> load(file).media, preset |-> load(file).preset,
                look |-> load(file).look]
    /\ UNCHANGED <<bus, daemon, file, temp, fd, display, job, left, unsure>>

\* A key on the Overlay or the Display tab changes the copy.
EditInterface(look) ==
    /\ ui # None /\ look # ui.look
    /\ ui' = [ui EXCEPT !.look = look]
    /\ UNCHANGED <<bus, daemon, file, temp, fd, display, job, left, unsure>>

\* Enter: the worker gets a copy of the copy.  Showing a file changes the copy
\* too; the other tabs want something to be shown.
Interface(a, kind, asks) ==
    /\ kind \in Kinds \cap UiKinds
    /\ ui # None
    /\ \A b \in Actors : job[b].kind \notin UiKinds
    /\ kind \in {"ui overlay", "ui layout"} => ui.media # None \/ ui.preset
    /\ ui' = IF kind = "ui show"
             THEN [ui EXCEPT !.media = asks.media, !.preset = FALSE] ELSE ui
    /\ Begin(a, NewJob(kind, NoAim, asks, ui'))
    /\ UNCHANGED <<bus, daemon, file, temp, fd, display, unsure>>

-----------------------------------------------------------------------------
(* The steps of a job.                                                     *)

\* The job is over.  What it sent is known to be applied and saved, or not.
Over(a, saved) ==
    /\ job' = [job EXCEPT ![a] = NoJob]
    /\ fd' = [fd EXCEPT ![a] = "none"]
    /\ LET at == job[a].to.at
       IN  unsure' = IF at \notin Plugged(bus) THEN unsure
                     ELSE [unsure EXCEPT ![at] =
                            IF saved THEN @ \ job[a].sent ELSE @ \cup job[a].sent]

\* The job goes on with what is left of it, or is over.
GoOn(a, todo) ==
    IF todo = << >> THEN Over(a, FALSE)
    ELSE job' = [job EXCEPT ![a].todo = todo] /\ UNCHANGED <<fd, unsure>>

Load(a) ==
    /\ Step(a) = "load"
    /\ job' = [job EXCEPT ![a].saved = Edited(job[a], load(file)), ![a].todo = Rest(a)]
    /\ UNCHANGED <<bus, daemon, file, temp, fd, display, ui, left, unsure>>

Connect(a) ==
    /\ Step(a) = "connect"
    /\ LET j == job[a]
           link == IF j.kind = "restore" THEN [via |-> "direct", to |-> j.to]
                   ELSE IF j.kind = "push"
                   THEN [via |-> "direct", to |-> select_backend(bus, j.aim)]
                   ELSE connect(bus, j.aim, daemon)
       IN  IF Accepts(j, link.to)
           THEN /\ job' = [job EXCEPT ![a].to = link.to, ![a].via = link.via,
                                      ![a].todo = Rest(a)]
                /\ UNCHANGED <<fd, unsure>>
           ELSE Over(a, FALSE)
    /\ UNCHANGED <<bus, daemon, file, temp, display, ui, left>>

\* A request that changes fields of the display, through the daemon or not:
\* those it claims to set, and others that are lost to it.  next is the job if
\* it is answered.
Request(a, fields, values, claims, partial, next) ==
    LET j == job[a]
    IN  /\ j.via = "daemon" => daemon = j.to /\ ~DaemonBusy(a)
        /\ Configures(j.to)
        /\ \/ /\ display' = [display EXCEPT ![j.to.at] = Put(@, fields, values)]
              /\ job' = [job EXCEPT ![a] = [next EXCEPT !.sent = @ \cup claims]]
              /\ unsure' = [unsure EXCEPT ![j.to.at] = @ \cup (fields \ claims)]
              /\ UNCHANGED fd
           \/ \E some \in partial :
                /\ display' = [display EXCEPT ![j.to.at] = Put(@, some, values)]
                /\ IF j.kind = "restore"    \* the error is recorded, no more
                   THEN /\ job' = [job EXCEPT ![a].todo = Rest(a)]
                        /\ unsure' = [unsure EXCEPT ![j.to.at] = @ \cup fields]
                        /\ UNCHANGED fd
                   ELSE /\ job' = [job EXCEPT ![a] = NoJob]
                        /\ unsure' = [unsure EXCEPT ![j.to.at] = @ \cup fields \cup j.sent]
                        /\ fd' = [fd EXCEPT ![a] = "none"]
        /\ UNCHANGED <<bus, daemon, file, temp, ui, left>>

\* A product that cannot be configured, or a daemon that has gone, is an error.
Unanswered(a) ==
    /\ Step(a) \in {"apply", "brightness", "rotate", "fan"}
    /\ \/ ~Configures(job[a].to)
       \/ job[a].via = "daemon" /\ daemon # job[a].to
    /\ GoOn(a, IF job[a].kind = "restore" THEN Rest(a) ELSE << >>)
    /\ UNCHANGED <<bus, daemon, file, temp, display, ui, left>>

\* Connection::apply.  The daemon saves what it applied before it answers.
Apply(a) ==
    /\ Step(a) = "apply" /\ Applies(job[a])
    /\ LET j == job[a]
       IN  Request(a, Sends(j.to, j.saved), Sent(j.to, j.saved),
             Sends(j.to, j.saved), Partial(j.to, j.saved),
             [j EXCEPT !.todo =
                IF j.via = "daemon" THEN DaemonSteps \o Rest(a) ELSE Rest(a)])

\* replace that is not showing the file saves nothing; push and restore go on.
SkipApply(a) ==
    /\ Step(a) = "apply" /\ ~Applies(job[a])
    /\ GoOn(a, IF job[a].kind = "restore" THEN Rest(a) ELSE << >>)
    /\ UNCHANGED <<bus, daemon, file, temp, display, ui, left>>

\* What a brightness or a rotation leaves of the look.  On KANALI each is a
\* configuration of its own, and the overlay that activates it is empty unless
\* the link leases one: always for a brightness, and for a rotation over a
\* link that has applied nothing.  A daemon or the interface, which goes on to
\* lease its overlay, puts that back in a moment.
LooksLeft(a) ==
    LET j == job[a]
        look == display[j.to.at].look
    IN  IF j.to.protocol = "legacy" \/ "look" \in j.sent THEN {look}
        ELSE {Bare(look)} \cup
             (IF j.via = "daemon" \/ j.kind \in UiKinds THEN {look} ELSE {})

\* A request for the one setting f.
Tune(a, f, look, next) ==
    LET asks == job[a].asks
        lost == IF look = display[job[a].to.at].look THEN {} ELSE {"look"}
    IN  Request(a, {f} \cup lost,
            [g \in {f, "look"} |-> IF g = "look" THEN look ELSE asks[f]],
            {f}, {{}, {f}, {f} \cup lost}, next)

Brightness(a) ==
    /\ Step(a) = "brightness"
    /\ \E look \in LooksLeft(a) :
         Tune(a, "brightness", look,
            [job[a] EXCEPT !.todo = Rest(a), !.saved.brightness = job[a].asks.brightness])

Rotate(a) ==
    /\ Step(a) = "rotate"
    /\ \E look \in LooksLeft(a) :
         Tune(a, "rotation", look,
            [job[a] EXCEPT !.todo = Rest(a), !.saved.rotation = job[a].asks.rotation])

\* The fans command; a restore sets the speed only if one was fixed, and only
\* on the legacy firmware.
Fan(a) ==
    /\ Step(a) = "fan"
    /\ LET j == job[a]
           speed == IF j.kind = "restore" THEN j.saved.fan ELSE j.asks.fan
       IN  IF j.kind = "restore" /\ (speed = None \/ j.to.protocol # "legacy")
           THEN /\ job' = [job EXCEPT ![a].todo = Rest(a)]
                /\ UNCHANGED <<bus, daemon, file, temp, fd, display, ui, left, unsure>>
           ELSE Request(a, {"fan"}, [fan |-> speed], {"fan"}, {{}, {"fan"}},
                        [j EXCEPT !.todo = Rest(a)])

-----------------------------------------------------------------------------
(* state::save_to: write display.json.tmp, then rename it.                 *)

\* fs::write opens the file, which empties it ...
OpenTemp(a) ==
    /\ Step(a) \in {"open", "daemon open"}
    /\ temp' = Torn
    /\ fd' = [fd EXCEPT ![a] = "temp"]
    /\ job' = [job EXCEPT ![a].todo = Rest(a)]
    /\ UNCHANGED <<bus, daemon, file, display, ui, left, unsure>>

\* ... and writes it.  Two that write the same file may leave a mixture.
WriteTemp(a) ==
    /\ Step(a) \in {"write", "daemon write"}
    /\ LET mixed == \E b \in Actors \ {a} : fd[b] = fd[a]
       IN  \E bytes \in {job[a].saved} \cup (IF mixed THEN {Torn} ELSE {}) :
             /\ temp' = IF fd[a] = "temp" THEN bytes ELSE temp
             /\ file' = IF fd[a] = "file" THEN bytes ELSE file
    /\ fd' = [fd EXCEPT ![a] = "none"]
    /\ job' = [job EXCEPT ![a].todo = Rest(a)]
    /\ UNCHANGED <<bus, daemon, display, ui, left, unsure>>

\* The last step of a job; push to a KANALI display does not get here.
Rename(a) ==
    /\ Step(a) \in {"rename", "daemon rename"}
    /\ temp # NoFile
    /\ file' = temp /\ temp' = NoFile
    /\ LET follow == [b \in Actors |->
                        CASE fd[b] = "temp" -> "file"
                          [] OTHER -> "none"]
           others == [d \in Plugged(bus) |->
                        IF d # job[a].to.at /\ load(file') # load(file)
                        THEN Fields ELSE unsure[d]]
       IN  IF Rest(a) # << >>
           THEN /\ job' = [job EXCEPT ![a].todo = Rest(a)]
                /\ fd' = follow /\ unsure' = others
           ELSE /\ job' = [job EXCEPT ![a] = NoJob]
                /\ fd' = follow
                /\ unsure' = [d \in Plugged(bus) |->
                        IF d = job[a].to.at THEN unsure[d] \ job[a].sent ELSE others[d]]
    /\ UNCHANGED <<bus, daemon, display, ui, left>>

\* Mutant: an error of the write is ignored, and the rename follows.
Ignored(a) ==
    /\ Step(a) \in {"write", "daemon write"}
    /\ GoOn(a, Rest(a))
    /\ UNCHANGED <<bus, daemon, file, temp, display, ui, left>>

\* A display.json.tmp that nobody is about to rename is emptied before it is
\* used again: what an abandoned save left in it is left out.
LeftOver(a) ==
    IF \E b \in Actors \ {a} :
        Step(b) \in {"write", "rename", "daemon write", "daemon rename"}
    THEN temp ELSE NoFile

\* The directory, the disk or the rename is refused: a warning at most.
SaveFails(a) ==
    /\ Step(a) \in {"open", "write", "rename", "daemon open", "daemon write",
                    "daemon rename"}
    /\ GoOn(a, IF Step(a) \in DaemonStep
               THEN SubSeq(job[a].todo, DaemonLeft(a) + 1, Len(job[a].todo))
               ELSE << >>)
    /\ temp' = LeftOver(a)
    /\ UNCHANGED <<bus, daemon, file, display, ui, left>>

-----------------------------------------------------------------------------
\* A process dies.  A daemon at work for a command works on; a restore dies
\* with the daemon.
Die(a) ==
    /\ ~Idle(a)
    /\ daemon' = IF job[a].kind = "restore" THEN Refused ELSE daemon
    /\ GoOn(a, SubSeq(job[a].todo, 1, DaemonLeft(a)))
    /\ temp' = IF Step(a) \in DaemonStep THEN temp ELSE LeftOver(a)
    /\ UNCHANGED <<bus, file, display, ui, left>>

\* The daemon dies, and with it what it was doing.
DaemonDies ==
    /\ daemon # Refused
    /\ \A a \in Actors : job[a].kind # "restore"
    /\ daemon' = Refused
    /\ IF \E a \in Actors : Step(a) \in DaemonStep
       THEN \E a \in Actors :
                /\ Step(a) \in DaemonStep
                /\ Over(a, FALSE) /\ temp' = LeftOver(a)
       ELSE UNCHANGED <<job, fd, unsure, temp>>
    /\ UNCHANGED <<bus, file, display, ui, left>>

\* A legacy display loses its settings with its power.
PowerCycle(d) ==
    /\ bus[d].vendor = "18d1"
    /\ display[d] # Factory
    /\ display' = [display EXCEPT ![d] = Factory]
    /\ unsure' = [unsure EXCEPT ![d] = Fields]
    /\ job' = [a \in Actors |->
                IF ~Idle(a) /\ job[a].to.at = d
                THEN [job[a] EXCEPT !.sent = {}] ELSE job[a]]
    /\ UNCHANGED <<bus, daemon, file, temp, fd, ui, left>>

Next ==
    \/ \E a \in Actors :
        \/ \E kind \in Kinds, aim \in Aims : \E asks \in Asks(kind) :
                Command(a, kind, aim, asks)
        \/ \E aim \in Aims : Restore(a, aim)
        \/ \E kind \in Kinds : \E asks \in Asks(kind) : Interface(a, kind, asks)
        \/ Load(a) \/ Connect(a) \/ Unanswered(a)
        \/ Apply(a) \/ SkipApply(a) \/ Brightness(a) \/ Rotate(a) \/ Fan(a)
        \/ OpenTemp(a) \/ WriteTemp(a) \/ Rename(a) \/ SaveFails(a)
        \/ Die(a)
    \/ OpenInterface
    \/ \E look \in Looks : EditInterface(look)
    \/ DaemonDies
    \/ \E d \in Plugged(bus) : PowerCycle(d)

Spec == Init /\ [][Next]_vars

-----------------------------------------------------------------------------
(* Properties.                                                             *)

TypeOK ==
    /\ daemon \in {Refused} \cup {Chosen(p, d) : p \in {"legacy", "kanali"}, d \in Places}
    /\ file \in State \cup {NoFile, Torn} /\ temp \in State \cup {NoFile, Torn}
    /\ fd \in [Actors -> {"none", "temp", "file"}]
    /\ display \in [Plugged(bus) -> Shown]
    /\ left \in 0..MaxJobs
    /\ unsure \in [Plugged(bus) -> SUBSET Fields]

\* The settings are never lost to a process that dies or a disk that is full:
\* whenever the next one loads them, the file is readable.  (state.rs:
\* save_to.)
FileReadable == file # Torn

\* The file tells what a display was last told: once nothing runs, a display
\* shows every saved setting that was sent to it by a job that succeeded, and
\* that it did not lose since, to a power cycle or, on KANALI, its labels to a
\* brightness or a rotation.  A job that fails between its requests, one that
\* cannot save and a restore of an older file are what could break it.
\* (README.md:307, "last applied, which the daemon restores".)
FileTells ==
    (\A a \in Actors : Idle(a)) =>
        \A d \in Plugged(bus) : \A f \in Fields \ unsure[d] :
            Wanted(load(file))[f] \in {None, display[d][f]}

KeepsOthers(kinds) ==
    \A a \in Actors :
        /\ Step(a) \in {"rename", "daemon rename"} /\ job[a].kind \in kinds
        /\ load(file') # load(file)
        => \A s \in (DOMAIN Default) \ About(job[a].kind) :
                load(file')[s] = load(file)[s]

TabKinds == {"ui overlay", "ui layout"}

\* A command, the daemon and the worker's own changes leave the settings they
\* are not about as they are.  (state.rs: "so commands can change one setting
\* without resetting the others".)
OthersKept == [][KeepsOthers(Kinds \ TabKinds)]_vars

\* So do the tabs of the interface.
TabsKeepOthers == [][KeepsOthers(TabKinds)]_vars

\* A command that names a display changes that one or none, whatever the
\* daemon holds.  (legacy.rs, daemon_owns_target: "goes to it directly instead
\* of silently acting on the daemon's".)
ActsOnNamed ==
    [][\A d \in Plugged(bus) :
        display'[d] \notin {display[d], Factory} =>
            \E a \in Actors :
                /\ ~Idle(a) /\ job[a].to.at = d
                /\ {job[a].aim.tty, job[a].aim.device} \subseteq {None, d}]_vars

\* A change of the brightness or the rotation leaves the look alone.
\* (state.rs:1, "so commands can change one setting without resetting the
\* others".)
LookKept ==
    [][\A a \in Actors :
        Step(a) \in {"brightness", "rotate"} /\ Step(a)' # Step(a)
        => display'[job[a].to.at].look = display[job[a].to.at].look]_vars

\* A command that reports a file as shown has the display play it.  (main.rs,
\* upload --show: "Start playing it once uploaded".)
ShowsWhatItSays ==
    [][\A a \in Actors :
        /\ ~Idle(a) /\ job[a].kind \in {"show", "upload", "ui show"}
        /\ Len(job[a].todo) = 1 /\ Step(a) = "rename" /\ job'[a] = NoJob
        /\ "plays" \in job[a].sent
        => display[job[a].to.at].plays = job[a].asks.media]_vars

=============================================================================
