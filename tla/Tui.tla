-------------------------------- MODULE Tui --------------------------------
(***************************************************************************)
(* The terminal interface (tryxctl/src/tui).  Two threads and two queues:  *)
(*                                                                         *)
(*     the loop (mod.rs, app.rs) --requests--> the worker (worker.rs)      *)
(*     draw, drain, one key      <--events---  --> display, journal        *)
(*                                                                         *)
(* The loop never waits for the worker until it leaves.  What it shows is  *)
(* what the events it has drained say, matched by a key of its own making. *)
(* The keys that change what the display shows are in Settings, the files  *)
(* of a transfer in Transfers, playback itself in Player.                  *)
(***************************************************************************)
EXTENDS Naturals, Sequences, SequencesExt, FiniteSets

CONSTANTS
    Names,         \* files that may be on the display
    Sizes,         \* sizes they may have
    Stored,        \* what the display holds at first: functions of Names, 0 for no file
    Paths,         \* local files
    RemoteName,    \* the name each would get on the display
    Transforms,    \* settings of the wizard
    Default,       \* the one it opens with
    Invalid,       \* those TransformArgs::options refuses (a zoom outside crop)
    Fits,          \* paths and transforms that pass the checks
    Presets,       \* built-in animations, listed before the files (6)
    PreviewCache,  \* PREVIEW_CACHE (12)
    MaxRequests,   \* requests the model lets the loop queue, but for Quit
    MaxEvents,     \* events the model lets the worker queue
    MaxTransfers,  \* records of the journal
    Users,         \* the keys each kind of user presses, besides q
    None           \* no prompt, no wizard, no verdict yet

ASSUME NamesAssumption ==
    /\ IsFiniteSet(Names) /\ RemoteName \in [Paths -> Names] /\ Sizes \subseteq Nat \ {0}
    /\ Stored \subseteq [Names -> Sizes \union {0}]
    /\ Default \in Transforms \ Invalid /\ Fits \subseteq Paths \X (Transforms \ Invalid)
ASSUME BoundsAssumption ==
    /\ Presets \in Nat \ {0} /\ PreviewCache \in Nat \ {0}
    /\ MaxRequests \in Nat \ {0} /\ MaxEvents \in Nat \ {0} /\ MaxTransfers \in Nat

VARIABLES
    \* the loop
    ui, tab, files, selected, operations, prompt, wizard, upload, pushing,
    previews, preview_order, preview_failures, preview_requested,
    \* shared by both
    requests, events, cancel,
    \* the worker
    step, connection, adb, metrics, transfer,
    \* what it works on
    target, device, journal,
    user,
    \* history: the choices whose last analysis ended in an error
    unjudged

picture == <<previews, preview_order, preview_failures, preview_requested>>
choice == <<prompt, wizard>>
screen == <<tab, files, selected, operations, choice, upload, pushing, picture>>
worker == <<step, connection, adb, metrics, transfer, unjudged>>
world == <<target, device, journal, user>>
vars == <<ui, screen, requests, events, cancel, worker, world>>

\* Keys of pictures: thumb:{name}, and wizard:{path}|{transform}.
Thumb(n) == <<"thumb", n>>
wizard_key(w) == <<"wizard", w.path, w.transform>>
Choice(w) == <<w.path, w.transform>>
Keys == {Thumb(n) : n \in Names} \union {<<"wizard", p, t>> : p \in Paths, t \in Transforms}

File == [name: Names, size: Sizes]
Wizard == [path: Paths, transform: Transforms, acceptable: BOOLEAN,
           lines: {None} \union (Transforms \X BOOLEAN)]
Record == [path: Paths, transform: Transforms, outcome: {"running", "ok", "failed"}]

TypeOK ==
    /\ ui \in {"draw", "drain", "key", "leaving", "gone"}
    /\ tab \in {"library", "other"} /\ files \in Seq(File)
    /\ selected \in 0 .. Presets + Cardinality(Names) - 1
    /\ operations \in Seq(Record)
    /\ prompt \in {None, <<"upload">>} \union ({"delete"} \X Names)
    /\ wizard \in {None} \union Wizard
    /\ upload \in BOOLEAN /\ pushing \in BOOLEAN
    /\ previews \in [ToSet(preview_order) -> Sizes \union {0}]
    /\ Len(preview_order) = Cardinality(DOMAIN previews)
    /\ Len(preview_order) <= PreviewCache
    /\ preview_failures \subseteq Keys /\ preview_requested \subseteq Keys
    /\ Len(requests) <= MaxRequests + 1 /\ Len(events) <= MaxEvents
    /\ cancel \in BOOLEAN
    /\ step \in {"connect", "idle", "encode", "push", "over"}
    /\ connection \in {None, "daemon", "direct", "kanali"}
    /\ adb \in BOOLEAN /\ metrics \in BOOLEAN
    /\ transfer \in 0 .. MaxTransfers
    /\ target \in BOOLEAN
    /\ device \in [Names -> Sizes \union {0}] /\ journal \in Seq(Record)
    /\ unjudged \subseteq Paths \X Transforms

\* mod.rs run: the worker is spawned, a Refresh is queued, App::new.
Init ==
    /\ ui = "draw" /\ tab = "library" /\ files = <<>> /\ selected = 0
    /\ operations = <<>> /\ prompt = None /\ wizard = None
    /\ upload = FALSE /\ pushing = FALSE
    /\ previews = <<>> /\ preview_order = <<>>
    /\ preview_failures = {} /\ preview_requested = {}
    /\ requests = <<[kind |-> "refresh"]>> /\ events = <<>> /\ cancel = FALSE
    /\ step = "connect" /\ connection = None /\ adb = FALSE /\ metrics = FALSE
    /\ transfer = 0 /\ unjudged = {}
    /\ target \in BOOLEAN
    /\ device \in Stored
    /\ journal = <<>>
    /\ user \in Users

-----------------------------------------------------------------------------
\* What both sides say to each other.  Events that only change a line of text
\* (the status, the sample, the fans, the devices) are left out.

Room(n) == Len(requests) + n <= MaxRequests
Send(rs) == requests' = requests \o rs
NoSend == UNCHANGED requests

\* Nobody reads the events of an interface that has left.
Emit(es) ==
    /\ ui \in {"leaving", "gone"} \/ Len(events) + Len(es) <= MaxEvents
    /\ events' = IF ui \in {"leaving", "gone"} THEN events ELSE events \o es

Listing(kind, of) == <<[kind |-> kind, of |-> of]>>
Done == <<[kind |-> "progress", of |-> FALSE]>>
Partly == <<[kind |-> "progress", of |-> TRUE]>>
Error == <<[kind |-> "error"]>>

-----------------------------------------------------------------------------
\* The pictures.

\* App::ensure_preview: asks at most once, for what is neither there nor known
\* to be impossible.
Ensure(key, request) ==
    IF key \in DOMAIN previews \union preview_failures \union preview_requested
    THEN preview_requested' = preview_requested /\ NoSend
    ELSE Room(1) /\ preview_requested' = preview_requested \union {key} /\ Send(request)

\* What eviction forgets of the oldest picture: that it was asked for, too.
KeepRequested(asked, old) == asked
Forget(asked, old) == asked \ {old}

\* App::store_preview.  Too many, when the newest has come in:
Full(order) == Len(order) > PreviewCache

store_preview(key, content) ==
    LET all == [k \in DOMAIN previews \union {key} |->
                   IF k = key THEN content ELSE previews[k]]
        order == IF key \in DOMAIN previews THEN preview_order
                 ELSE Append(preview_order, key)
        full == Full(order)
    IN /\ preview_order' = IF full THEN Tail(order) ELSE order
       /\ previews' = [k \in ToSet(preview_order') |-> all[k]]
       /\ preview_requested' =
             IF full THEN Forget(preview_requested, Head(order)) ELSE preview_requested

-----------------------------------------------------------------------------
\* The loop: draw, drain every event, then wait for a key.

entries == Presets + Len(files)
selected_file == IF selected < Presets \/ selected >= entries THEN None
                 ELSE files[selected - Presets + 1]

\* The library asks for the picture of the selected file as it is drawn.
Draw ==
    /\ ui = "draw"
    /\ ui' = "drain"
    /\ IF wizard = None /\ tab = "library" /\ selected_file # None
       THEN Ensure(Thumb(selected_file.name),
                   <<[kind |-> "thumbnail", file |-> selected_file]>>)
       ELSE preview_requested' = preview_requested /\ NoSend
    /\ UNCHANGED <<tab, files, selected, operations, choice, upload, pushing,
                   previews, preview_order, preview_failures, events, cancel, worker,
                   world>>

\* App::handle_event
EventMedia(e) ==
    /\ e.kind = "media"
    /\ files' = e.of
    /\ selected' = IF selected < Presets + Len(e.of) THEN selected
                   ELSE Presets + Len(e.of) - 1
    /\ UNCHANGED <<tab, operations, choice, upload, pushing, picture>>
EventOperations(e) ==
    /\ e.kind = "operations"
    /\ operations' = e.of
    /\ UNCHANGED <<tab, files, selected, choice, upload, pushing, picture>>
EventPushing(e) ==
    /\ e.kind = "pushing"
    /\ pushing' = e.of
    /\ UNCHANGED <<tab, files, selected, operations, choice, upload, picture>>
EventProgress(e) ==
    /\ e.kind = "progress"
    /\ upload' = e.of
    /\ UNCHANGED <<tab, files, selected, operations, choice, pushing, picture>>
\* A verdict is matched to the wizard by its path.
EventAnalysis(e) ==
    /\ e.kind = "analysis"
    /\ wizard' = IF wizard # None /\ wizard.path = e.path
                 THEN [wizard EXCEPT !.lines = <<e.transform, e.ok>>, !.acceptable = e.ok]
                 ELSE wizard
    /\ UNCHANGED <<tab, files, selected, operations, prompt, upload, pushing,
                   picture>>
EventPreview(e) ==
    /\ e.kind = "preview"
    /\ store_preview(e.key, e.of)
    /\ UNCHANGED <<tab, files, selected, operations, choice, upload, pushing,
                   preview_failures>>
EventPreviewFailed(e) ==
    /\ e.kind = "failed"
    /\ preview_failures' = preview_failures \union {e.key}
    /\ UNCHANGED <<tab, files, selected, operations, choice, upload, pushing,
                   previews, preview_order, preview_requested>>
EventError(e) ==
    /\ e.kind = "error"
    /\ upload' = FALSE
    /\ UNCHANGED <<tab, files, selected, operations, choice, pushing, picture>>

handle_event ==
    /\ ui = "drain" /\ events # <<>>
    /\ events' = Tail(events)
    /\ LET e == Head(events)
       IN \/ EventMedia(e) \/ EventOperations(e) \/ EventPushing(e) \/ EventProgress(e)
          \/ EventAnalysis(e) \/ EventPreview(e) \/ EventPreviewFailed(e)
          \/ EventError(e)
    /\ UNCHANGED <<ui, requests, cancel, worker, world>>

Drained ==
    /\ ui = "drain" /\ events = <<>>
    /\ ui' = "key"
    /\ UNCHANGED <<screen, requests, events, cancel, worker, world>>

-----------------------------------------------------------------------------
\* Keys.  After one, or after none for a while, the loop draws again.

Turn == ui = "key" /\ ui' = "draw" /\ UNCHANGED <<events, worker, world>>
Key(k) == Turn /\ k \in user
Free == prompt = None /\ wizard = None

Idle == Turn /\ UNCHANGED <<screen, requests, cancel>>

\* q, Esc, Ctrl-C: nothing of the interface outlives the loop.
AskToQuit == Send(<<[kind |-> "quit"]>>)
Quit ==
    /\ ui = "key"
    /\ ui' = "leaving"
    /\ AskToQuit
    /\ UNCHANGED <<screen, events, cancel, worker, world>>

CancelKey ==
    /\ Key("x") /\ Free /\ upload
    /\ cancel' = TRUE
    /\ UNCHANGED <<screen, requests>>

TabKey ==
    /\ Key("tab") /\ Free
    /\ tab' = IF tab = "library" THEN "other" ELSE "library"
    /\ UNCHANGED <<files, selected, operations, choice, upload, pushing,
                   picture, requests, cancel>>

\* r, and m
AskKey ==
    /\ Turn /\ Free /\ Room(1)
    /\ \/ "r" \in user /\ Send(<<[kind |-> "refresh"]>>)
       \/ "m" \in user /\ Send(<<[kind |-> "push_metrics", on |-> ~pushing]>>)
    /\ UNCHANGED <<screen, cancel>>

move_selection ==
    /\ Key("move") /\ Free /\ tab = "library"
    /\ \E delta \in {1, entries - 1} : selected' = (selected + delta) % entries
    /\ UNCHANGED <<tab, files, operations, choice, upload, pushing, picture,
                   requests, cancel>>

\* d, and u
PromptKey ==
    /\ Turn /\ Free /\ tab = "library"
    /\ \/ "d" \in user /\ selected_file # None /\ prompt' = <<"delete", selected_file.name>>
       \/ "u" \in user /\ prompt' = <<"upload">>
    /\ UNCHANGED <<tab, files, selected, operations, wizard, upload, pushing,
                   picture, requests, cancel>>

\* Any failed record the cursor may stand on.
RetryKey ==
    /\ Key("retry") /\ Free /\ tab = "other" /\ Room(1)
    /\ \E id \in DOMAIN operations :
         /\ operations[id].outcome = "failed"
         /\ Send(<<[kind |-> "retry", id |-> id]>>)
    /\ UNCHANGED <<screen, cancel>>

\* App::handle_prompt_key.  The prompt holds the name it asks about.
ToDelete == prompt[2]
SelectedNow == IF selected_file = None THEN prompt[2] ELSE selected_file.name
DeleteTarget == ToDelete

ConfirmDelete ==
    /\ Key("d") /\ prompt \notin {None, <<"upload">>}
    /\ prompt' = None
    /\ \/ Room(1) /\ Send(<<[kind |-> "delete", name |-> DeleteTarget]>>)
       \/ NoSend
    /\ UNCHANGED <<tab, files, selected, operations, wizard, upload, pushing,
                   picture, cancel>>

Analyse(p, t) == [kind |-> "analyse", path |-> p, transform |-> t]
Preview(w) == [kind |-> "preview", key |-> wizard_key(w), path |-> w.path,
               transform |-> w.transform]

\* An analysis is asked for, then the picture unless it is there.
AskOnce(w) ==
    /\ wizard' = w
    /\ IF wizard_key(w) \in DOMAIN previews \union preview_failures \union preview_requested
       THEN NoSend /\ UNCHANGED preview_requested
       ELSE /\ Room(2) /\ Send(<<Analyse(w.path, w.transform), Preview(w)>>)
            /\ preview_requested' = preview_requested \union {wizard_key(w)}
AskAbout(w) ==
    /\ wizard' = w
    /\ IF wizard_key(w) \in DOMAIN previews \union preview_failures \union preview_requested
       THEN Room(1) /\ Send(<<Analyse(w.path, w.transform)>>) /\ UNCHANGED preview_requested
       ELSE /\ Room(2) /\ Send(<<Analyse(w.path, w.transform), Preview(w)>>)
            /\ preview_requested' = preview_requested \union {wizard_key(w)}

UploadPath ==
    /\ Key("u") /\ prompt = <<"upload">>
    /\ prompt' = None
    /\ \/ \E p \in Paths : AskAbout([path |-> p, transform |-> Default,
                                     lines |-> None, acceptable |-> FALSE])
       \/ UNCHANGED <<wizard, preview_requested>> /\ NoSend
    /\ UNCHANGED <<tab, files, selected, operations, upload, pushing, previews,
                   preview_order, preview_failures, cancel>>

\* m, r, +, -: the lines are reset, the verdict is not.
WizardChange ==
    /\ Key("wizard") /\ prompt = None /\ wizard # None
    /\ \E t \in Transforms :
         AskAbout([wizard EXCEPT !.transform = t, !.lines = None])
    /\ UNCHANGED <<tab, files, selected, operations, prompt, upload, pushing,
                   previews, preview_order, preview_failures, cancel>>

WizardBack ==
    /\ Key("wizard") /\ prompt = None /\ wizard # None
    /\ wizard' = None
    /\ UNCHANGED <<tab, files, selected, operations, prompt, upload, pushing, picture,
                   requests, cancel>>

WizardUpload ==
    /\ Key("enter") /\ prompt = None /\ wizard # None
    /\ wizard.acceptable /\ Room(1)
    /\ wizard' = None
    /\ Send(<<[kind |-> "upload", path |-> wizard.path, transform |-> wizard.transform]>>)
    /\ UNCHANGED <<tab, files, selected, operations, prompt, upload, pushing,
                   picture, cancel>>

-----------------------------------------------------------------------------
\* The worker connects once; it has a legacy target or it has not.

connect ==
    /\ step = "connect"
    /\ step' = "idle"
    /\ connection' \in {None, "daemon"} \union IF target THEN {"direct"} ELSE {"kanali"}
    /\ metrics' = (connection' \in {"daemon", "kanali"})
    /\ adb' \in IF target THEN BOOLEAN ELSE {FALSE}
    /\ Emit((IF metrics' THEN Listing("pushing", TRUE) ELSE <<>>)
            \o IF connection' = None \/ (target /\ ~adb') THEN Error ELSE <<>>)
    /\ UNCHANGED <<ui, screen, requests, cancel, transfer, unjudged, world>>

\* Every two seconds: a push that fails is the last.
tick ==
    /\ step = "idle" /\ connection \in {"direct", "kanali"} /\ metrics
    /\ metrics' = FALSE
    /\ Emit(Listing("pushing", FALSE) \o Error)
    /\ UNCHANGED <<ui, screen, requests, cancel, step, connection, adb, transfer, unjudged,
                   world>>

\* WorkerState::list needs adb on a legacy display, a connection elsewhere.
CanList == IF target THEN adb ELSE connection # None
Listed(d) ==
    LET names == SetToSeq({n \in Names : d[n] # 0})
    IN [i \in DOMAIN names |-> [name |-> names[i], size |-> d[names[i]]]]

\* Handling a request answers with events, and may change the display.
Take(kind) ==
    /\ step = "idle" /\ requests # <<>>
    /\ Head(requests).kind = kind
    /\ requests' = Tail(requests)
    /\ UNCHANGED <<ui, screen, cancel, connection, adb, target, user>>
Stay == UNCHANGED <<step, transfer>>
Request == Head(requests)

refresh ==
    /\ Take("refresh") /\ Stay
    /\ \/ CanList /\ Emit(Listing("media", Listed(device)) \o Listing("operations", journal))
       \/ Emit(Error)
    /\ UNCHANGED <<metrics, unjudged, device, journal>>

delete ==
    /\ Take("delete") /\ Stay
    /\ \/ /\ connection # None
          /\ device' = [device EXCEPT ![Request.name] = 0]
          /\ Emit(IF CanList THEN Listing("media", Listed(device')) ELSE Error)
       \/ /\ connection # None  \* one half of it failed
          /\ device' \in {device, [device EXCEPT ![Request.name] = 0]}
          /\ Emit(Error)
       \/ connection = None /\ Emit(Error) /\ UNCHANGED device
    /\ UNCHANGED <<metrics, unjudged, journal>>

\* An error and no verdict: without ffmpeg or ffprobe, which are looked for every
\* time (encode::tools), for a transform the options refuse, without a connection.
analyse ==
    /\ Take("analyse") /\ Stay
    /\ \/ /\ Request.transform \notin Invalid /\ connection # None
          /\ Emit(<<[kind |-> "analysis", path |-> Request.path,
                     transform |-> Request.transform, ok |-> Choice(Request) \in Fits]>>)
          /\ unjudged' = unjudged \ {Choice(Request)}
       \/ Emit(Error) /\ unjudged' = unjudged \union {Choice(Request)}
    /\ UNCHANGED <<metrics, device, journal>>

\* The size in the request names the clip on disk; a clip of that size that was
\* kept there answers for a file that has gone.
thumbnail ==
    /\ Take("thumbnail") /\ Stay
    /\ LET key == Thumb(Request.file.name)
       IN \/ /\ target /\ adb
             /\ Emit(<<[kind |-> "preview", key |-> key, of |-> Request.file.size]>>)
          \/ Emit(<<[kind |-> "failed", key |-> key]>>)
    /\ UNCHANGED <<metrics, unjudged, device, journal>>

preview ==
    /\ Take("preview") /\ Stay
    /\ \/ /\ Request.transform \notin Invalid /\ connection # None
          /\ Emit(<<[kind |-> "preview", key |-> Request.key, of |-> 0]>>)
       \/ Emit(<<[kind |-> "failed", key |-> Request.key]>>)
    /\ UNCHANGED <<metrics, unjudged, device, journal>>

\* A daemon goes on pushing whatever is asked.
push_metrics ==
    /\ Take("push_metrics") /\ Stay
    /\ IF connection \in {"direct", "kanali"}
       THEN metrics' = Request.on /\ Emit(Listing("pushing", Request.on))
       ELSE /\ UNCHANGED metrics
            /\ Emit(IF connection = "daemon" THEN Listing("pushing", TRUE) \o Error ELSE Error)
    /\ UNCHANGED <<unjudged, device, journal>>

-----------------------------------------------------------------------------
\* WorkerState::upload, from a request or from retry.

Begun(p, t) == [path |-> p, transform |-> t, outcome |-> "running"]
Unkeyed(p, t) == [Begun(p, t) EXCEPT !.outcome = "failed"]
Outcome(o) == journal' = [journal EXCEPT ![transfer].outcome = o]

ResetFlag == cancel' = FALSE

\* The analysis is made again, and the name must be free.
Begin(p, t) ==
    \/ /\ t \notin Invalid /\ connection # None /\ <<p, t>> \in Fits
       /\ CanList /\ device[RemoteName[p]] = 0
       /\ Len(journal) < MaxTransfers
       /\ \/ /\ journal' = Append(journal, Begun(p, t))
             /\ transfer' = Len(journal) + 1
             /\ \/ step' = "encode" /\ ResetFlag /\ Emit(<<>>)
                \/ step' = "push" /\ UNCHANGED cancel /\ Emit(Done)  \* as it is, or kept
          \/ /\ journal' = Append(journal, Unkeyed(p, t))  \* the source cannot be read
             /\ Emit(Error) /\ UNCHANGED <<step, transfer, cancel>>
    \/ Emit(Error) /\ UNCHANGED <<step, transfer, journal, cancel>>

upload_request ==
    /\ step = "idle" /\ requests # <<>> /\ Request.kind = "upload"
    /\ requests' = Tail(requests)
    /\ Begin(Request.path, Request.transform)
    /\ UNCHANGED <<ui, screen, connection, adb, metrics, unjudged, target, device, user>>

retry ==
    /\ step = "idle" /\ requests # <<>> /\ Request.kind = "retry"
    /\ requests' = Tail(requests)
    /\ LET record == journal[Request.id]
       IN \/ record.outcome = "failed" /\ Begin(record.path, record.transform)
          \/ record.outcome # "failed" /\ Emit(Error)
             /\ UNCHANGED <<step, transfer, journal, cancel>>
    /\ UNCHANGED <<ui, screen, connection, adb, metrics, unjudged, target, device, user>>

Working(at) ==
    /\ step = at
    /\ UNCHANGED <<ui, screen, requests, cancel, connection, adb, metrics, unjudged, target,
                   user>>

\* run_cancellable: the flag is read with every line of ffmpeg's progress; a
\* fraction is reported when the duration is known.
Unheard == FALSE
Cancelled == cancel
Progress ==
    /\ Working("encode")
    /\ IF Cancelled
       THEN step' = "idle" /\ Outcome("failed") /\ Emit(Done \o Error)
       ELSE Emit(Partly) \/ Emit(<<>>)
    /\ Cancelled => transfer' = 0
    /\ ~Cancelled => UNCHANGED <<step, transfer, journal>>
    /\ UNCHANGED device

\* ffmpeg is through; its output is verified.
EncodeEnds ==
    /\ Working("encode")
    /\ \/ step' = "push" /\ Emit(Done) /\ UNCHANGED <<transfer, journal>>
       \/ step' = "idle" /\ Outcome("failed") /\ transfer' = 0 /\ Emit(Done \o Error)
    /\ UNCHANGED device

\* Over a KANALI link or the daemon the push reports progress, too.
PushProgress ==
    /\ Working("push") /\ ~target
    /\ Emit(Partly)
    /\ UNCHANGED <<step, transfer, device, journal>>

Silently == <<>>
Finish == Done
PushEnds ==
    /\ Working("push")
    /\ step' = "idle" /\ transfer' = 0
    /\ \/ /\ \E size \in Sizes :
               device' = [device EXCEPT ![RemoteName[journal[transfer].path]] = size]
          /\ Outcome("ok")
          /\ \E list \in {Listing("media", Listed(device')), Error} :
               Emit(Finish \o Listing("operations", journal') \o list)
       \/ /\ Outcome("failed")
          /\ Emit(Finish \o Listing("operations", journal') \o Error)
          /\ UNCHANGED device

\* Requests queued before it are handled first; then the loop's join returns.
quit ==
    /\ step = "idle" /\ requests # <<>> /\ Request.kind = "quit"
    /\ step' = "over" /\ requests' = Tail(requests)
    /\ UNCHANGED <<ui, screen, events, cancel, connection, adb, metrics, transfer, unjudged,
                   world>>
Leave ==
    /\ ui = "leaving" /\ step = "over"
    /\ ui' = "gone"
    /\ UNCHANGED <<screen, requests, events, cancel, worker, world>>

-----------------------------------------------------------------------------
Keypress ==
    \/ Idle \/ CancelKey \/ TabKey \/ AskKey \/ move_selection \/ PromptKey
    \/ RetryKey \/ ConfirmDelete \/ UploadPath \/ WizardChange \/ WizardBack \/ WizardUpload
handle ==
    \/ refresh \/ delete \/ analyse \/ thumbnail \/ preview
    \/ push_metrics \/ upload_request \/ retry \/ quit

Next ==
    \/ Draw \/ handle_event \/ Drained \/ Keypress \/ Quit \/ Leave
    \/ connect \/ tick \/ handle \/ Progress \/ EncodeEnds \/ PushProgress \/ PushEnds

\* The loop never waits before it leaves (what playback does to it is in Player),
\* and the worker stops when it finds itself asked to.
Fairness ==
    /\ WF_vars(Draw) /\ WF_vars(handle_event) /\ WF_vars(Drained) /\ WF_vars(Idle)
    /\ WF_vars(quit) /\ WF_vars(Leave)

\* What no timeout sees to, and a property that needs it says so.  The worker waits
\* for adb, ffprobe and the ffmpeg of a picture until they end, whatever it handles,
\* and for adb to push:
CommandsReturn == WF_vars(connect) /\ WF_vars(handle) /\ WF_vars(PushEnds)
\* the ffmpeg of an encode writes its progress, and it and the check of what it
\* made end:
FfmpegWrites == WF_vars(Progress)
EncodesEnd == []<>(step # "encode")

Spec == Init /\ [][Next]_vars /\ Fairness

-----------------------------------------------------------------------------
\* A picture that was asked for is there, is impossible, or is on its way: the
\* pane that says "generating" does not say it for nothing, and no picture is
\* lost for good by being forgotten on one side only.
OnItsWay(key) ==
    \/ \E i \in DOMAIN requests :
         \/ requests[i].kind = "thumbnail" /\ key = Thumb(requests[i].file.name)
         \/ requests[i].kind = "preview" /\ key = requests[i].key
    \/ \E i \in DOMAIN events :
         events[i].kind \in {"preview", "failed"} /\ events[i].key = key
Waiting(key) == key \notin DOMAIN previews \union preview_failures
RequestedIsComing ==
    ui \in {"draw", "drain", "key"} =>
        \A key \in preview_requested : Waiting(key) => OnItsWay(key)

Settled ==
    ui = "key" /\ requests = <<>> /\ events = <<>> /\ step = "idle"

\* When everything is answered the interface shows no progress of an upload that
\* is over, and says of the metrics push what the worker does.
SettledIsTrue == Settled => ~upload /\ pushing = metrics

\* The verdict of the wizard is the one of the choice it shows, and was given,
\* unless the analysis of that very choice ended in an error.
VerdictIsOfTheChoice ==
    Settled /\ wizard # None /\ Choice(wizard) \notin unjudged =>
        wizard.lines = <<wizard.transform, Choice(wizard) \in Fits>>

\* A choice that could not be analysed does not keep the verdict of another.
\* app.rs: "what the analysis says about that choice".
NoVerdictOfAnother ==
    Settled /\ wizard # None =>
        wizard.lines \in {None, <<wizard.transform, Choice(wizard) \in Fits>>}

\* The wizard is never left waiting for a picture nobody will send.
\* app.rs: "Asks the worker for a picture once; later renders find it ready."
WizardGetsItsPicture ==
    ui \in {"draw", "drain", "key"} /\ wizard # None =>
        LET key == wizard_key(wizard) IN Waiting(key) => OnItsWay(key)

\* The picture shown for a file is of that file, by name and size.
\* preview.rs: "cached on disk by name and size".
PictureIsOfTheFile ==
    Settled /\ tab = "library" /\ wizard = None /\ selected_file # None =>
        LET key == Thumb(selected_file.name)
        IN key \in DOMAIN previews => previews[key] = selected_file.size

\* Only what the prompt named is asked to be deleted, however the list has moved
\* under the cursor since.
DeletesWhatWasAsked ==
    [][\A i \in DOMAIN requests' \ DOMAIN requests :
         requests'[i].kind = "delete" => prompt = <<"delete", requests'[i].name>>]_vars

\* A cancelled encode ends, whatever ffmpeg has left to do, if it writes of it.
CancelEnds == FfmpegWrites => (step = "encode" /\ cancel ~> step # "encode")

\* An interface that leaves is gone in the end, with all it had queued, if the
\* commands the worker waits for return and no encode goes on for ever.
QuitEnds == CommandsReturn /\ EncodesEnd => (ui = "leaving" ~> ui = "gone")
=============================================================================
