---------------------------- MODULE KanaliSession ----------------------------
(***************************************************************************)
(* The link to a display on current firmware: the calls of `Device`        *)
(* (tryx-kanali/src/lib.rs) made of the exchanges of `Session`             *)
(* (tryx-kanali/src/session.rs).                                           *)
(*                                                                         *)
(* Two pipes, each in order, join the host and the display.  The host does *)
(* one thing at a time: a call sends its requests one by one and waits for *)
(* the reply to each, until its time runs out.  A display may be slow, so  *)
(* what it answers a request that was given up is still on its way when    *)
(* the next one is sent, or when the next process opens the display.  What *)
(* keeps such a reply from being taken for another is the track id, which  *)
(* is random except for the transfers of the Turris.                       *)
(***************************************************************************)
EXTENDS Naturals, Sequences

CONSTANTS
    TransferOnly, \* the display is a Turris: it takes uploads and nothing else
    Settings,     \* the settings of the user configuration
    Values,       \* what each may be
    Compared,     \* the settings that the readback of `apply` compares
    Changes,      \* the changes callers ask for: values for some settings
    Unfit,        \* the changes whose media the display would not accept
    Files,        \* the files callers upload
    NoFile,       \* none of them
    Chunks,       \* CHUNK_SIZE pieces in a file
    MaxSkipped,   \* MAX_SKIPPED_FRAMES
    Tracks,       \* the tracks that next_track draws from
    MaxOut, MaxIn \* frames the pipe to the display, from the display holds

ASSUME TransferOnlyAssumption == TransferOnly \in BOOLEAN
ASSUME SettingsAssumption == Compared \subseteq Settings
ASSUME ChangesAssumption ==
    /\ \A c \in Changes : /\ c \in [DOMAIN c -> Values]
                           /\ DOMAIN c \subseteq Settings
                           /\ DOMAIN c # {}
    /\ Unfit \subseteq Changes
ASSUME FilesAssumption == NoFile \notin Files
ASSUME NumbersAssumption == /\ Chunks \in Nat \ {0}
                            /\ MaxSkipped \in Nat
                            /\ MaxOut \in Nat \ {0}
                            /\ MaxIn \in Nat
ASSUME TracksAssumption == Tracks \subseteq Nat \ {0}

VARIABLES
    open,      \* a process has opened the display
    job,       \* the call of `Device` being made, or the last if it changed
               \* the display and succeeded
    call,      \* the request whose reply it waits for
    toDisplay, \* the pipe to the display, oldest request first
    toHost,    \* the pipe from the display, what the host has buffered included
    config,    \* the display's user configuration
    incoming,  \* the transfer the display is taking
    store      \* the last file it kept

vars == <<open, job, call, toDisplay, toHost, config, incoming, store>>
hostVars == <<open, job, call>>
displayVars == <<config, incoming, store>>

-----------------------------------------------------------------------------
\* The calls of Device and the requests each of them sends, in order.

Kinds == {"boot", "read", "apply", "upload", "remove", "keepalive", "overlay",
          "metrics"}

Plan == [boot   |-> <<"info", "system", "auth">>,
         read   |-> <<"query">>,
         apply  |-> <<"query", "write", "layout", "query">>,
         upload |-> <<"begin">> \o [i \in 1..Chunks |-> "chunk"] \o <<"end">>,
         remove |-> <<"remove">>,
         keepalive |-> <<"ping", "lease">>,
         overlay |-> <<"layout">>,
         metrics |-> <<"metrics">>]

\* The body that Expect names for each request.
Expect == [info |-> "information", system |-> "system", auth |-> "auth",
           query |-> "configuration", write |-> "ack", remove |-> "ack",
           begin |-> "begun", chunk |-> "taken", end |-> "ended",
           layout |-> "ack", lease |-> "ack", ping |-> "pong", metrics |-> "ack"]

Requests == {"info", "system", "auth", "query", "write", "remove", "begin",
             "chunk", "end", "layout", "lease", "ping", "metrics"}
Bodies == {"information", "system", "auth", "configuration", "ack", "begun",
           "taken", "ended", "pong", "error", "event", "garbage"}

Configs == [Settings -> Values]

Untracked == {"info", "system", "auth", "lease", "ping", "metrics"}
Unanswered == {"layout", "lease", "ping", "metrics"}   \* written without a wait

Nothing == [s \in {} |-> s]   \* no setting at all
Idle == [kind |-> "none", at |-> 0, change |-> Nothing, file |-> NoFile,
         seen |-> Nothing, state |-> "idle"]
NoCall == [request |-> "none", number |-> 0, track |-> 0, skipped |-> 0]

Running == job.state = "running"
Waiting == call.request # "none"
Step == Plan[job.kind][job.at]   \* the request the job sends next, or waits on

Job == [kind: Kinds \cup {"none"}, at: Nat, change: Changes \cup {Nothing},
        file: Files \cup {NoFile}, seen: Configs \cup {Nothing},
        state: {"idle", "running", "ok"}]
Call == [request: Requests \cup {"none"}, number: Nat, track: Nat,
         skipped: 0 .. MaxSkipped]
RequestFrame == [request: Requests, number: Nat, track: Nat,
                 change: Changes \cup {Nothing}, config: Configs \cup {Nothing},
                 file: Files \cup {NoFile}, part: Nat]
ReplyFrame == [body: Bodies, number: Nat, track: Nat,
               config: Configs \cup {Nothing}]
Transfer == [file: Files \cup {NoFile}, parts: Seq(Files \X Nat)]

TypeOK ==
    /\ open \in BOOLEAN
    /\ job \in Job
    /\ call \in Call
    /\ toDisplay \in Seq(RequestFrame)
    /\ toHost \in Seq(ReplyFrame)
    /\ config \in Configs
    /\ incoming \in Transfer
    /\ store \in Transfer

Empty == [file |-> NoFile, parts |-> <<>>]

Init ==
    /\ open = FALSE
    /\ job = Idle
    /\ call = NoCall
    /\ toDisplay = <<>>
    /\ toHost = <<>>
    /\ config \in Configs
    /\ incoming = Empty
    /\ store = Empty

-----------------------------------------------------------------------------
\* The host: starting a call, and sending its requests.

Make(kind, change, file) ==
    job' = [kind |-> kind, at |-> 1, change |-> change, file |-> file,
            seen |-> Nothing, state |-> "running"]

\* kanali::open: a new process opens the display and, unless it only takes
\* transfers, starts a session.
Open ==
    /\ ~open
    /\ open' = TRUE
    /\ IF TransferOnly THEN job' = Idle ELSE Make("boot", Nothing, NoFile)
    /\ UNCHANGED <<call, toDisplay, toHost, displayVars>>

Start ==
    /\ open /\ ~Running
    /\ \/ /\ ~TransferOnly
          /\ \E kind \in {"read", "remove", "keepalive", "overlay", "metrics"} :
                Make(kind, Nothing, NoFile)
       \/ ~TransferOnly /\ \E change \in Changes : Make("apply", change, NoFile)
       \/ \E file \in Files : Make("upload", Nothing, file)
    /\ UNCHANGED <<open, call, toDisplay, toHost, displayVars>>

\* apply: what the display had, with the change in it.
Merged == [s \in Settings |->
             IF s \in DOMAIN job.change THEN job.change[s] ELSE job.seen[s]]

\* next_track repeats none: the number it draws is in no frame on its way.
InFlight == {toDisplay[i].number : i \in DOMAIN toDisplay}
              \cup {toHost[i].number : i \in DOMAIN toHost}

next_track == CHOOSE n \in Tracks : n \notin InFlight

\* stamp: a request outside execute carries no track, the transfers of the
\* Turris a fixed one, every other request the number drawn for it.  `number`
\* is what tells requests apart here; the display sees the track alone.
TURRIS_TRANSFER_TRACK_ID == 981521

FixedForAll(request) ==
    IF request \in Untracked THEN [number |-> 0, track |-> 0]
    ELSE [number |-> next_track, track |-> TURRIS_TRANSFER_TRACK_ID]
stamp(request) ==
    IF request \in Untracked THEN [number |-> 0, track |-> 0]
    ELSE [number |-> next_track,
          track |-> IF TransferOnly THEN TURRIS_TRANSFER_TRACK_ID ELSE next_track]

Frame(request) ==
    [request |-> request,
     number |-> stamp(request).number, track |-> stamp(request).track,
     change |-> IF request = "write" THEN job.change ELSE Nothing,
     config |-> IF request = "write" THEN Merged ELSE Nothing,
     file |-> IF request \in {"begin", "chunk"} THEN job.file ELSE NoFile,
     part |-> IF request = "chunk" THEN job.at - 1 ELSE 0]

write_all(request) ==
    /\ Len(toDisplay) < MaxOut
    /\ request \in Untracked \/ ~(Tracks \subseteq InFlight)
    /\ toDisplay' = Append(toDisplay, Frame(request))

\* drain: the frames that arrive within a moment are dropped, the first ones.
drain == \E n \in 0 .. Len(toHost) : toHost' = SubSeq(toHost, n + 1, Len(toHost))

\* A process that cannot start a session has no use for the display.
Fail ==
    /\ open' = (job.kind # "boot")
    /\ job' = Idle
    /\ call' = NoCall

\* The job goes on, or has done all it had to.
Advance(seen) ==
    /\ call' = NoCall
    /\ UNCHANGED open
    /\ IF job.at = Len(Plan[job.kind])
       THEN job' = IF job.kind \in {"apply", "upload"}
                   THEN [job EXCEPT !.state = "ok", !.at = 0, !.seen = Nothing]
                   ELSE Idle
       ELSE job' = [job EXCEPT !.at = @ + 1, !.seen = seen]

\* execute, and one round of bootstrap, up to the wait for the reply.
\* Bootstrap does not drain.
execute ==
    /\ Running /\ ~Waiting /\ Step \notin Unanswered
    /\ write_all(Step)
    /\ IF job.kind = "boot" THEN UNCHANGED toHost ELSE drain
    /\ call' = [request |-> Step, number |-> Frame(Step).number,
                track |-> Frame(Step).track, skipped |-> 0]
    /\ UNCHANGED <<open, job, displayVars>>

\* activate and keepalive: write_only, write_tracked_only.  keepalive ends
\* with a drain.
write_only ==
    /\ Running /\ Step \in Unanswered
    /\ write_all(Step)
    /\ Advance(job.seen)
    /\ IF Step = "lease" THEN drain ELSE UNCHANGED toHost
    /\ UNCHANGED displayVars

-----------------------------------------------------------------------------
\* The host: the reply, or the lack of one.

\* The frames that are passed over: by read_bootstrap, all but the reply it
\* expects; by execute, events, stray pongs and replies to other tracks.
IgnoresTracks(frame) == frame.body \in {"event", "pong"}
Unrelated(frame) ==
    IF job.kind = "boot"
    THEN ~(frame.track = 0 /\ frame.body = Expect[call.request])
    ELSE frame.body \in {"event", "pong"} \/ frame.track # call.track

\* The readback of apply.
NotCompared(state) == TRUE
Matches(state) ==
    \A s \in Compared \cap DOMAIN job.change : state[s] = job.change[s]

Replied(frame) ==
    IF \/ Step = "query" /\ job.at = 1 /\ job.change \in Unfit
       \/ Step = "query" /\ job.at > 1 /\ ~Matches(frame.config)
    THEN Fail
    ELSE Advance(IF Step = "query" THEN frame.config ELSE job.seen)

\* An error ends the call, but for the last two rounds of bootstrap, which
\* disregard it.
Fails == IF job.kind = "boot" /\ job.at > 1 THEN Advance(Nothing) ELSE Fail

OneMore == call.skipped > MaxSkipped
TooMany == call.skipped + 1 > MaxSkipped

\* The body that is expected, no error, and for a transfer the status Ok.
AnyStatus(frame) ==
    \/ frame.body = Expect[call.request]
    \/ job.kind = "upload" /\ frame.body = "error"
Accepted(frame) == frame.body = Expect[call.request]

receive ==
    /\ Waiting /\ toHost # <<>>
    /\ toHost' = Tail(toHost)
    /\ LET frame == Head(toHost) IN
       \/ frame.body = "garbage" /\ Fails
       \/ /\ frame.body # "garbage" /\ Unrelated(frame)
          /\ IF TooMany THEN Fails
             ELSE call' = [call EXCEPT !.skipped = @ + 1] /\ UNCHANGED <<open, job>>
       \/ /\ frame.body # "garbage" /\ ~Unrelated(frame)
          /\ IF Accepted(frame) THEN Replied(frame) ELSE Fails
    /\ UNCHANGED <<toDisplay, displayVars>>

\* No reply in time.
NoResponse ==
    /\ Waiting
    /\ Fails
    /\ UNCHANGED <<toDisplay, toHost, displayVars>>

\* The request cannot be written.
WriteFails ==
    /\ Running /\ ~Waiting
    /\ Fail
    /\ UNCHANGED <<toDisplay, toHost, displayVars>>

\* The process ends, or is ended at any moment; the frames it had read and
\* not looked at are gone, those the display holds are not.
Close ==
    /\ open
    /\ open' = FALSE
    /\ job' = Idle
    /\ call' = NoCall
    /\ drain
    /\ UNCHANGED <<toDisplay, displayVars>>

-----------------------------------------------------------------------------
\* The display.  It takes the requests in order; it may refuse one, or be
\* late with an answer, or give none.

Reply(request, body) ==
    [body |-> body, number |-> request.number, track |-> request.track,
     config |-> IF body = "configuration" THEN config ELSE Nothing]

Answers(request, body) ==
    \/ Len(toHost) < MaxIn /\ toHost' = Append(toHost, Reply(request, body))
    \/ UNCHANGED toHost

\* What it does for a request.  A setting it has no use for stays as it was;
\* a transfer is kept when it is complete.
Serve(request) ==
    CASE request.request = "write" ->
           /\ \E ignored \in SUBSET DOMAIN request.change :
                config' = [s \in Settings |-> IF s \in ignored THEN config[s]
                                              ELSE request.config[s]]
           /\ UNCHANGED <<incoming, store>>
      [] request.request = "begin" ->
           /\ incoming' = [file |-> request.file, parts |-> <<>>]
           /\ UNCHANGED <<config, store>>
      [] request.request = "chunk" ->
           /\ incoming.file # NoFile /\ Len(incoming.parts) < Chunks
           /\ incoming' = [incoming EXCEPT !.parts =
                             Append(@, <<request.file, request.part>>)]
           /\ UNCHANGED <<config, store>>
      [] request.request = "end" ->
           /\ incoming.file # NoFile /\ Len(incoming.parts) = Chunks
           /\ store' = incoming
           /\ incoming' = Empty
           /\ UNCHANGED config
      [] request.request = "remove" ->
           /\ store' = Empty
           /\ UNCHANGED <<config, incoming>>
      [] OTHER -> UNCHANGED displayVars

Handle ==
    /\ toDisplay # <<>>
    /\ toDisplay' = Tail(toDisplay)
    /\ LET request == Head(toDisplay) IN
       \/ Serve(request) /\ Answers(request, Expect[request.request])
       \/ UNCHANGED displayVars /\ Answers(request, "error")
    /\ UNCHANGED hostVars

\* Asynchronous events, and frames that cannot be read as a reply.
Emit ==
    /\ Len(toHost) < MaxIn
    /\ \E body \in {"event", "garbage"} :
         toHost' = Append(toHost, [body |-> body, number |-> 0, track |-> 0,
                                   config |-> Nothing])
    /\ UNCHANGED <<hostVars, toDisplay, displayVars>>

\* It is unplugged and plugged in again: the pipes are new.  The host finds
\* the old one gone and ends its call.
Replug ==
    /\ toDisplay' = <<>> /\ toHost' = <<>>
    /\ incoming' = Empty
    /\ open' = FALSE
    /\ job' = Idle
    /\ call' = NoCall
    /\ UNCHANGED <<config, store>>

-----------------------------------------------------------------------------
Next ==
    \/ Open \/ Start \/ execute \/ write_only
    \/ receive \/ NoResponse \/ WriteFails \/ Close
    \/ Handle \/ Emit \/ Replug

Spec == Init /\ [][Next]_vars

-----------------------------------------------------------------------------
(***************************************************************************)
(* Correctness properties                                                  *)
(***************************************************************************)

\* The replies in the pipe that `execute` would take for the answer.
Candidates == {i \in 1 .. Len(toHost) : ~Unrelated(toHost[i])}

\* Whatever was given up, left undrained, or left over by an earlier process:
\* what `execute` takes for the reply to its request is the reply to that
\* request, with the body it expects or an error.  Session::execute compares
\* tracks, and nothing else tells replies apart.
AnswersItsRequest ==
    Waiting /\ call.number # 0 =>
        \A i \in Candidates :
            /\ toHost[i].number = call.number
            /\ toHost[i].body \in {Expect[call.request], "error"}

\* A write changes the settings its caller asked to change and no other: what
\* `apply` merges its change into is never an older configuration, even when
\* writes whose reply never came are still on their way to the display.
OnlyTheChange ==
    [][\A s \in Settings : config'[s] # config[s] =>
          /\ toDisplay # <<>>
          /\ s \in DOMAIN Head(toDisplay).change]_vars

\* An apply that reports success was adopted: the display has the value of
\* every setting that was asked for and is read back, until the next call.
ApplyConfirmed ==
    job.kind = "apply" /\ job.state = "ok" =>
        \A s \in Compared \cap DOMAIN job.change : config[s] = job.change[s]

\* An upload that reports success left its file on the display, under its
\* name, with every part once and in order, and none of another upload.
UploadWhole ==
    job.kind = "upload" /\ job.state = "ok" =>
        store = [file |-> job.file, parts |-> [i \in 1 .. Chunks |-> <<job.file, i>>]]
=============================================================================
