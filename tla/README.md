# A verification project for tryxctl

tryxctl drives the displays of TRYX coolers from the command line, from a
terminal interface and from a daemon. This directory holds TLA+ modules that
model its core logic, the configurations that TLC checks them with, and
theorems about them that TLAPS proves. `PROJECT.json` lists the components,
runs, mutants, hazards and theorems, and maps every definition to the lines it
models. Paths below are relative to `src/crates/` unless they say otherwise.

    tlc -workers 2 -config MCDaemon_safety.cfg MCDaemon     # one run
    tlapm DaemonProofs.tla                                  # one set of proofs

## Contents

1. The system, component by component
2. Modules, and how they correspond to the code
3. The runs
4. The theorems
5. Disagreements between the code and what is said of it
6. What is left out
7. Plan

## 1. The system

    commands, TUI --(one connection per call)--> socket threads --channel--> daemon loop
         |                                                                      |
         |  display.json, operations.json, encodes/            link (serial or USB)
         |  (files; no locks)                                                   |
         +------------- direct session: serial, USB, adb ------------------> display

| Component | State | Operations | What is hard, and what makes it correct |
|---|---|---|---|
| Daemon loop `tryxctl/src/daemon.rs` | the link, `DaemonStatus`, `silent_pushes`, three deadlines, the copy of the clock | open, restore, push, keepalive, handle a request, reconnect, wake | Timers, requests, replugs and suspends in any order; a stale counter, flag or error outlives its link. The status is true; a link goes for a reason; a dead one goes; requests are answered once, in order |
| Socket `tryxctl/src/ipc.rs` | one connection and one reply sender per call | call, serve, answer | A client times out while its request is queued. Nothing is lost or answered twice |
| Saved state `state.rs`, `display.rs`, `show.rs`, `metrics.rs` | `display.json` | load, change, apply, save | Load and save are far apart, in several processes. The file says what the display shows |
| Transfers `media.rs`, `tui/worker.rs` | a staged file, its key | stage, push, show, replace, done | Every step may fail or be the last; others change the same names and encodes. No part is taken for the whole, a replacement is all or nothing |
| Journal and kept encodes `ops.rs` | `operations.json`, `encodes/` | begin, finish, keep, discard, retry, clear | Whole-file rewrites without a lock, eviction. The journal says nothing false |
| KANALI link `kanali.rs`, `tryx-kanali` | the leased overlay; tracks, the receive buffer | bootstrap, execute, keepalive, transfer | Answers interleaved with events and late answers. A reply belongs to its request |
| Legacy link `tryx-legacy` | the port's buffer | drain, send, read | Replies carry no correlation |
| Frames `tryx-proto/src/frame.rs`, `tryx-legacy/src/frame.rs` | the decoder's buffer | encode, decode | Noise and truncation; the decoder resynchronises and loses no whole frame |
| Overlay `tryx-kanali/src/overlay.rs` | none | layout, batch | Two computations that must agree on ids. What is pushed reaches what is leased |
| Session selection `legacy.rs`, `tryx-device` | what is on the bus; the daemon's display | discover, select, connect | Two owners of one port, and a display named that is not the daemon's. A command acts on the display it names |
| Terminal interface `tui/app.rs`, `tui/worker.rs` | list, prompt, wizard, pictures; two queues; the worker's connection and transfer | draw, drain, keys; refresh, delete, analyse, upload, cancel, quit | Results that arrive after the selection has moved, queues that fill. What was asked for comes or is refused, what was named is what is deleted, the interface can be left |
| Player `tui/player.rs` | the child, two pipes, three flags, shared memory | pump, draw, stop, drop | A thread that blocks on a child that blocks; names that repeat. Frames travel once, no memory is left, a drop returns |
| Media checks and encoding `tryx-media` | a source, its report, its plan, an output | check, plan, encode, verify | Findings that combine, and a verification that must ask for what the plan promises. What leaves is playable; what was prepared is not prepared again |
| Monitor `tryx-monitor`; doctor, output, command line | none | - | Reading the host; no control |

Components interact in four ways: a command calls the daemon through its
socket and waits; the daemon and every command read and write `display.json`;
every command that transfers reads and writes `operations.json` and the kept
encodes; and commands that transfer over adb reach the display's files without
the daemon.

What must hold, in one sentence each:

- Daemon: the status is true, a link is given up for a cause only, a dead one
  is dropped, a live one is found again, and a suspend is repaired.
- Requests: each is answered once, in order, even if its client has gone.
- Saved state: what is saved is what was applied.
- Transfers: the display has the old file or the whole new one, an encode is
  sent whole or not at all, and the journal tells the truth.
- Links: a reply is taken for the answer to the request it answers, a frame is
  found as it was sent, and what is pushed reaches what is shown.
- Selection: a command changes the display it names, or none.
- Media: what is sent is something the display plays.
- Terminal interface: what is shown belongs to what is selected, what is asked
  for arrives, and no thread waits for ever.

## 2. Modules

| Module | Models |
|---|---|
| `Service` | what a client of the daemon may rely on, abstractly |
| `Daemon` | the daemon's loop, its link, its timers, its clients |
| `MCDaemon` | small instances of it |
| `DaemonProofs` | theorems about it |
| `Transfers` | transfers, the journal and the kept encodes, by several processes |
| `MCTransfers` | small instances of it |
| `TransfersProofs` | theorems about it |
| `KanaliSession` | the calls of `Device` on a current display, request by request |
| `MCKanaliSession` | small instances of it |
| `KanaliSessionProofs` | theorems about it |
| `Selection` | discovery, the products, and the choice between the daemon and a display at hand |
| `Settings` | `display.json` with all its settings, and all that reads, changes and saves it; extends `Selection` |
| `MCSettings` | small instances of it |
| `SettingsProofs` | theorems about it |
| `Serial` | the calls of `Client` on a legacy display, with frames in pieces |
| `Frames` | both frame formats, byte by byte, as functions |
| `Overlay` | the layout of an overlay and the batches of its values, as functions |
| `MCWire` | an instance of `Serial`, and inputs for `Frames` and `Overlay` |
| `WireProofs` | theorems about `Serial`, `Frames` and `Overlay` |
| `Media` | one file checked, planned, encoded, verified and wrapped |
| `MCMedia` | the sources and options it is run on |
| `MediaProofs` | theorems about it |
| `Tui` | the interface and its worker: two threads and two queues |
| `MCTui` | small instances of it, with four kinds of users |
| `TuiProofs` | theorems about it |
| `Player` | playback in the preview pane: ffmpeg, the pump, the redraw, the terminal |
| `MCPlayer` | a small instance of it |
| `PlayerProofs` | theorems about it |

### Daemon

The loop of `run` (daemon.rs:149-245) is one thread, and `pc` names its next
step. A turn is `recv_timeout`, returning a request (`Receive`) or a timeout
(`Expire`); a restore if the wait overran by `RESUME_GAP` (`Overran`, `Wake`);
and then one request (`Handle...`) or the timers' work (`Open`, `OpenFails`,
`Keepalive`, `Push`). Between any two steps the display may be unplugged,
plugged in again as another product, or stop answering, the host may sleep,
and clients may send, give up, or write their reply's state back.

| Variables | In the code |
|---|---|
| `owned`, `alive` | the open backend; `alive` is the truth about it, which the code learns only by using it |
| `lease` | `Link::overlay` in kanali.rs: what keepalives lease and metrics are pushed to |
| `status` | `DaemonStatus`: connected, the screen, last_error by its cause |
| `silent`; `streak` | `silent_pushes`; a history variable that counts failed pushes on this link |
| `due` | the deadlines that have passed; time itself is not modelled |
| `slept`; `stale` | the measured wait was too long; a history variable: nothing applied since a suspend |
| `disk`, `saved`; `unsaved` | the screen in display.json; the copy `restore` works on; a history variable: the save of the last screen applied failed |
| `queue`, `current`, `call` | the channel, the request in hand, and the clients |

Screens are model values that differ in what decides the code's path: whether
they select media and whether they have an overlay. An outcome of the link is
`ok`, `silent` (a timeout), `declined` (an answer, but a bad one) or `gone` (an
error of the port); the outcomes possible depend on whether the link is alive
and on the display's mood, which is well, flaky or mute. Requests are grouped
by what they do to the daemon: `status`, `command` (nothing), `set` (a setting
other than the screen), `apply` (a screen), `reboot`. Any save of display.json
may fail, the daemon's (daemon.rs:306, 402, 411) and a client's: nobody looks at
the result, and the file is left as it was (`Save`).

`Service` is the promise to clients: requests are answered in the order they
arrive, each at most once, and all but a status are refused while the display
is away. `Promise` maps the daemon to it (the request in hand is still the
first in line), and the run `daemon_requests` checks that every step of the
daemon is a step of the service or none.

### Transfers

Every process that transfers is a record in `proc`; `pc` follows
`Transfer::stage`, the push, and `Transfer::done` (media.rs:601-710), with the
journal's loads and saves as steps of their own, so that any other process may
come between. A process may die at any step (`Crash`). `front` says whether
the command line or the terminal interface runs the transfer; the two differ
in what they accept, in what a retry keeps of the flags, and in which failures
they report (`Leave` and `GiveUp`).

| Variables | In the code |
|---|---|
| `journal` | operations.json: id, what is needed to run the transfer again, outcome, whether an encode is kept |
| `cache` | `encodes/`, by cache key: absent, partial or whole |
| `files` | the files on the display: which transfer wrote each, and whether it is whole |
| `inputs` | the sources that still exist |
| `oneDisk` | whether the temporary directory and the encodes share a file system, so that `keep` can rename |
| `proc` | the processes, each with its staged file and its copy of the journal |
| `ended` | a history variable: how each transfer really ended |

A save is one step: it writes a temporary file and renames it. It may fail,
which the code ignores, and two saves that overlap write the same temporary
file and may leave a journal that reads as empty; both are in `Save`. The list
that says whether a name is free is read when a transfer starts, long before
the push; the push itself is two steps, so that two pushes of one name
overlap, and who opened the name last owns it (`Landed`).

### KanaliSession

A call of `Device` (tryx-kanali/src/lib.rs) is a `job`: the requests it sends,
in order (`Plan`), and the one it is at. A request that has a reply is
`execute` followed by `receive` or `NoResponse`; a request written without a
wait is `write_only`. Bootstrap is a job of three requests whose replies are
matched by kind, not by track, as `read_bootstrap` does, and whose last two
may fail. Between any two steps the display may serve the request at the head
of its pipe, refuse it, leave it unanswered, send an event or a frame that
cannot be read, or be replugged; and the process may end, with the next one
finding what the pipes still hold.

| Variables | In the code |
|---|---|
| `open`, `job` | a process has opened the display; the call of `Device` it makes, its arguments, and the configuration `apply` has queried |
| `call` | the locals of `execute`: the request, its track, the frames skipped so far |
| `toDisplay`, `toHost` | the two USB pipes, each a FIFO; what the host has read into its buffer is still in `toHost` |
| `config` | the display's user configuration |
| `incoming`, `store` | the transfer it is taking; the last file it kept (the display is external, modelled from what the code sends it) |

Each tracked request and each reply to it carries a `number`, which no code
reads, next to its `track`, which is all that the code compares. The two are
equal where tracks are random; on a Turris all transfers share one track.
`next_track` draws a track that no frame on its way has: that random tracks
never repeat within the life of a frame is an assumption. `drain` drops any
number of the oldest frames, since what has arrived within its 20 ms is not
known. A timeout may happen at any moment of a wait.

The settings of a change are grouped by what `apply` does with them: those its
readback compares (`Compared`) and those it does not. A media selection and
its play mode are one setting, because the only caller that changes one
changes both (`change_from`, tryxctl/src/kanali.rs:197).

### Selection and Settings

`Selection` is the bus and the choice: a display on the bus is a record of the
ids and interfaces that discovery looks at, `Candidates`, `ready` and
`kanali_select` are the KANALI side, `Session::connect` asks the daemon first
and falls back to a display at hand, and `daemon_owns_target` is the check
that a command which names a display does not act on the daemon's.

In `Settings` every command that changes a setting, the daemon's restore and
the changes of the terminal interface are jobs: a list of steps (`load`,
`connect`, `apply`, `brightness`, ..., `open temp`, `write temp`, `rename`), in
the order of the code, which may be refused, fail at any request, be unable to
save, or die between any two. The daemon's jobs have a save of their own, which
comes before it answers.

| Variables | In the code |
|---|---|
| `bus`, `daemon` | what is plugged in; the display the daemon holds |
| `file`, `temp`, `fd` | display.json, display.json.tmp (without what an abandoned save left in it: the next save empties it), and which of the two an open file now is |
| `display` | what each display shows; a legacy display forgets it with its power |
| `ui` | the copy of the screen that the interface reads once, when it starts |
| `job` | per process: the steps it has to do, what it loaded, what it has sent |
| `unsure` | a history variable: the settings that were not applied *and* saved since the display, or a request for another setting, last lost them |

A setting is content (media, or a preset, which wins), `look` (everything else
of the screen: labels, layout, filter), brightness, rotation, or fan speed. A
legacy display takes a state in several requests and may fail between them
(`Partial`). On KANALI the labels are an overlay, and a request for a brightness
or a rotation is activated with the overlay the link leases, or with an empty
one, which takes the labels off the display (`LooksLeft`, `Bare`, `Tune`;
tryx-kanali/src/lib.rs:345, 383-401). The daemon and the interface lease theirs
again within seconds, so over them the labels may be seen or not.

### Serial, Frames and Overlay

In `Serial` a call of `Client` is a script of requests, each drained for,
written and, but for sysinfoDisplay in `apply_screen`, waited for. Nothing in a
reply tells which request it answers. A frame is three pieces (marker, text,
marker), and the line, a drain, a read and a timeout may each cut it. The
display takes requests in order and answers each or not, at any time.

`Frames` has what `Serial` and `KanaliSession` take for granted: `escape`,
`wrap`, `take_frame` and `parse_response` of the legacy format with its
checksum, and the length-prefixed format of KANALI with both ways in which its
reader finds the next header in noise. Bytes are bytes, and the constants are
the program's. The functions are not recursive operators but folds and
recursive functions, so that they can be proved about.

`Overlay` follows a saved screen to the layout that keepalives lease
(`overlay_from`, `run_config`) and to the batches that are pushed
(`metric_batch`), which name labels by ids that the layout must have. The date
that a clock shows is `civil_from_days`.

### Media

One command on one file: `analyse` makes the report (check.rs) and the plan
(plan.rs), `Copy` or `Run` carries it out, `finish_stage` verifies and wraps.
A file is the record of the facts ffprobe tells of it that any decision looks
at: container, codec, profile, level, pixel format, size, aspect, rotation,
rates, B-frames, audio, HDR, frames and times. `File` is the set of all such
records, and `SourcesAssumption` says what ffprobe cannot tell: that an image
container (webp, gif) holds a PNG or a JPEG. ffmpeg is external: `Run` gives
the file that the command line of the plan asks for, including what it does
when a cover comes first or no frame is in the range.

### Tui

Two threads: the loop (`ui`: draw, drain the events, take one key) and the
worker (`step`: connect, idle, encode, push, over), and a queue in each
direction. What the loop shows is what the events it has drained say, matched
by a key of its own making (`Thumb`, `wizard_key`).

| Variables | In the code |
|---|---|
| `tab`, `files`, `selected`, `operations`, `prompt`, `wizard`, `upload`, `pushing` | the fields of `App` of those names |
| `previews`, `preview_order`, `preview_failures`, `preview_requested` | the cache of pictures; a picture is the size of the file it was made of |
| `requests`, `events`, `cancel` | the two channels, and the flag that ends an encode |
| `connection`, `adb`, `metrics`, `transfer` | the worker's connection, whether it has adb, whether it pushes metrics, the record of the transfer it runs |
| `target`, `device`, `journal` | what a display is known to be, the files on it, operations.json |
| `user` | which keys this user presses |
| `unjudged` | history: the choices of the wizard whose last analysis ended in an error |

An analysis gives a verdict or an error. The error comes without ffmpeg or
ffprobe, which are looked for at each one (tui/worker.rs:592), for a transform
that the options refuse (`Invalid`: a zoom outside crop), and without a
connection.

Events that change only a line of text (status, sample, fans, devices) and
keys that change only what is drawn are left out; showing, overlays and display
settings are in `Settings`, playback in `Player`.

### Player

ffmpeg writes frames to one pipe and errors to another; the pump thread reads
the first, a piece at a time, keeps the newest frame, and reads the second when
playback is over. The redraw shows a frame it has not shown, and in a terminal
that reads shared memory puts it into an object and sends the name. The
terminal reads what it was sent in its own time and unlinks the object.
Dropping the player unlinks what is left, raises `stop` and joins the pump.

## 3. The runs

Passing runs:

| Run | Question | Bounds |
|---|---|---|
| `daemon_safety` | Is the status true, is a link lost for a cause, is what is saved what is reported? `TypeOK`, `StatusTellsTheLink`, `SavedIsReported`, `LinkLostForCause` | 1 client, 3 products, 3 moods, all kinds, 2 screens, limit 3 |
| `daemon_requests` | Are requests accounted for, and is the daemon the abstract service? `RequestsAccounted`, `ServesClients` | 2 clients, 2 products, 2 moods, limit 2 |
| `daemon_live` | Does what must happen happen? `EveryRequestServed`, `DeadLinkDropped`, `Reconnects`, `WakeRestores` | 1 client, 2 products, 2 moods, limit 2 |
| `transfers_safety` | Does the journal tell the truth, is what is sent whole, is a replacement all or nothing? `TypeOK`, `JournalTells`, `SentIsWhole`, `ReplaceLeavesOldOrNew` | 2 processes, 2 transfers, KEEP 1, 4 jobs, 1 name |
| `session_safety` | Is a reply taken for the answer to its own request only; does a change revert nothing; is what is reported applied or uploaded so? `TypeOK`, `AnswersItsRequest`, `OnlyTheChange`, `ApplyConfirmed`, `UploadWhole` | 3 tracks, 1 frame to the display, 2 from it, 1 skipped frame, 2 files of 2 chunks, 2 settings, 3 changes |
| `settings_safety` | Is display.json readable, does it tell what the displays show, is a change a change of one setting, is the display the one that was named? `FileReadable`, `FileTells`, `OthersKept`, `ActsOnNamed` | 4 buses with both firmwares, 1 job at a time, 3 jobs of 16 kinds, 1 or 2 values of a setting |
| `wire_safety` | Was what is reported done; do frames and values arrive? `AnsweredMeansDone`, `FramesArrive`, `ValuesArrive` | 6 requests; texts of up to 3 of 5 bytes and two long ones; 2 payloads behind garbage in 2 reads; 4 labels in up to 2 halves; 3600 days |
| `media_safety` | Is what is sent playable, is preparing a fixed point, does strict change nothing, does verification ask for what the plan promises? `SentIsPlayable`, `Settled`, `StrictIsUntouched`, `VerifiesWhatItPlans` | 6 well-known files that differ in up to 2 facts, options in up to 2, 3 targets, names of up to 4 characters |
| `tui_safety` | Is what is asked for on its way, what is shown true, what is deleted what was named; is the verdict in the wizard the one of its choice; can an encode be cancelled and the interface left? `RequestedIsComing`, `SettledIsTrue`, `VerdictIsOfTheChoice`, `DeletesWhatWasAsked`, `CancelEnds`, `QuitEnds` | 4 kinds of users, 2 names, 1 path, 2 transforms (one fits, one does not), 1 picture cached, 2 requests, 3 events, 2 transfers |
| `player_safety` | Do frames travel once, is no memory left, is a failure reported, does a drop return? `NoObjectLeft`, `OncePerFrame`, `FailureReported`, `DropReturns` | 3 kinds of terminal, frames of 2 pieces, pipes of 1, 4 names, 2 kept, 4 frames, 2 unread |

Why the bounds are enough:

- The loop is one thread, so one client already interleaves with everything
  it does; order and accounting need two. All three products are in the run
  that asks about the link. A limit of 3 leaves a failure below the limit on
  each side of a replug, which is what a stale count would need; 2 is the
  least that has a failure below the limit.
- Two processes are what it takes for one to save over the other. Both of two
  transfers may use the same key and name, and the second may be a retry of
  the first. A KEEP of 1 makes the second transfer evict the first, and a
  record whose transfer still runs is evicted, too. `MaxTransfers` and
  `Keep` are the only caps; without the first the ids would grow for ever.
- In `session_safety` the number of calls is not bounded: a track is used
  again once no frame has it, and three are all that can be on their way at a
  time (the pipes hold one and two). One frame to the display still allows a
  request that was given up to be served during a later call, and two from it
  hold a late reply and the right one in either order of looking at them.
  `MaxSkipped` 1 has a frame below the limit and one above it. Two chunks have
  a first, a last, and an order. One change is of a compared setting, one of
  another, and one of both that is also unfit.
- In `settings_safety` three jobs are what it takes for one to change a
  setting, a second to change another on another display, and a third to load
  what they left. Two displays of one firmware, and one of each, are all that
  the choice distinguishes. It runs one job at a time: what two at once do is a
  disagreement (section 5), and `MCSettings_two.cfg` shows it.
- Six requests in `wire_safety` are one `apply_screen`, two calls of three
  requests, or a call that was given up, with others after it. The bytes that matter to the legacy
  frame are the marker, the escape, the two that follow an escape, and any
  other; a text of 85 or 86 makes the length a marker. Garbage is every proper
  part of the magic, and magics before what is no header.
- The sources of `media_safety` differ from a file that is known to work in two
  facts, the least that lets one finding hide another; options likewise.
- In `tui_safety` a cache of one picture is full at once, two files give the
  cursor somewhere to move, and queues of two and three are full while a
  handler that sends several waits. The kinds of users split the keys so that
  each of their interactions is in one instance: who cleans up, who tries
  settings, who transfers and retries, who looks at the metrics. `Invalid`
  is empty, which loses nothing: any analysis may end in an error, which is
  what the options do to a transform they refuse, and `JudgedAsChosen` is for
  any `Invalid`.
- In `player_safety` 4 names and 2 kept objects keep the ratio of 16 and 8 and
  let names repeat. `Noisy` is FALSE: that a drop returns is claimed only of an
  ffmpeg that reports nothing while it plays (section 5).
- `daemon_requests`, `transfers_safety` and `session_safety` treat clients,
  processes and files as symmetric; none of their properties is a liveness
  property or names one.

`daemon_live` assumes, of the specification `Spec` of `Daemon`: weak fairness
of the loop's own steps (`Loop`: a thread that can run does, and every wait
for the display has a timeout), and strong fairness of each deadline and of
the timeout of `recv_timeout` (`Elapse`, `Expire`). The strong fairness is an
assumption about clients: the timeout happens only when the queue is empty,
and clients that kept the queue full without pause would starve the timers. A
client waits for its reply before it asks again, so with one client the queue
is empty at every other turn. `Reconnects` further assumes that the display
stays plugged in and answers, and that nobody keeps rebooting it. Nothing is
assumed of the display or of the clients.

`Spec` of `Tui` assumes weak fairness of what the threads do of their own accord
only: the loop draws, drains and goes on without a key, the worker takes a quit
that is next in its queue, and the join then returns (`Fairness`). Whatever else
the worker does may wait for a program, without a timeout: adb when it connects,
lists, removes, pulls and pushes (tryx-legacy/src/adb.rs:240-268), ffprobe when
it analyses (tryx-media/src/probe.rs:236), ffmpeg when it makes a picture
(tryxctl/src/tui/preview.rs:80). That these return is an assumption about the
programs and the display, and a premise of the property that needs it:
`QuitEnds` holds if they do (`CommandsReturn`: of connecting, of every handler,
and of the push) and if no encode goes on for ever (`EncodesEnd`). An encode
that never ends, or an adb that hangs, keeps the interface. `CancelEnds` has the
premise that ffmpeg writes its progress (`FfmpegWrites`), which it is asked to:
the flag is read with every line (tryx-media/src/encode.rs:72). Nothing is
assumed of the user. `player_safety` assumes
that the pump runs, that a join that can return does, and that ffmpeg writes
where a pipe has room.

Two runs show a disagreement, each with one property: `turris_upload` and
`convert_in_place`. The configurations that no run of `PROJECT.json` uses show
the rest of section 5 in the same way: each has the smallest instance that
has it, and TLC ends with a counterexample. To run one:

    tlc -workers 2 -config MCDaemon_lease.cfg MCDaemon

`Player`, `Tui`, `Settings`, `Media` and `Serial` have a type invariant
(`TypeOK`) that is in no listed run: it is proved (`TypeCorrect` of each).
`Daemon` and `Transfers` define an invariant of their proofs (`LoopInvariant`,
`TransferInvariant`); adding one to a configuration checks it.

Every property of a passing run is also checked against a mutant of the code
it is about: an off-by-one in the limit (`LimitPassed`), counters carried to
the next link (`CarryCounters`), a push after a keepalive that lost the link
(`PushUnlessNotDue`), a client that saves after a refusal
(`WritesRegardless`), a reply that forgets an abandoned request
(`ReplyToWaiting`), requests taken newest first (`TakeNewest`), timers served
before requests (`RequestLast`), a USB link that is never lost
(`LostOnSerialOnly`), no reconnect timer (`WatchedWhileOpen`), a suspend
noticed only on a timeout (`OverranIdle`), a journal that is not trimmed
(`KeepsAll`), an outcome written to the newest record (`MatchesNewest`), a
`keep` that always copies (`CopiesAlways`), a replacement that does not
check the size (`SizeIgnored`), an off-by-one in the limit of skipped frames
(`OneMore`), one track for all requests (`FixedForAll`), replies taken without
a look at their track (`IgnoresTracks`), a readback that is not compared
(`NotCompared`), a transfer whose status is not checked (`AnyStatus`), a failed
save that is renamed all the same (`Ignored`), the default
brightness sent to a legacy display in place of the saved one (`Unlit`), a change that starts from the defaults
(`Afresh`), the daemon taken whatever display is named (`AnyDaemon`), a request
written without a drain (`Undrained`), a reader that keeps no part of a magic
at the end of its buffer (`NothingKept`), a batch without the offset of the
right half (`Unshifted`), a rewrap preferred to an encode (`RewrapFirst`), a
name trimmed before it is cut (`TrimmedFirst`), `--strict` that minds what needs
a decision and no other work (`MindsDecisions`), a zoom that is not
validated (`AnyZoom`), a picture evicted but not forgotten (`KeepRequested`), an
upload that ends without its last event (`Silently`), a wizard that asks for
no verdict when the picture is there (`AskOnce`), a delete of what is under the cursor
(`SelectedNow`), an encode that does not look at the flag (`Unheard`), a quit
that is not sent (`NoSend`), objects that are not unlinked (`LeaveThem`), a
frame drawn again (`AnyFrame`), a failure reported only when stopped
(`ReportWhenStopped`), and a pump that does not look at `stop` (`NeverStops`).
TLC finds each property violated by its mutant.

## 4. The theorems

Each holds for every value of the constants that satisfies the named
assumptions of its module: any set of clients or processes, any screens,
products, moods, media and names; any positive `SilentLimit` and `Keep`; any
settings, changes and files; any size of pipes, queues, caches and files; any
limit of skipped frames; any displays, buses and jobs; any file that ffprobe
can describe, with any options. The bounds of section 3 are not used. Three
groups have a hypothesis besides, because without it TLC refutes them
(section 5): it is part of the statement, and is named below.

Most invariants are not inductive as they stand, and each module has one that
is and implies them.

`DaemonProofs`:

- `Invariance`: `TypeOK /\ LoopInvariant` is inductive. Neither is by itself:
  that `silent_pushes` stays below its limit needs to know that a push happens
  on a link and that the counters are this link's; that a request in hand has
  a connection needs to know which step a restore returns to.
- `TypeCorrect`, `StatusTrue` (`StatusTellsTheLink`) follow from it.
- `LostForCause` (`LinkLostForCause`), an action property, from it: a push
  that drops a live link does so at the limit, where `silent = streak`.
- `NothingLost` (`RequestsAccounted`): a second inductive argument on top of
  the types, about the queue as a sequence without repetition.
- `SavedAsReported` (`SavedIsReported`) while at most one client has an apply
  or a set under way (`OneChange`); any others may ask anything else. With one
  client this is always so. The invariant `Agree` says that the file, the copy
  that a restore works on, the screen of the status, and the screen that a
  client will write back are one and the same, unless the daemon applied a screen and
  could not save it (`unsaved`): that file is then behind the status until the
  next apply, and nothing says so. A save of a restore or of a client that
  fails breaks nothing. Two changes that overlap break
  it, as `MCDaemon_two_clients.cfg` shows.
- `Serves` (`ServesClients`): the daemon implements `Service`, step by step and
  for any number of clients. The service's queue is the daemon's with the
  request in hand in front; that no request is in it twice (`NothingLost`) is
  why an answer removes the first and no other.

`TransfersProofs`:

- `Invariance`: `TypeOK /\ JournalTells /\ TransferInvariant /\ SentIsWhole`
  is inductive. `JournalTells` alone is not: a process may save a copy of the
  journal that is arbitrarily old. `TransferInvariant` says that such a copy
  contradicts nothing either, because a transfer's end is decided once, by
  the one process that has its id, and what that process will write is how it
  ended. Nearly all steps change one process and at most decide its own
  transfer; the lemma `OneProcess` proves the invariant for any step of that
  form, and the lemmas about the actions show that they have it.
- `TypeCorrect`, `JournalTrue` (`JournalTells`), `SentWhole` (`SentIsWhole`)
  follow from it.
- `ReplaceAtomic` (`ReplaceLeavesOldOrNew`), an action property: only the
  step that renames touches the name, after it has seen the size of the copy
  and, by `SentIsWhole`, with a copy of the whole.

`KanaliSessionProofs`:

- `Invariance`: `TypeOK` with three more parts is inductive. `JobOK` says that
  a call waits for the step its job is at; `PipesOK` what a frame carries; and
  `NumbersOK`, for random tracks, that in every frame the track is the number
  and that a frame with the number of the request that is waited for is that
  request or a reply to it. The last is inductive because a new number is in
  no frame on its way, and what the display answers repeats the number it got.
- `TypeCorrect` and `OwnReplies` (`AnswersItsRequest`, on every product but
  the Turris) follow from it. On a Turris the property is false, and
  `turris_upload` shows what comes of that.
- `InOrder`: `Orderly` is inductive on top of that. The display takes requests
  in the order they were written, so with random tracks a reply that is
  accepted leaves no request on its way; hence what the display has, from the
  configuration to the chunks of a file, is what the call has got through
  (`ReadyOK`, `WaitOK`, `DoneOK`), and a configuration on its way is the only
  one and differs from the display's in its own change alone (`WritesOK`).
- `ChangesOnly` (`OnlyTheChange`, an action property), `AppliedIsThere`
  (`ApplyConfirmed`), and `UploadedIsThere` (`UploadWhole`, on every product
  but the Turris) follow from `Orderly`.

`WireProofs`, of the serial link:

- `Invariance`: the types, and `Clean`: in a call that begins with nothing owed
  and waits for all its replies, nothing is on its way when a request is
  written. So all that can be read afterwards are pieces of one frame, that of
  the request, however the line, a drain and a read have cut it (`OneFrame`);
  and a frame is found only when its last piece has been read.
- `TypeCorrect` and `NoReplyForAnother` (`AnsweredMeansDone`) follow from it.

`WireProofs`, of the frames, for every text, payload and piece of garbage:

- The functions of `Frames` are recursive, or folds. The library's theorems on
  induction take an operator, which the provers cannot instantiate, but the
  induction behind them is a fact about sets (`WFMin` with the order of the
  naturals), and a set of numbers will do (`NatSetInduction`). With it,
  `Recursion` says that a function which calls itself only on arguments of a
  smaller measure exists; each function of `Frames` is one, by the length of
  the buffer, hence obeys the equation that defines it (`UnescapeIs`,
  `DiscardIs`, `ReadIs`, `CrcUnfolds`). The rest is induction on lengths.
- `EscapeThenUnescape`, and no marker is left by escaping (`EscapeType`). So
  the first marker opens a frame and the next one closes it:
  `LegacyFramesArrive`, for any bytes that are no markers in front and any
  bytes behind; no piece of a frame is taken for one.
- A head is plausible or not by its eight bytes alone. So where the first frame
  may start is not changed by what comes later (`FirstStays`), and what
  discarding keeps is the buffer from there (`FirstFound`). Hence keeping only
  that loses nothing, and a frame that is whole stays so (`WholeStays`):
  `AnyPieces`, reading in two pieces is reading in one, for any bytes at all.
- `NextFrame`: garbage in which no frame starts is skipped, the frame is read,
  and the rest is read as if alone. Twice, with `AnyPieces`, that is
  `KanaliFramesArrive`; the garbage may end in the start of a magic or hold a
  head whose length is not plausible, as long as the bytes of the frame behind
  it do not make it one (`Garbled`).
- `EveryFrameArrives` (`FramesArrive`): each input of the run is an instance.

`WireProofs`, of the overlay, for every screen that may be saved (up to three
labels and any list of the two badges, in one or two halves, waterfall or not):

- What is selected of a half is a list without repeats, of three at most, and of
  all the metrics asked for when no more than three labels are (`SelectedIs`):
  the elements of a set of numbers are counted by their ranks (`Ranks`).
- A metric's labels are three numbers given by its place in the catalogue, plus
  100 in the right half (`LabelsAre`), so those of two metrics, of two halves,
  and those of badges are different. The heights at which one, two or three
  metrics are put leave 160 between them and the badges above (`DownFits`); the
  halves are beside or, on the turned canvas, below one another (`HalvesApart`).
  Hence `LayoutPlaced`.
- A batch is the updates of the metrics one after the other: the induction along
  `FlattenSeq` keeps labels different and loses none (`FlattenGathered`). Each is of
  a metric that is selected, hence of a group that the layout has
  (`UpdatePlaced`), and each value known is there once for each half that asks
  for it (`BatchReaches`). Together: `OverlayReached`, whatever is known.

`WireProofs`, of the date, for every day of the integers: a day is the one of an
era of 400 years, a century, four years, a year and a day in it, counted from
March (`DayFound`), and `civil_from_days` finds those (`DateFound`). The next day
is the next of that year, or the first of the next year, which is where a leap
year ends (`SameYear`, `NextYear`): `Calendar`. With `OverlayReached` it gives
`EveryValueArrives` (`ValuesArrive`): each input of the run is an instance.

`SettingsProofs`:

- `TypesHold` and `TypeCorrect`; `OnTheNamedDisplay` (`ActsOnNamed`), an action
  property: of any number of processes at once, on any bus, whatever is plugged
  in, taken or refused between two steps.
- `Invariance`, `Readable` (`FileReadable`), `Telling` (`FileTells`) and
  `OthersAreKept` (`OthersKept`) while one job runs at a time (`OneAtATime`;
  any number of jobs in turn, which may fail or die anywhere). For one process
  this is always so; `MCSettings_two.cfg` shows two that lose a setting. The
  invariant `Alone` relates, at each step of the only job at work, what it has
  loaded and sent, what the displays show and what it has yet to do. That the
  steps come in an order in which it can hold is a property of lists of steps,
  and of all their tails (`Proper`), proved for every kind of job. A request for
  one setting may lose the look of the display (`Tunes`); that the same job has
  not sent a look before is why nothing it has sent is lost.

`TuiProofs`:

- `Shown` is the inductive invariant: `Types`; `Linked`, that a worker with the
  daemon does push metrics; and three parts about the two queues. What the loop
  shows need not be right, but it will be once the requests on their way have
  been answered and the events drained. `Coming` says that a picture waited for
  is named in one of the queues; `Told` and `Judged` that the last event about
  a subject says what is so (`Tells`), or that a later request about it will
  have that answered, for pushing and uploading, and for the verdict in the
  wizard. A handler is in the proof by what it says on a subject (`AnswerTo`).
- `TypeCorrect`, `AskedAsNamed` (`DeletesWhatWasAsked`, an action property),
  `PicturesComing` (`RequestedIsComing`) and `SettledAsItIs` (`SettledIsTrue`)
  follow from it.
- `JudgedAsChosen` (`VerdictIsOfTheChoice`): once everything is answered, the
  verdict shown is the right one of the choice shown, unless the analysis of
  that choice ended in an error. It holds whatever the options refuse, and
  whether ffprobe is there or comes and goes; `MCTui_zoom.cfg` shows what an
  error leaves on the screen.

`PlayerProofs`:

- `Invariance`: the types, `NoObjectLeft`, and `Ordered`, that the frame shown
  is never newer than the newest, are inductive together: an object is in the
  list that the trim and the drop go through, or the terminal has unlinked it.
- `TypeCorrect`, `NothingLeft` (`NoObjectLeft`), and `InOrder` (`OncePerFrame`),
  an action property, follow from it. How slowly the terminal reads is not
  assumed.

`MediaProofs`:

- `Invariance`: at each stage, what is known of the file. The proof goes the
  way of the code. A report without a finding of a kind says something of the
  file (`Compliant`, `Contained`); a plan without an encode therefore starts
  from a file that a display plays as it is or rewrapped (`RewrappedPlays`); a
  file that ffmpeg encoded as the plan asks plays and is what `verify` expects
  (`EncodedPlays`, `EncodedVerifies`), for which the arithmetic of
  `cover_viewport` must give a viewport that fits in the picture
  (`ViewportFits`).
- `TypeCorrect`, `Playable` (`SentIsPlayable`), `StrictKeeps`
  (`StrictIsUntouched`) and `AsPlanned` (`VerifiesWhatItPlans`) follow from it.
- `NameSettles`: what `sanitize_stem` makes is a name that a display takes, and
  it gives such a name back as it is. Its loop is a fold; that the fold obeys
  the loop is the same existence of a recursive function as for the frames, and
  is followed by induction on the characters, from the first one on: no dash
  starts the text or follows a dash (`Neat`), hence nothing is dropped from
  it a second time; the cut and the trim leave a solid character at both ends
  (`Tidy`), so a second cut and trim leave it all.
- `FixedPoint` (`Settled`): a file that passed, was rewrapped or was encoded for
  a cm01 display has no finding that is not fine (`Ready`), and keeps its name.

What is only model-checked, and why:

- `EveryRequestServed`, `DeadLinkDropped`, `Reconnects`, `WakeRestores`,
  `CancelEnds`, `QuitEnds`, `FailureReported` and `DropReturns` are liveness
  properties: the prover has no fairness.

## 5. Disagreements

`turris_upload` and `convert_in_place` are runs of `PROJECT.json`. The others are configurations to run by hand, and are named by
them.

- `MCDaemon_mute_legacy.cfg`. On the legacy firmware a push without a reply is a success
  (tryx-legacy/src/lib.rs:243): it clears the count that daemon.rs:30 calls
  "Silent pushes in a row before the link is presumed dead". A display that
  never answers keeps its link for ever, and the status says connected,
  without an error.
- `MCDaemon_dead_turris.cfg`. The Turris is sent nothing by keepalives
  (tryx-kanali/src/lib.rs:434) and has no overlay to push to, so a daemon
  whose clients are quiet never learns that it was unplugged, and does not
  reopen it when it is back, as README.md:196 of the repository says it does.
- `MCDaemon_lease.cfg`. A restore that fails on KANALI leaves nothing leased,
  and the next push, which has nothing to write, succeeds and clears the
  error. The status then reports the saved screen, connected and without an
  error, while nothing of it is on the display (daemon.rs:349).
- `MCDaemon_two_clients.cfg`. A client reads display.json, waits for the daemon, and
  writes all of it back (display.rs:124), and so undoes what another client
  applied and saved meanwhile; the file is then not the screen last applied.
- `MCTransfers_copied.cfg`. When the encodes are on another file system than the
  temporary files, `keep` copies to the final name (ops.rs:224). A copy that
  fails or is killed leaves a part there, which the next transfer of that
  source sends as the whole.
- `MCTransfers_retry.cfg`. `media upload --show` that cannot show what it has pushed
  keeps the encode and suggests `op retry`, which is then refused because the
  file exists (media.rs:785).
- `turris_upload`. All transfers of a Turris share one track
  (tryx-kanali/src/lib.rs:480). A begin that times out and is answered after
  the next upload's drain is taken for the answer to the next begin; the
  refusal of that one is then drained unseen, the chunks go into the earlier
  transfer, and the upload reports success for a file the display does not
  have.
- `convert_in_place`. Without `-o`, `media convert` writes to the name for the
  display in the current directory (tryxctl/src/media.rs:417). For a compliant
  source in that directory this is the source: the passthrough copies a file
  onto itself (tryx-media/src/encode.rs:52), which empties it.
- `MCMedia_cover.cfg`. The stream that is checked is the first that is no
  cover (probe.rs:213); the one that is encoded is the first (plan.rs:212). Of
  a file that begins with its cover, the cover is sent.
- `MCMedia_hdr.cfg`. The report of an HDR source says that it will be
  tone-mapped (check.rs:540); the plan of a still for a cm01 display does not.
- `MCSettings_tabs.cfg`. The Overlay and Display tabs apply and save the screen
  the interface copied when it started (tui/worker.rs:570), and so undo what a
  command showed or changed since.
- `MCSettings_upload.cfg`. `media upload --show` sets the media and leaves a
  preset that is selected (media.rs:877); the display goes on with the preset,
  and the command prints that it is showing the file.
- `MCSettings_labels.cfg`. `display set --brightness` on a KANALI display goes out with
  an empty overlay (tryx-kanali/src/lib.rs:400), and so does a direct rotation
  over a link that leases none: the labels leave the display, while the file
  says they are on it (state.rs:1, "so commands can change one setting without
  resetting the others").
- `MCSettings_two.cfg`. Of two commands at once one undoes the other's change,
  and, since both write display.json.tmp (state.rs:55), with `FileReadable` in
  the place of `OthersKept` the file is left unreadable.
- `MCWire_apply.cfg`. `apply_screen` sends sysinfoDisplay without waiting for
  its reply, which may come after the next drain and be taken for the reply to
  the configuration: the command reports as applied what the display has not
  taken.
- `MCTui_picture.cfg`. The picture of a file is kept in memory by name
  (tui/app.rs:908): after a delete and an upload of the same name the pane
  shows the old file, though the cache on disk tells sizes apart.
- `MCTui_wizard.cfg`. When pictures are evicted the wizard may be left without
  the one it waits for.
- `MCTui_zoom.cfg`. A verdict is matched to the wizard by its path (tui/app.rs:395).
  When the next choice is made before it arrives, and the analysis of that one
  ends in an error, the verdict of the choice before is shown under it and
  stays, and Enter goes by it; app.rs:69 says of the lines "analysis says about
  that choice".
- `MCPlayer_noisy.cfg`. ffmpeg's stderr is read when playback is over
  (tui/player.rs:216). An ffmpeg that fills that pipe while it plays blocks;
  the pump waits for its next frame, the drop for the pump, and the interface
  for the drop.

The model also shows what the code accepts and says nothing about: a journal
in which a record is lost or stays "running" for ever, an encode evicted under
a transfer that will make it again, and an upload that overwrites a name that
was free when it was listed.

## 6. What is left out

In `Daemon`: time, other than as deadlines that pass; what sysinfo and labels
contain; the settings other than the screen and a client that goes to the
display directly, which are in `Settings`; two daemons at once; a display.json
that cannot be read, which a restore takes for the defaults. A suspend
outside `recv_timeout` is in the model, and is not noticed by the code;
`WakeRestores` speaks of the ones it measures.

In `Transfers`: probing and the checks before a transfer starts, which are in
`Media`; dry runs; the reload after a replacement and `--show` on KANALI, which
happen after the journal has been told and change only the screen; stray
files (`.replacing-PID` on the display, temporary files of the host);
deletions that fail; what two copies into one key at once leave there. What adb does with a
push that fails, and with two of one name, is an assumption (`Landed`,
`PushFails`): a part of the file, or none, and the last to open it owns it.

In `KanaliSession`: how frames are cut from the stream (`Frames`), and writes
that are cut short; fields of a message the code does not know, which a write of the
configuration drops; checks that end a call before its first request; the
limit on skipped bytes (the limit on frames is modelled); the text of an
error. The display serves its requests in order and one at a time; that it
does is an assumption about the device.

In `Settings`: the leases of KANALI overlays (`Daemon`), files and transfers
(`Transfers`), the names of hardware, `metrics set --media`, `metrics push` to a
KANALI display, and a restore's errors, which the daemon ignores too. A worker
of the interface connects once; the model chooses when its job starts, which
allows more. A daemon without a display is not modelled.

In `Selection`: parsing of sysfs, and the order of a directory; a display's
place is its name.

In `Serial`: the texts of requests and answers, and a write that is cut short.
In `Frames`: writing, and `complete_plausible_frame_index`, which only tests
use. In `Overlay`: fonts, colours, alignment, texts and formats of values, and
the offset of the time zone. That "Memory Frequency" can be chosen and is
never given a value (`Sampled`) is what the code does.

In `Media`: parsing of ffprobe's output, pictures for previews, the progress and
the cancelling of ffmpeg (`Tui`), the byte layout of MXHD, and the export and
listing of files. What ffmpeg makes of a command line is an assumption (`Run`).

In `Tui`: what is listed under its section. In `Player`: the size of frames,
pixels, colours and escape sequences, and the pace of ffmpeg.

Not modelled at all: the host monitor, doctor, distribution hints, output, and
the parsing of command lines; they keep no state that another component
depends on. The start-up of two daemons at once (daemon.rs:135) is left out.

## 7. Plan

Every safety invariant and action property that a run checks is proved. What is
left:

1. Properties for the hazards that have none: a failed restore that is
   recorded in `last_error` only, and whether a name that was free is still so.
2. The start-up race of two daemons, framing of the daemon's socket, and the
   decisions of doctor.
