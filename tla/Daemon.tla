------------------------------- MODULE Daemon -------------------------------
(***************************************************************************)
(* The long-running `tryxctl daemon` (tryxctl/src/daemon.rs): one main     *)
(* loop owns the link to the display, keeps it alive, restores the saved   *)
(* screen, and serves the requests that client connections queue for it.   *)
(*                                                                         *)
(* The main loop runs in steps, `pc` naming the next one:                  *)
(*                                                                         *)
(*   start -> (restore ->) listen -> recv -> ... -> recv -> ...            *)
(*                                                                         *)
(* where one turn of the loop is recv_timeout followed by an optional      *)
(* restore (the host slept), and then either the handling of one request   *)
(* or the work of the timers that expired.  Between any two steps the      *)
(* display may be unplugged, replugged, or change its mood, the host may   *)
(* be suspended, and clients may queue requests or give up on theirs.      *)
(***************************************************************************)
EXTENDS Naturals, Sequences, FiniteSets

CONSTANTS
    Calls,          \* client connections; each carries one request at a time
    NoCall,         \* no connection is being served
    Screens,        \* screen configurations a client may ask for
    NoScreen,       \* the default screen: no media, no preset, no overlay
    MediaScreens,   \* the screens that select media or a preset
    OverlayScreens, \* the screens with an overlay
    Products,       \* the displays that may be plugged in
    Moods,          \* how a display may answer
    Kinds,          \* the kinds of request the clients send
    SilentLimit     \* SILENT_PUSH_LIMIT

ASSUME CallsAssumption == NoCall \notin Calls
ASSUME ScreensAssumption ==
    /\ NoScreen \notin Screens
    /\ MediaScreens \subseteq Screens
    /\ OverlayScreens \subseteq Screens
ASSUME ProductsAssumption == Products \subseteq {"legacy", "panorama", "turris"}
ASSUME MoodsAssumption == Moods \subseteq {"well", "flaky", "mute"}
ASSUME KindsAssumption ==
    Kinds \subseteq {"status", "command", "set", "reboot", "apply"}
ASSUME SilentLimitAssumption == SilentLimit \in Nat \ {0}

VARIABLES
    device, \* the display: plugged in, which product, how it answers
    disk,   \* display.json
    saved,  \* restore's copy of display.json, while it runs
    unsaved,\* history: the save of the last screen applied failed
    owned,  \* the product behind the open link, "none" without a link
    alive,  \* whether the open link still reaches the display
    lease,  \* Link::overlay: the screen whose overlay keepalives lease
    status, \* DaemonStatus: connected, screen, last_error
    silent, \* silent_pushes
    streak, \* history: failed pushes in a row on the link that is open
    due,    \* the timers that have expired
    slept,  \* the host slept while the loop waited in recv_timeout
    stale,  \* history: the host slept and nothing was applied since
    pc,     \* the next step of the main loop
    after,  \* the step that follows a restore
    queue,  \* the requests sent to the main loop, oldest first
    current,\* the connection whose request is being handled
    call    \* the clients' side: one record per connection

fileVars == <<disk, saved, unsaved>>
linkVars == <<owned, alive, lease>>
pushVars == <<silent, streak>>
wakeVars == <<slept, stale>>
loopVars == <<pc, after, current>>
clientVars == <<queue, call>>
vars == <<device, fileVars, linkVars, status, pushVars, due, wakeVars,
          loopVars, clientVars>>

-----------------------------------------------------------------------------

Timers == {"push", "keepalive", "reconnect"}
Errors == {"none", "open", "restore", "keepalive", "push", "command", "reboot"}
\* The errors that can end a link, or keep one from being opened.
LossErrors == Errors \ {"none", "restore"}
Steps == {"start", "listen", "recv", "restore", "handle", "open",
          "keepalive", "push"}
ScreenVals == Screens \cup {NoScreen}
OverlayOf(s) == IF s \in OverlayScreens THEN s ELSE NoScreen

\* One connection.  An "apply" carries a screen, a "set" changes a setting
\* and leaves the screen, a "command" is any other request to the display.
Calling == [state : {"idle", "waiting", "abandoned", "replied"},
            kind : Kinds \cup {"status"}, screen : ScreenVals, ok : BOOLEAN]
IdleCall == [state |-> "idle", kind |-> "status", screen |-> NoScreen,
             ok |-> FALSE]

\* The type invariant, in the parts its proof goes by.
DisplayType ==
    /\ device \in [plugged : BOOLEAN, product : Products, mood : Moods]
    /\ disk \in ScreenVals
    /\ saved \in ScreenVals
    /\ unsaved \in BOOLEAN
LinkType ==
    /\ owned \in Products \cup {"none"}
    /\ alive \in BOOLEAN
    /\ lease \in ScreenVals
    /\ status \in [connected : BOOLEAN, screen : ScreenVals, error : Errors]
CountType ==
    /\ silent \in 0 .. SilentLimit - 1
    /\ streak \in 0 .. SilentLimit
LoopType ==
    /\ due \in SUBSET Timers
    /\ slept \in BOOLEAN
    /\ stale \in BOOLEAN
    /\ pc \in Steps
    /\ after \in Steps
    /\ current \in Calls \cup {NoCall}
ClientType ==
    /\ queue \in Seq(Calls)
    /\ call \in [Calls -> Calling]
TypeOK == DisplayType /\ LinkType /\ CountType /\ LoopType /\ ClientType

Init ==
    /\ device \in [plugged : BOOLEAN, product : Products, mood : Moods]
    /\ disk \in ScreenVals
    /\ saved = NoScreen
    /\ unsaved = FALSE
    /\ owned = "none"
    /\ alive = FALSE
    /\ lease = NoScreen
    /\ status = [connected |-> FALSE, screen |-> NoScreen, error |-> "none"]
    /\ silent = 0
    /\ streak = 0
    /\ due = {}
    /\ slept = FALSE
    /\ stale = FALSE
    /\ pc = "start"
    /\ after = "recv"
    /\ queue = <<>>
    /\ current = NoCall
    /\ call = [c \in Calls |-> IdleCall]

-----------------------------------------------------------------------------
(* What the link returns.                                                  *)

\* A command that waits for its answer: "gone" is an error of the port or of
\* the USB transport, "silent" a timeout, "declined" an answer the client
\* cannot use.
Outcomes ==
    IF ~alive THEN {"gone"}
    ELSE CASE device.mood = "well"  -> {"ok"}
           [] device.mood = "flaky" -> {"ok", "declined", "silent"}
           [] device.mood = "mute"  -> {"silent"}

\* A write nobody answers fails only when the transport does.
WriteOutcomes ==
    IF ~alive THEN {"gone"}
    ELSE IF device.mood = "well" THEN {"ok"} ELSE {"ok", "silent"}

\* Whether open_backend can find, open, and identify the display.  The
\* Turris has no session to start, so opening it asks it nothing.
OpenOutcomes ==
    IF ~device.plugged THEN {FALSE}
    ELSE IF device.product = "turris" THEN {TRUE}
    ELSE CASE device.mood = "well"  -> {TRUE}
           [] device.mood = "flaky" -> {TRUE, FALSE}
           [] device.mood = "mute"  -> {FALSE}

\* Applying screen s.  The Turris supports neither configuration nor
\* overlays; a KANALI screen that is only an overlay is written and not
\* answered, unless a saved brightness or rotation goes with it.
ApplyOutcomes(s) ==
    IF owned = "turris" THEN {"unsupported"}
    ELSE Outcomes \cup (IF owned = "panorama" /\ s \notin MediaScreens
                        THEN WriteOutcomes ELSE {})

\* Every other command.  "memory" is one the daemon answers from what it
\* knows, "unsupported" one this firmware does not have.
CommandOutcomes == Outcomes \cup {"memory", "unsupported"}

\* Whether an outcome means the link itself is gone: legacy_lost, kanali_lost.
LostOnSerialOnly(o) == o = "gone" /\ owned = "legacy"
Lost(o) == o = "gone"

\* The outcome of one metrics push.  The legacy push takes a missing reply
\* for success; the KANALI push writes nothing without an overlay.
PushOutcomes ==
    CASE owned = "legacy" ->
            {IF o = "silent" THEN "ok" ELSE o : o \in Outcomes}
      [] owned # "legacy" /\ lease = NoScreen -> {"ok"}
      [] owned # "legacy" /\ lease # NoScreen -> WriteOutcomes

\* The outcome of one KANALI keepalive: the Turris is sent nothing.
KeepaliveOutcomes == IF owned = "turris" THEN {"ok"} ELSE WriteOutcomes

\* The timers recv_timeout waits for.
WatchedWhileOpen(link) ==
    CASE link = "none"   -> {}
      [] link = "legacy" -> {"push"}
      [] OTHER           -> {"push", "keepalive"}
Watched(link) ==
    CASE link = "none"   -> {"reconnect"}
      [] link = "legacy" -> {"push"}
      [] OTHER           -> {"push", "keepalive"}

-----------------------------------------------------------------------------
(* The environment: the display, the host, and the clients.                *)

Unplug ==
    /\ device.plugged
    /\ device' = [device EXCEPT !.plugged = FALSE]
    /\ alive' = FALSE
    /\ UNCHANGED <<fileVars, owned, lease, status, pushVars, due, wakeVars,
                   loopVars, clientVars>>

\* A display appears: another one, or the same one after a reboot.
Plug ==
    /\ ~device.plugged
    /\ \E p \in Products, m \in Moods :
          device' = [plugged |-> TRUE, product |-> p, mood |-> m]
    /\ UNCHANGED <<fileVars, linkVars, status, pushVars, due, wakeVars,
                   loopVars, clientVars>>

ChangeMood ==
    /\ device.plugged
    /\ \E m \in Moods \ {device.mood} : device' = [device EXCEPT !.mood = m]
    /\ UNCHANGED <<fileVars, linkVars, status, pushVars, due, wakeVars,
                   loopVars, clientVars>>

\* The host sleeps for RESUME_GAP or longer and the panel may reset.  Only a
\* wait in recv_timeout is measured, so only there does the loop notice.
Suspend ==
    /\ owned # "none"
    /\ slept' = (slept \/ pc = "recv")
    /\ stale' = TRUE
    /\ UNCHANGED <<device, fileVars, linkVars, status, pushVars, due,
                   loopVars, clientVars>>

Elapse(t) ==
    /\ pc = "recv"
    /\ t \in Watched(owned) \ due
    /\ due' = due \cup {t}
    /\ UNCHANGED <<device, fileVars, linkVars, status, pushVars, wakeVars,
                   loopVars, clientVars>>

Listening == pc \notin {"start", "listen"} /\ after # "listen"

\* A client reads display.json, connects, and its request reaches the
\* channel to the main loop.
Submit(c) ==
    /\ Listening
    /\ call[c].state = "idle"
    /\ \E k \in Kinds, s \in Screens :
          call' = [call EXCEPT ![c] =
                      [state |-> "waiting", kind |-> k, ok |-> FALSE,
                       screen |-> CASE k = "apply" -> s
                                    [] k = "set"   -> disk
                                    [] OTHER       -> NoScreen]]
    /\ queue' = Append(queue, c)
    /\ UNCHANGED <<device, fileVars, linkVars, status, pushVars, due, wakeVars,
                   loopVars>>

\* The client's read timeout passes; the daemon is not told.
Abandon(c) ==
    /\ call[c].state = "waiting"
    /\ call' = [call EXCEPT ![c].state = "abandoned"]
    /\ UNCHANGED <<device, fileVars, linkVars, status, pushVars, due, wakeVars,
                   loopVars, queue>>

\* Whether the reply makes the client write display.json.
WritesRegardless(c) == call[c].kind \in {"apply", "set"}
Writes(c) == call[c].ok /\ call[c].kind \in {"apply", "set"}

\* Every save is a write to a temporary file and a rename, and nobody stops
\* for one that fails: it leaves the file as it was.
Save(screen) == disk' \in {screen, disk}

\* The client takes its reply.  A command that changed the screen or a
\* setting then writes back the whole state it read and changed.
Finish(c) ==
    /\ call[c].state = "replied"
    /\ Save(IF Writes(c) THEN call[c].screen ELSE disk)
    /\ call' = [call EXCEPT ![c] = IdleCall]
    /\ UNCHANGED <<device, saved, unsaved, linkVars, status, pushVars, due, wakeVars,
                   loopVars, queue>>

-----------------------------------------------------------------------------
(* Opening, restoring, and dropping the link.                              *)

\* A new link starts without failures.
CarryCounters == silent' = silent /\ streak' = 0
ResetCounters == silent' = 0 /\ streak' = 0

\* open_backend succeeds.  A link opened by the reconnect timer clears the
\* last error; the one opened at start finds none.
Open ==
    /\ pc \in {"start", "open"}
    /\ TRUE \in OpenOutcomes
    /\ owned' = device.product
    /\ alive' = TRUE
    /\ lease' = NoScreen
    /\ status' = [status EXCEPT !.error = "none"]
    /\ ResetCounters
    /\ due' = Watched(device.product)
    /\ pc' = "restore"
    /\ after' = IF pc = "start" THEN "listen" ELSE "recv"
    /\ saved' = disk
    /\ UNCHANGED <<device, disk, unsaved, wakeVars, current, clientVars>>

OpenFails ==
    /\ pc \in {"start", "open"}
    /\ FALSE \in OpenOutcomes
    /\ status' = [status EXCEPT !.error = "open"]
    /\ due' = {}
    /\ pc' = IF pc = "start" THEN "listen" ELSE "recv"
    /\ UNCHANGED <<device, fileVars, linkVars, pushVars, wakeVars, after,
                   current, clientVars>>

\* The socket is bound and the loop begins.
Listen ==
    /\ pc = "listen"
    /\ pc' = "recv"
    /\ after' = "recv"
    /\ UNCHANGED <<device, fileVars, linkVars, status, pushVars, due, wakeVars,
                   current, clientVars>>

\* What restore sends: the legacy firmware only takes a screen with media,
\* KANALI also a bare overlay; anything less is adopted without a word.
RestoreOutcomes ==
    IF saved \in (IF owned = "legacy" THEN MediaScreens ELSE Screens)
    THEN ApplyOutcomes(saved) ELSE {"ok"}

\* A saved fan speed goes out after the screen, on the legacy firmware.
FanOutcomes == IF owned = "legacy" THEN {"ok"} \cup Outcomes ELSE {"ok"}

\* restore: what was read at the step before is saved again and reported,
\* whatever the display said and whether or not the save succeeds.
Restore ==
    /\ pc = "restore"
    /\ \E screen \in RestoreOutcomes, fan \in FanOutcomes :
          /\ status' = [connected |-> TRUE, screen |-> saved,
                        error |-> IF {screen, fan} = {"ok"} THEN status.error
                                  ELSE "restore"]
          /\ lease' = IF owned # "legacy" /\ screen = "ok"
                      THEN OverlayOf(saved) ELSE lease
          /\ stale' = (stale /\ screen # "ok")
    /\ Save(saved)
    /\ saved' = NoScreen
    /\ pc' = after
    /\ after' = "recv"
    /\ UNCHANGED <<device, unsaved, owned, alive, pushVars, due, slept, current,
                   clientVars>>

\* disconnect, when lost; the reconnect timer starts over.
Drop(lost) ==
    IF lost THEN /\ owned' = "none"
                 /\ alive' = FALSE
                 /\ lease' = NoScreen
            ELSE UNCHANGED linkVars

-----------------------------------------------------------------------------
(* The main loop.                                                          *)

\* Whether the wait that ends overran by RESUME_GAP, with a display to mind.
OverranIdle(next) == slept /\ owned # "none" /\ next # "handle"
Overran(next) == slept /\ owned # "none"

\* A wait that overran restores the screen before anything else is done, and
\* makes a push due.
Wake(next) ==
    /\ slept' = FALSE
    /\ IF Overran(next)
       THEN /\ pc' = "restore"
            /\ after' = next
            /\ saved' = disk
            /\ due' = due \cup {"push"}
       ELSE /\ pc' = next
            /\ UNCHANGED <<after, saved, due>>
    /\ UNCHANGED <<device, disk, unsaved, linkVars, status, pushVars, stale>>

\* recv_timeout prefers a queued request to an expired timer, and takes the
\* oldest one.
RequestLast == queue # <<>> /\ due = {}
RequestReady == queue # <<>>
TakeNewest == /\ current' = queue[Len(queue)]
              /\ queue' = SubSeq(queue, 1, Len(queue) - 1)
TakeOldest == /\ current' = Head(queue)
              /\ queue' = Tail(queue)

\* recv_timeout returns a request.
Receive ==
    /\ pc = "recv"
    /\ RequestReady
    /\ TakeOldest
    /\ Wake("handle")
    /\ UNCHANGED call

\* recv_timeout times out.
Expire ==
    /\ pc = "recv"
    /\ queue = <<>>
    /\ due # {}
    /\ Wake(CASE owned = "none" -> "open"
              [] owned # "none" /\ "keepalive" \in due -> "keepalive"
              [] OTHER -> "push")
    /\ UNCHANGED <<current, clientVars>>

\* The reply goes to the connection's thread, and to the client if it still
\* waits.
ReplyToWaiting(ok) ==
    /\ call' = IF call[current].state = "abandoned" THEN call
               ELSE [call EXCEPT ![current].state = "replied", ![current].ok = ok]
    /\ current' = NoCall
Reply(ok) ==
    /\ call' = [call EXCEPT ![current] =
                    IF @.state = "abandoned" THEN IdleCall
                    ELSE [@ EXCEPT !.state = "replied", !.ok = ok]]
    /\ current' = NoCall

\* The request failed; the error is kept, and the link goes if it was lost.
Refuse(error, ok, lost) ==
    /\ Reply(ok)
    /\ status' = [status EXCEPT !.error = error, !.connected = ~lost]
    /\ Drop(lost)
    /\ due' = IF lost THEN {} ELSE due

Handling(kinds) == pc = "handle" /\ call[current].kind \in kinds
Handled == /\ pc' = "recv"
           /\ UNCHANGED <<device, saved, pushVars, slept, after, queue>>

HandleStatus ==
    /\ Handling({"status"})
    /\ Reply(TRUE)
    /\ Handled
    /\ UNCHANGED <<disk, unsaved, linkVars, status, due, stale>>

HandleUnlinked ==
    /\ Handling(Kinds \ {"status"})
    /\ owned = "none"
    /\ Reply(FALSE)
    /\ Handled
    /\ UNCHANGED <<disk, unsaved, linkVars, status, due, stale>>

\* Any other request that leaves the screen alone.
HandleCommand ==
    /\ Handling({"command", "set"})
    /\ owned # "none"
    /\ \E o \in CommandOutcomes :
          IF o \in {"ok", "memory"}
          THEN Reply(TRUE) /\ UNCHANGED <<linkVars, status, due>>
          ELSE Refuse("command", FALSE, Lost(o))
    /\ Handled
    /\ UNCHANGED <<disk, unsaved, stale>>

\* A KANALI apply that fails is never taken for a lost link.  A screen that
\* was applied is reported as such also when it could not be saved.
HandleApply ==
    /\ Handling({"apply"})
    /\ owned # "none"
    /\ LET screen == call[current].screen IN
       \E o \in ApplyOutcomes(screen) :
          IF o = "ok"
          THEN /\ Reply(TRUE)
               /\ status' = [status EXCEPT !.screen = screen]
               /\ Save(screen)
               /\ unsaved' = (disk' # screen)
               /\ lease' = IF owned = "legacy" THEN lease ELSE OverlayOf(screen)
               /\ stale' = FALSE
               /\ UNCHANGED <<owned, alive, due>>
          ELSE /\ Refuse("command", FALSE, Lost(o) /\ owned = "legacy")
               /\ UNCHANGED <<disk, unsaved, stale>>
    /\ Handled

\* A reboot the display acknowledges is reported as success and ends the
\* link; only the legacy firmware has one.
HandleReboot ==
    /\ Handling({"reboot"})
    /\ owned # "none"
    /\ \E o \in IF owned = "legacy" THEN Outcomes ELSE {"unsupported"} :
          IF o = "ok" THEN Refuse("reboot", TRUE, TRUE)
          ELSE Refuse("command", FALSE, Lost(o))
    /\ Handled
    /\ UNCHANGED <<disk, unsaved, stale>>

\* A link found dead is not pushed to.
PushUnlessNotDue(lost) == IF "push" \in due THEN "push" ELSE "recv"
AfterKeepalive(lost) == IF ~lost /\ "push" \in due THEN "push" ELSE "recv"

\* The keepalive timer's work.
Keepalive ==
    /\ pc = "keepalive"
    /\ \E o \in KeepaliveOutcomes :
          LET lost == Lost(o) IN
          /\ status' = [status EXCEPT !.connected = ~lost,
                           !.error = IF o = "ok" THEN @ ELSE "keepalive"]
          /\ Drop(lost)
          /\ silent' = IF lost THEN 0 ELSE silent
          /\ due' = IF lost THEN {} ELSE due \ {"keepalive"}
          /\ pc' = AfterKeepalive(lost)
    /\ UNCHANGED <<device, fileVars, streak, wakeVars, after, current,
                   clientVars>>

\* One more silent push is one too many.
LimitPassed == silent + 1 > SilentLimit
LimitReached == silent + 1 >= SilentLimit

\* The push timer's work.
Push ==
    /\ pc = "push"
    /\ \E o \in PushOutcomes :
          LET lost == o # "ok" /\ (Lost(o) \/ LimitReached) IN
          /\ status' = [status EXCEPT !.connected = ~lost,
                           !.error = IF o = "ok" THEN "none" ELSE "push"]
          /\ Drop(lost)
          /\ silent' = IF o = "ok" \/ lost THEN 0 ELSE silent + 1
          /\ streak' = IF o = "ok" THEN 0 ELSE streak + 1
          /\ due' = IF lost THEN {} ELSE due \ {"push"}
    /\ pc' = "recv"
    /\ UNCHANGED <<device, fileVars, wakeVars, after, current, clientVars>>

-----------------------------------------------------------------------------

Environment ==
    \/ Unplug \/ Plug \/ ChangeMood \/ Suspend
    \/ \E c \in Calls : Submit(c) \/ Abandon(c) \/ Finish(c)

Handle == HandleStatus \/ HandleUnlinked \/ HandleCommand \/ HandleApply
          \/ HandleReboot

\* The steps of the main loop that wait for nothing.
Loop == Open \/ OpenFails \/ Listen \/ Restore \/ Receive \/ Handle
        \/ Keepalive \/ Push

Next ==
    \/ Environment
    \/ \E t \in Timers : Elapse(t)
    \/ Expire
    \/ Loop

Safety == Init /\ [][Next]_vars

\* The thread runs and time passes.  recv_timeout prefers a queued request
\* to an expired timer, so that the timers are served rests on the queue
\* being empty again and again when the loop comes back to it: a client
\* needs a round trip through its socket and its thread to queue the next.
Fairness ==
    /\ WF_vars(Loop)
    /\ SF_vars(Expire)
    /\ \A t \in Timers : SF_vars(Elapse(t))

Spec == Safety /\ Fairness

-----------------------------------------------------------------------------
(* What the daemon promises.                                               *)

\* What a client is told of the link is true whenever a request is answered,
\* and a daemon without a display can always say why: no later step erases
\* the error that ended the link (the guard on the push after a keepalive,
\* the resets of last_error, disconnect).
StatusTellsTheLink ==
    /\ pc \in {"recv", "handle"} => (status.connected <=> owned # "none")
    /\ pc \in {"recv", "handle"} /\ owned = "none" => status.error \in LossErrors

\* What the main loop relies on between its steps, and what makes the two
\* properties around it inductive: which steps run with a link and which
\* without, that a restore returns to a step that has what it needs, that a
\* request in hand has a connection, and that silent_pushes counts the failed
\* pushes of this link and of no other.
LoopInvariant ==
    /\ pc \in {"start", "open"} => owned = "none"
    /\ pc \in {"restore", "keepalive", "push"} => owned # "none"
    /\ pc = "restore" =>
          after \in {"listen", "recv", "handle", "keepalive", "push"}
    /\ (pc = "handle" \/ (pc = "restore" /\ after = "handle"))
          => current \in Calls
    /\ owned # "none" => silent = streak
    /\ owned # "none" /\ pc # "restore" => status.connected
    /\ owned = "none" =>
          /\ ~status.connected
          /\ pc # "start" => status.error \in LossErrors

\* A link that still reaches the display is given up only for a reboot the
\* client asked for, or after SILENT_PUSH_LIMIT failed pushes in a row on
\* that link: failures counted on an earlier link never shorten its grace.
LinkLostForCause ==
    [][owned # "none" /\ owned' = "none" =>
          \/ ~alive
          \/ pc = "handle" /\ call[current].kind = "reboot"
          \/ streak' = SilentLimit]_vars

\* The channel and the per-request reply senders lose and duplicate nothing:
\* every request a client has sent and not been answered, abandoned ones
\* included, is in the queue once or in hand, and nothing else is.
Queued(c) == \E i \in DOMAIN queue : queue[i] = c
RequestsAccounted ==
    /\ \A i, j \in DOMAIN queue : queue[i] = queue[j] => i = j
    /\ \A c \in Calls : call[c].state \in {"waiting", "abandoned"}
                            <=> (current = c \/ Queued(c))
    /\ \A i \in DOMAIN queue : queue[i] # current
    /\ current # NoCall => pc = "handle" \/ (pc = "restore" /\ after = "handle")

\* Between requests, display.json holds the screen the daemon reports: what
\* a restart or a replug restores is what was last applied.  The only
\* exception is a screen the daemon applied and could not save, which it
\* neither reports nor tries again; the saves of a restore and of the clients
\* may fail and harm nothing.
SavedIsReported ==
    pc = "recv" /\ owned # "none" /\ (\A c \in Calls : call[c].state = "idle")
       /\ ~unsaved => disk = status.screen

\* On KANALI the overlay that keepalives lease, and that metrics are pushed
\* to, is the one of the screen the daemon reports, unless last_error says
\* that something went wrong.
LeaseIsReported ==
    pc = "recv" /\ owned = "panorama" /\ status.error = "none"
       => lease = OverlayOf(status.screen)

\* Every request reaches the display's owner: none starves behind timers,
\* reconnects, restores or a display that does not answer.
EveryRequestServed ==
    \A c \in Calls : Queued(c) ~> (pc = "handle" /\ current = c)

\* A link the display has left is noticed and dropped, with no client asking
\* anything.
DeadLinkDropped == (owned # "none" /\ ~alive) ~> owned = "none"

\* Once a display stays plugged in and answers, and nobody reboots it, the
\* daemon gets hold of it and keeps it.
Reconnects ==
    <>[](device.plugged /\ device.mood = "well"
         /\ \A c \in Calls : call[c].kind # "reboot")
       => <>[](owned = device.product /\ alive)

\* A legacy display that stops answering does not keep its link for ever.
MuteLegacyDropped ==
    (owned = "legacy" /\ device.mood = "mute")
       ~> (owned = "none" \/ device.mood # "mute")

\* A suspend that fell into the wait for requests is followed by a restore,
\* whichever way the wait ended: the saved screen is applied, or last_error
\* says that it could not be, or the display turns out to be gone.
WakeRestores ==
    slept ~> (~stale \/ status.error = "restore" \/ owned = "none")

-----------------------------------------------------------------------------
(* Seen from its clients, the daemon is the abstract service: the request  *)
(* in hand is still the oldest in line, and the display is there while the *)
(* link is.                                                                *)

Promise == INSTANCE Service WITH
    line   <- IF current = NoCall THEN queue ELSE <<current>> \o queue,
    asks   <- [c \in Calls |-> IF call[c].kind = "status" THEN "status"
                               ELSE "other"],
    answer <- [c \in Calls |-> IF call[c].state # "replied" THEN "none"
                               ELSE IF call[c].ok THEN "yes" ELSE "no"],
    up     <- owned # "none"

\* Requests are answered in order, once, and refused while the display is
\* away; restores, timers and reconnects never come between a client and
\* this.
ServesClients == Promise!Spec

=============================================================================
