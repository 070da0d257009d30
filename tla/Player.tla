------------------------------- MODULE Player -------------------------------
(***************************************************************************)
(* Playback in the preview pane (tryxctl/src/tui/player.rs).  Four parties *)
(* that share two pipes, three flags and a directory of shared memory:     *)
(*                                                                         *)
(*   ffmpeg --stdout--> the pump thread --latest--> draw --transmit-->     *)
(*          --stderr--> (read when the stream is over)          terminal   *)
(*                                                                         *)
(* The pump keeps the newest frame only.  Each redraw shows it, and in a   *)
(* terminal that reads shared memory announces an object that holds it,    *)
(* which the terminal unlinks when it has read it.  Dropping the player    *)
(* unlinks what is left and waits for the pump.                            *)
(***************************************************************************)
EXTENDS Naturals, Sequences

CONSTANTS
    Transfers,  \* how frames travel: "cells" (half-blocks), "direct", "shm"
    Noisy,      \* ffmpeg may have errors to report while it plays
    Pieces,     \* reads it takes to fill a frame
    Pipe,       \* pieces that fit in a pipe
    NameCount,  \* names of objects in turn (16)
    Kept,       \* objects kept for the terminal to read (8)
    MaxFrames,  \* frames that are counted; the count stays there
    MaxUnread   \* transmits the terminal may be behind by

ASSUME FlagsAssumption == Noisy \in BOOLEAN
ASSUME TransfersAssumption == Transfers \subseteq {"cells", "direct", "shm"}
ASSUME CountsAssumption ==
    /\ Pieces \in Nat \ {0} /\ Pipe \in Nat \ {0} /\ NameCount \in Nat \ {0}
    /\ Kept \in Nat \ {0} /\ MaxFrames \in Nat \ {0} /\ MaxUnread \in Nat \ {0}

VARIABLES
    sink,             \* Transfer: how frames travel
    ffmpeg, writing,  \* the child, and what it writes next
    stdout, stderr,   \* pieces in the pipes
    pump, filled,     \* the thread: its next step, pieces of the frame it reads
    message,          \* what it read from stderr is not empty
    latest, produced, \* Shared: the newest frame's sequence, frames counted
    stop, error,
    ui,               \* the owner of the player: it plays, waits in drop, is done
    last_sequence, shown,
    shm_names,        \* names handed to the terminal, oldest first
    objects,          \* the shared memory: the frame under a name, or 0
    transmits         \* what the terminal has not read yet

shared == <<latest, produced, stop, error>>
child == <<ffmpeg, writing, stdout, stderr>>
thread == <<pump, filled, message>>
screen == <<ui, last_sequence, shown, shm_names>>
vars == <<sink, child, thread, shared, screen, objects, transmits>>

Names == 0 .. NameCount - 1
Transmit == [name: Names, sequence: 1 .. MaxFrames]

TypeOK ==
    /\ sink \in Transfers
    /\ ffmpeg \in {"running", "ended", "killed"} /\ writing \in {"frame", "error"}
    /\ stdout \in 0 .. Pipe /\ stderr \in 0 .. Pipe
    /\ pump \in {"test", "read", "count", "kill", "drain", "report", "finished"}
    /\ filled \in 0 .. Pieces - 1
    /\ message \in BOOLEAN /\ stop \in BOOLEAN /\ error \in BOOLEAN
    /\ latest \in 0 .. MaxFrames /\ produced \in 0 .. MaxFrames
    /\ ui \in {"playing", "joining", "gone"}
    /\ last_sequence \in 0 .. MaxFrames /\ shown \in 0 .. MaxFrames
    /\ shm_names \in Seq(Names) /\ Len(shm_names) <= Kept
    /\ objects \in [Names -> 0 .. MaxFrames]
    /\ transmits \in Seq(Transmit)

-----------------------------------------------------------------------------
AtLeast(n, m) == IF n < m THEN m ELSE n
AtMost(n, m) == IF n > m THEN m ELSE n

\* Player::start
Fresh ==
    /\ sink' \in Transfers
    /\ ffmpeg' = "running" /\ writing' = "frame"
    /\ stdout' = 0 /\ stderr' = 0
    /\ pump' = "test" /\ filled' = 0 /\ message' = FALSE
    /\ latest' = 0 /\ produced' = 0 /\ stop' = FALSE /\ error' = FALSE
    /\ ui' = "playing" /\ last_sequence' = 0 /\ shown' = 0
    /\ shm_names' = <<>>

\* Before the first player the owner is as after the last one.
Init ==
    /\ sink \in Transfers
    /\ ffmpeg = "killed" /\ writing = "frame" /\ stdout = 0 /\ stderr = 0
    /\ pump = "finished" /\ filled = 0 /\ message = FALSE
    /\ latest = 0 /\ produced = 0 /\ stop = TRUE /\ error = FALSE
    /\ ui = "gone" /\ last_sequence = 0 /\ shown = 0
    /\ shm_names = <<>>
    /\ objects = [n \in Names |-> 0]
    /\ transmits = <<>>

Start == ui = "gone" /\ Fresh /\ UNCHANGED <<objects, transmits>>

-----------------------------------------------------------------------------
\* ffmpeg.  It blocks where a pipe is full.

Write ==
    /\ ffmpeg = "running"
    /\ \/ writing = "frame" /\ stdout < Pipe /\ stdout' = stdout + 1
          /\ UNCHANGED stderr
       \/ writing = "error" /\ stderr < Pipe /\ stderr' = stderr + 1
          /\ UNCHANGED stdout
    /\ writing' \in IF Noisy THEN {"frame", "error"} ELSE {"frame"}
    /\ UNCHANGED <<sink, ffmpeg, thread, shared, screen, objects, transmits>>

\* It cannot go on, and says so, or not.
End ==
    /\ ffmpeg = "running"
    /\ ffmpeg' = "ended"
    /\ stderr' \in {stderr, AtMost(stderr + 1, Pipe)}
    /\ UNCHANGED <<sink, writing, stdout, thread, shared, screen, objects,
                   transmits>>

-----------------------------------------------------------------------------
\* The pump thread.

More(n) == AtMost(n + 1, MaxFrames)

\* The stop flag is looked at before every read, by pump and
\* read_exact_or_stop alike.
NeverStops == FALSE
Stopped == stop

Test ==
    /\ pump = "test"
    /\ pump' = IF Stopped THEN "kill" ELSE "read"
    /\ UNCHANGED <<sink, child, filled, message, shared, screen, objects,
                   transmits>>

\* The read blocks until ffmpeg has written, or is no more.
Read ==
    /\ pump = "read"
    /\ \/ /\ stdout > 0
          /\ stdout' = stdout - 1
          /\ filled' = (filled + 1) % Pieces
          /\ IF filled' = 0
             THEN latest' = More(latest) /\ pump' = "count"
             ELSE pump' = "test" /\ UNCHANGED latest
       \/ /\ stdout = 0 /\ ffmpeg # "running"
          /\ pump' = "kill"
          /\ UNCHANGED <<stdout, filled, latest>>
    /\ UNCHANGED <<sink, ffmpeg, writing, stderr, message, produced, stop, error,
                   screen, objects, transmits>>

Count ==
    /\ pump = "count"
    /\ produced' = More(produced)
    /\ pump' = "test"
    /\ UNCHANGED <<sink, child, filled, message, latest, stop, error, screen,
                   objects, transmits>>

Kill ==
    /\ pump = "kill"
    /\ ffmpeg' = IF ffmpeg = "running" THEN "killed" ELSE ffmpeg
    /\ pump' = "drain"
    /\ UNCHANGED <<sink, writing, stdout, stderr, filled, message, shared, screen,
                   objects, transmits>>

\* read_to_string: the child is dead, so the pipe ends.
Drain ==
    /\ pump = "drain"
    /\ message' = (stderr > 0)
    /\ stderr' = 0
    /\ pump' = "report"
    /\ UNCHANGED <<sink, ffmpeg, writing, stdout, filled, shared, screen, objects,
                   transmits>>

ReportWhenStopped == message /\ stop
ToReport == message /\ ~stop

Report ==
    /\ pump = "report"
    /\ error' = (error \/ ToReport)
    /\ pump' = "finished"
    /\ UNCHANGED <<sink, child, filled, message, latest, produced, stop, screen,
                   objects, transmits>>

Pump == Test \/ Read \/ Count \/ Kill \/ Drain \/ Report

-----------------------------------------------------------------------------
\* The interface: drawing, and dropping the player.

running == pump # "finished"

\* Player::frame: the newest frame, and whether it is one not yet shown.
AnyFrame == latest # 0
IsNew == latest # 0 /\ latest # last_sequence

\* The names that have been handed out longest ago are unlinked, all but Kept.
Name == latest % NameCount
LeaveThem(objs, names) == objs
Unlink(objs, names) == [n \in Names |-> IF n \in names THEN 0 ELSE objs[n]]

Excess(handed) == AtLeast(Len(handed), Kept) - Kept

Announced == [name |-> Name, sequence |-> latest]

\* The pixels become cells, or travel in the escape.
draw_halfblocks == UNCHANGED <<shm_names, objects, transmits>>
kitty_transmit ==
    /\ transmits' = Append(transmits, Announced)
    /\ UNCHANGED <<shm_names, objects>>

\* The pixels go into an object, whose name travels.  If that fails, the name
\* is unlinked and nothing announced.
shm_publish ==
    \/ LET handed == Append(shm_names, Name)
           excess == Excess(handed)
       IN /\ objects' = Unlink([objects EXCEPT ![Name] = latest],
                               {handed[i] : i \in 1 .. excess})
          /\ shm_names' = SubSeq(handed, excess + 1, Len(handed))
          /\ transmits' = Append(transmits, Announced)
    \/ /\ objects' = [objects EXCEPT ![Name] = 0]
       /\ UNCHANGED <<shm_names, transmits>>

Draw ==
    /\ ui = "playing" /\ IsNew
    /\ last_sequence' = latest
    /\ shown' = More(shown)
    /\ \/ sink = "cells" /\ draw_halfblocks
       \/ sink = "direct" /\ Len(transmits) < MaxUnread /\ kitty_transmit
       \/ sink = "shm" /\ Len(transmits) < MaxUnread /\ shm_publish
    /\ UNCHANGED <<sink, child, thread, shared, ui>>

\* Drop: stragglers are unlinked, the pump told to stop and waited for.
Drop ==
    /\ ui = "playing"
    /\ objects' = Unlink(objects, {shm_names[i] : i \in DOMAIN shm_names})
    /\ shm_names' = <<>>
    /\ stop' = TRUE
    /\ ui' = "joining"
    /\ UNCHANGED <<sink, child, thread, latest, produced, error, last_sequence,
                   shown, transmits>>

Join ==
    /\ ui = "joining" /\ ~running
    /\ ui' = "gone"
    /\ UNCHANGED <<sink, child, thread, shared, last_sequence, shown, shm_names,
                   objects, transmits>>

\* The terminal takes what it was sent in order; it unlinks the object it has
\* read.
TerminalReads ==
    /\ transmits # <<>>
    /\ transmits' = Tail(transmits)
    /\ objects' = IF sink = "shm" THEN [objects EXCEPT ![Head(transmits).name] = 0]
                  ELSE objects
    /\ UNCHANGED <<sink, child, thread, shared, screen>>

-----------------------------------------------------------------------------
Next ==
    \/ Start \/ Write \/ End \/ Pump \/ Draw \/ Drop \/ Join \/ TerminalReads

\* The threads run; ffmpeg writes what it has to where there is room.  Nothing
\* makes it end, the interface draw, or the terminal read.
Spec == Init /\ [][Next]_vars /\ WF_vars(Pump) /\ WF_vars(Write) /\ WF_vars(Join)

-----------------------------------------------------------------------------
(***************************************************************************)
(* Correctness properties                                                  *)
(***************************************************************************)

\* No shared memory outlives the player: what the terminal has not unlinked is
\* under a name that drop, or the trim before it, unlinks.
NoObjectLeft ==
    /\ \A n \in Names : objects[n] # 0 => \E i \in DOMAIN shm_names : shm_names[i] = n
    /\ ui # "playing" => \A n \in Names : objects[n] = 0

\* A frame travels once, and never after a newer one.
OncePerFrame ==
    [][Len(transmits') > Len(transmits) =>
          transmits'[Len(transmits')].sequence > last_sequence]_vars

\* An ffmpeg that gives up and says why is reported, unless the player is
\* stopped.
FailureReported ==
    (ui = "playing" /\ ffmpeg = "ended" /\ stderr > 0) ~> (error \/ stop)

\* "ffmpeg dies with the reader's kill; waiting here is short" (Drop for
\* Player): the interface does not hang in the drop of a player.
DropReturns == ui = "joining" ~> ui = "gone"
=============================================================================
