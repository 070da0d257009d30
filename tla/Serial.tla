------------------------------- MODULE Serial -------------------------------
(***************************************************************************)
(* The serial command channel of the original firmware (crates/tryx-legacy *)
(* serial.rs and frame.rs) under the calls of Client (lib.rs).             *)
(*                                                                         *)
(* A request is written after whatever has arrived is drained; its reply   *)
(* is the first whole frame that is read after it.  Nothing in a reply     *)
(* tells which request it answers, so a reply that is late, or that nobody *)
(* reads, may be taken for another.  A frame is three pieces, the markers  *)
(* that open and close it, which are equal, and the text between them; the *)
(* line delivers pieces, so a drain or a timeout may cut a frame.          *)
(***************************************************************************)
EXTENDS Naturals, Sequences, FiniteSetsExt

CONSTANTS
  MaxRequests   \* bound: requests that are ever written

ASSUME SerialConstants == MaxRequests \in Nat \ {0}

VARIABLES
  call,      \* the method of Client that runs: [kind, left, state, clean]
  phase,     \* of its request: "idle", "draining" or "reading"
  sequence,  \* the number of the last request (AckNumber)
  inbox,     \* requests the display has not yet taken
  coming,    \* pieces the display has yet to send
  line,      \* pieces that have arrived and are not read
  buffer     \* what read_response has read and not yet understood

vars == <<call, phase, sequence, inbox, coming, line, buffer>>
display == <<inbox, coming>>

-----------------------------------------------------------------------------
(* Frames (frame.rs) *)

Marker == [marker |-> TRUE, of |-> 0]
Text(n) == [marker |-> FALSE, of |-> n]
Frame(n) == <<Marker, Text(n), Marker>>

Markers(pieces) == {i \in 1..Len(pieces) : pieces[i].marker}

(* The bytes before the first marker do not count, and the next marker     *)
(* closes what it opened.                                                  *)
HasFrame(pieces) == \E i, j \in Markers(pieces) : i < j

(* The request a frame answers; 0 when there is nothing between the        *)
(* markers, which is a malformed response.                                 *)
RequestOf(pieces) ==
  LET start == Min(Markers(pieces))
      end == Min(Markers(pieces) \ {start})
  IN  IF end = start + 1 THEN 0 ELSE pieces[start + 1].of

-----------------------------------------------------------------------------
(* The calls of Client and of apply_screen (legacy.rs): their requests, one *)
(* after the other.  "send" waits for no reply; `sysinfo` does without one. *)

Requests ==
  [request |-> <<"wait">>,
   screen  |-> <<"wait", "wait", "wait">>,
   sysinfo |-> <<"wait">>,
   apply   |-> <<"wait", "wait", "wait", "send", "wait", "wait">>]

Init ==
  /\ call = [kind |-> "request", left |-> <<>>, state |-> "failed", clean |-> TRUE]
  /\ phase = "idle"
  /\ sequence = 0
  /\ inbox = <<>> /\ coming = <<>> /\ line = <<>> /\ buffer = <<>>

Running == call.state = "running"

(* The display owes something that a drain cannot reach. *)
Owed == inbox # <<>> \/ coming # <<>>

(* A call that starts with nothing owed is clean. *)
Call ==
  /\ ~Running
  /\ \E kind \in DOMAIN Requests :
       call' = [kind |-> kind, left |-> Requests[kind], state |-> "running", clean |-> ~Owed]
  /\ UNCHANGED <<phase, sequence, inbox, coming, line, buffer>>

(* Mutant: requests are written over what nobody read. *)
Undrained ==
  /\ Running /\ phase = "idle"
  /\ phase' = "draining"
  /\ UNCHANGED <<call, sequence, inbox, coming, line, buffer>>

(* drain: what has arrived is read and dropped until nothing more comes. *)
Drain ==
  /\ Running /\ phase = "idle"
  /\ line' = <<>>
  /\ phase' = "draining"
  /\ UNCHANGED <<call, sequence, inbox, coming, buffer>>

DrainMore ==
  /\ phase = "draining" /\ line # <<>>
  /\ line' = <<>>
  /\ UNCHANGED <<call, phase, sequence, inbox, coming, buffer>>

Returned(state) == [call EXCEPT !.state = state, !.left = <<>>]

(* A request is done: the call goes on with the next one, or returns. *)
Answered ==
  IF Len(call.left) = 1 THEN Returned("ok") ELSE [call EXCEPT !.left = Tail(@)]

Write ==
  /\ phase = "draining" /\ sequence < MaxRequests
  /\ sequence' = sequence + 1
  /\ inbox' = Append(inbox, sequence')
  /\ IF Head(call.left) = "send"
     THEN call' = Answered /\ phase' = "idle"
     ELSE call' = call /\ phase' = "reading"
  /\ buffer' = <<>>
  /\ UNCHANGED <<coming, line>>

(* A request that cannot be built or written: too long, or no port. *)
WriteFails ==
  /\ phase = "draining"
  /\ phase' = "idle"
  /\ call' = Returned("failed")
  /\ sequence' \in {sequence, sequence + 1} /\ sequence' <= MaxRequests
  /\ UNCHANGED <<inbox, coming, line, buffer>>

(* A read takes some of what has arrived; the first frame in it is the     *)
(* reply, and what is behind it is dropped with the buffer.                *)
Read ==
  /\ phase = "reading" /\ line # <<>>
  /\ \E k \in 1..Len(line) :
       LET got == buffer \o SubSeq(line, 1, k)
       IN  /\ line' = SubSeq(line, k + 1, Len(line))
           /\ IF ~HasFrame(got) THEN buffer' = got /\ UNCHANGED <<call, phase>>
              ELSE /\ buffer' = <<>> /\ phase' = "idle"
                   /\ call' = IF RequestOf(got) = 0 THEN Returned("failed")
                              ELSE Answered
  /\ UNCHANGED <<sequence, inbox, coming>>

(* No frame in time: NoResponse, which sysinfo takes for an empty answer.  *)
Timeout ==
  /\ phase = "reading"
  /\ phase' = "idle"
  /\ buffer' = <<>>
  /\ call' = Returned(IF call.kind = "sysinfo" THEN "silent" ELSE "failed")
  /\ UNCHANGED <<sequence, inbox, coming, line>>

-----------------------------------------------------------------------------
(* The display takes requests in order, answers each or not, in its time.  *)

Execute ==
  /\ inbox # <<>>
  /\ inbox' = Tail(inbox)
  /\ coming' \in {coming, coming \o Frame(Head(inbox))}
  /\ UNCHANGED <<call, phase, sequence, line, buffer>>

Arrive ==
  /\ coming # <<>>
  /\ \E k \in 1..Len(coming) :
       /\ line' = line \o SubSeq(coming, 1, k)
       /\ coming' = SubSeq(coming, k + 1, Len(coming))
  /\ UNCHANGED <<call, phase, sequence, inbox, buffer>>

Next ==
  \/ Call \/ Drain \/ DrainMore \/ Write \/ WriteFails \/ Read \/ Timeout
  \/ Execute \/ Arrive

Spec == Init /\ [][Next]_vars

-----------------------------------------------------------------------------
(* Properties *)

TypeOK ==
  /\ call.kind \in DOMAIN Requests
  /\ \E k \in 0..Len(Requests[call.kind]) :
       call.left = SubSeq(Requests[call.kind], k + 1, Len(Requests[call.kind]))
  /\ call.state \in {"running", "ok", "silent", "failed"}
  /\ phase \in {"idle", "draining", "reading"}
  /\ phase # "idle" => Running /\ call.left # <<>>
  /\ sequence \in 0..MaxRequests

(* The calls whose requests all wait for a reply, and report its absence. *)
Confirmed == {"request", "screen"}

(* A call that waits for its replies, and began when the display owed      *)
(* nothing that a drain cannot reach, succeeds only when the display has   *)
(* taken all of its requests: no reply that was left on the line, none of  *)
(* the same call, and no half of a frame stands in for one of them         *)
(* (serial.rs:79, "a stale frame would otherwise be taken as the answer to *)
(* the next request and shift every reply by one").                        *)
AnsweredMeansDone ==
  call.state = "ok" /\ call.kind \in Confirmed /\ call.clean => inbox = <<>>

(* The same of apply_screen, which does not hold: it sends the labels      *)
(* without waiting, and their reply may come when the drain is over and be *)
(* taken for that to the configuration.                                    *)
AppliedMeansDone ==
  call.state = "ok" /\ call.kind = "apply" /\ call.clean => inbox = <<>>

=============================================================================
