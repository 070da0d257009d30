------------------------------- MODULE MCWire -------------------------------
(***************************************************************************)
(* The serial link with a bound on its requests; and what the models of    *)
(* the links take for granted: the byte level of the frames, and the       *)
(* layout and the batches of an overlay.  An input to these functions is   *)
(* chosen initially and looked at as it is.                                *)
(***************************************************************************)
EXTENDS Serial, Frames, Overlay, FiniteSets

VARIABLE input

SeqsUpTo(S, n) == UNION {[1..k -> S] : k \in 0..n}

(* Every text of up to three of the bytes that matter, and texts whose     *)
(* length, or checksum, is a marker; what is read before and after it.     *)
Texts ==
  SeqsUpTo({0, 1, 2, 90, 91}, 3)
  \cup {[i \in 1..n |-> b] : n \in {85, 86}, b \in {1, 90, 91}}

LegacyInputs ==
  [kind : {"legacy"}, text : Texts, before : {<<>>, <<91>>, <<1, 2>>},
    after : {<<>>, <<90>>}]

(* Payloads that are empty, look like a frame's head, or like one's end.   *)
Payloads == {<<>>, <<7>>, <<84, 82, 89, 88>>, <<9, 84, 82>>}

(* Garbage: parts of a magic, and a magic before text.                     *)
Garbage ==
  {SubSeq(MAGIC, 1, k) : k \in 0..4} \cup
  {<<88>>, <<84, 84>>, MAGIC \o <<65>>, MAGIC \o <<65, 66, 67, 68, 69>>}

KanaliInputs ==
  [kind : {"kanali"}, garbage : Garbage \X Garbage, payloads : Payloads \X Payloads]

(* Screens whose left half has every choice of four labels, and whose      *)
(* right half, when there are two, some.  The labels: of a value with a    *)
(* unit that follows it, one that has another name on the firmware, one    *)
(* without a unit, one without a value; and one that the firmware lacks.   *)
Labels == {"CPU Temperature", "Memory Utilization", "Date&Time", "Memory Frequency"}
LabelLists == {l \in SeqsUpTo(Labels, 3) : parse_labels(l)} \cup {<<"CPU Voltage">>}
Badges == {<<>>, <<"CPU Badge">>, <<"GPU Badge", "CPU Badge">>}
Half(labels, badges, bottom) == [labels : labels, badges : badges, bottom : bottom]
Rights ==
  {<<>>, <<"CPU Temperature">>, <<"Memory Utilization", "Date&Time">>,
   <<"Date&Time", "CPU Temperature", "Memory Utilization">>, <<"CPU Voltage">>}
Screens ==
  [left : Half(LabelLists, Badges, BOOLEAN), right : Half({<<>>}, {<<>>}, {TRUE}),
   dual : {FALSE}, waterfall : BOOLEAN]
  \cup
  [left : Half(LabelLists, Badges, {FALSE}), right : Half(Rights, Badges, {FALSE}),
   dual : {TRUE}, waterfall : BOOLEAN]
OverlayInputs == [kind : {"overlay"}, screen : Screens]
DateInputs == [kind : {"date"}, day : 0 .. 3000 \cup 47000 .. 47600]

Unused == [kind |-> "none"]

MCInit ==
  /\ Init
  /\ \/ input = Unused
     \/ input \in LegacyInputs \cup KanaliInputs
     \/ input \in OverlayInputs \cup DateInputs
MCNext == input = Unused /\ Next /\ UNCHANGED input
MCSpec == MCInit /\ [][MCNext]_<<vars, input>>

(* A legacy frame is found behind what is no marker, whole and not before  *)
(* it is, and carries the text that was sent (frame.rs:158, "Marker bytes  *)
(* never occur inside a frame").                                           *)
LegacyArrives(i) ==
  LET sent == wrap(i.text)
      taken == LegacyFrame(i.before \o sent \o i.after)
  IN  /\ taken = [frame |-> sent, left |-> i.after]
      /\ parse_response(taken.frame)
           = <<[text |-> i.text, checksum_ok |-> TRUE, length_ok |-> TRUE]>>
      /\ \A k \in 0..(Len(sent) - 1) :
           LegacyFrame(i.before \o SubSeq(sent, 1, k)).frame = <<>>

(* KANALI frames are found behind garbage, however the bytes are cut into  *)
(* two reads (tryx-proto frame.rs:104, "a later real header can still be   *)
(* recovered").                                                            *)
KanaliArrives(i) ==
  LET bytes == i.garbage[1] \o encode(i.payloads[1])
                 \o i.garbage[2] \o encode(i.payloads[2])
  IN  \A k \in 0..Len(bytes) :
        ReadAll(SubSeq(bytes, 1, k), SubSeq(bytes, k + 1, Len(bytes))) = i.payloads

(* What one side frames, the other finds and reads as it was, behind       *)
(* garbage and in any pieces: a reply that is lost in the stream is a      *)
(* timeout, and one that is cut is a wrong answer.                         *)
FramesArrive ==
  /\ input.kind = "legacy" => LegacyArrives(input)
  /\ input.kind = "kanali" => KanaliArrives(input)

(* The groups lie on the canvas, which waterfall turns, apart from one     *)
(* another, and no two of the labels in them are the same.                 *)
Apart(g, h) ==
  \/ g.x + g.width <= h.x \/ h.x + h.width <= g.x
  \/ g.y + g.height <= h.y \/ h.y + h.height <= g.y
Placed(layout, waterfall) ==
  /\ \A i \in DOMAIN layout :
       /\ layout[i].x + layout[i].width <= IF waterfall THEN SCREEN_HEIGHT ELSE SCREEN_WIDTH
       /\ layout[i].y + layout[i].height <= IF waterfall THEN SCREEN_WIDTH ELSE SCREEN_HEIGHT
  /\ \A i, j \in DOMAIN layout : i # j =>
       /\ Apart(layout[i], layout[j]) /\ layout[i].id # layout[j].id
       /\ layout[i].labels \cap layout[j].labels = {}

(* Every update is of a label that the layout has, no label is updated     *)
(* twice, and of each metric that is shown the value arrives where it is   *)
(* known, in every half that shows it.                                     *)
Reaches(batch, layout, shown, known) ==
  /\ \A i \in DOMAIN batch : \E g \in DOMAIN layout :
       layout[g].id = batch[i].group /\ batch[i].label \in layout[g].labels
  /\ \A i, j \in DOMAIN batch : batch[i].label = batch[j].label => i = j
  /\ \A name \in metric_values(known) :
       Cardinality({i \in DOMAIN batch : batch[i].text = name})
         = Cardinality({half \in DOMAIN shown : name \in ToSet(shown[half])})

OverlayShows(screen) ==
  LET overlay == overlay_from(screen)
      layout == run_config(overlay[1])
      halves == IF screen.dual THEN <<overlay[1].left, overlay[1].right>> ELSE <<overlay[1].left>>
  IN  overlay # <<>> =>
        /\ Placed(layout, screen.waterfall)
        /\ \A known \in {{}, {"CPU Temperature"}, ToSet(Catalog)} :
             Reaches(metric_batch(overlay[1], known), layout,
                     [h \in DOMAIN halves |-> halves[h].metrics], known)

(* A day after another has the next date.                                  *)
Leap(year) == year % 4 = 0 /\ (year % 100 = 0 => year % 400 = 0)
MonthLength(date) ==
  IF date.month = 2 THEN IF Leap(date.year) THEN 29 ELSE 28
  ELSE IF date.month \in {4, 6, 9, 11} THEN 30 ELSE 31
On(year, month, day) == [year |-> year, month |-> month, day |-> day]
Tomorrow(date) ==
  IF date.day < MonthLength(date) THEN On(date.year, date.month, date.day + 1)
  ELSE IF date.month < 12 THEN On(date.year, date.month + 1, 1)
  ELSE On(date.year + 1, 1, 1)

(* What a display is leased can show what it is pushed: the layout and the *)
(* batches are computed apart (overlay.rs, append_area and metric_batch,   *)
(* "Ported from upstream ... with the same ids"), and a value for a label  *)
(* that the layout lacks is lost without a word.  Its clock tells the day. *)
ValuesArrive ==
  /\ input.kind = "overlay" => OverlayShows(input.screen)
  /\ input.kind = "date" =>
       /\ civil_from_days(0) = On(1970, 1, 1)
       /\ civil_from_days(input.day + 1) = Tomorrow(civil_from_days(input.day))

=============================================================================
