------------------------------ MODULE Overlay ------------------------------
(***************************************************************************)
(* The overlay of a KANALI display (tryx-kanali/src/overlay.rs), from the  *)
(* saved screen (tryxctl/src/kanali.rs) to the layout that is leased and   *)
(* to the batches that are pushed.  The two are computed apart: a batch    *)
(* says which label of which group it updates, and it is the layout that   *)
(* must have them.  Texts, fonts and colours are left out; the text of a   *)
(* value is the metric it is of.                                           *)
(***************************************************************************)
EXTENDS Integers, Sequences, FiniteSets, SequencesExt

(* METRICS: the ids are consecutive; the clock has a date and a time, and  *)
(* no unit.                                                                *)
Catalog ==
  <<"CPU Temperature", "CPU Frequency", "CPU Usage", "CPU Power",
    "GPU Temperature", "GPU Frequency", "GPU Usage", "GPU Power",
    "Memory Frequency", "Memory Usage", "Date&Time">>
METRICS ==
  [i \in DOMAIN Catalog |->
     [name |-> Catalog[i], group |-> 99 + i, date_time |-> Catalog[i] = "Date&Time",
      title_id |-> 98 + 3 * i, value_id |-> 99 + 3 * i,
      unit_id |-> IF Catalog[i] = "Date&Time" THEN 0 ELSE 100 + 3 * i]]
Metric(name) == METRICS[CHOOSE i \in DOMAIN METRICS : METRICS[i].name = name]

(* LABELS of the commands and of the interface; at most three at a time,   *)
(* and none twice.                                                         *)
LABELS ==
  (ToSet(Catalog) \ {"Memory Usage"}) \cup
  {"Memory Utilization", "CPU Voltage", "GPU Voltage", "Hard Disk Temperature",
   "Motherboard Temperature"}
MAX_LABELS == 3
parse_labels(labels) ==
  /\ ToSet(labels) \subseteq LABELS /\ Len(labels) <= MAX_LABELS
  /\ \A i, j \in DOMAIN labels : labels[i] = labels[j] => i = j

(* The name a shared label has on this firmware, or itself.                *)
supported_label(label) == IF label = "Memory Utilization" THEN "Memory Usage" ELSE label
Refused(labels) == \E l \in ToSet(labels) : supported_label(l) \notin ToSet(Catalog)

area_from(half) ==
  [metrics |-> [i \in DOMAIN half.labels |-> supported_label(half.labels[i])],
   badges |-> half.badges, bottom |-> half.bottom]
Empty(area) == area.metrics = <<>> /\ area.badges = <<>>
NoArea == [metrics |-> <<>>, badges |-> <<>>, bottom |-> FALSE]

(* Of what an area names, the metrics there are, once, and three at most.  *)
Once(area) ==
  {i \in DOMAIN area.metrics :
     /\ area.metrics[i] \in ToSet(Catalog)
     /\ \A j \in 1..(i - 1) : area.metrics[j] # area.metrics[i]}
Rank(i, S) == Cardinality({j \in S : j < i})
Picked(area) == {i \in Once(area) : Rank(i, Once(area)) < 3}
selected(area) ==
  [k \in 1..Cardinality(Picked(area)) |->
     area.metrics[CHOOSE i \in Picked(area) : Rank(i, Picked(area)) = k - 1]]

(* The overlay of a screen: <<>> when nothing is shown, or a label is not  *)
(* supported.                                                              *)
overlay_from(screen) ==
  LET right == IF screen.dual THEN area_from(screen.right) ELSE NoArea
      left == area_from(screen.left)
  IN  IF \/ Refused(screen.left.labels)
         \/ screen.dual /\ Refused(screen.right.labels)
         \/ Empty(left) /\ Empty(right)
      THEN <<>>
      ELSE <<[left |-> left, right |-> right, dual |-> screen.dual,
              waterfall |-> screen.waterfall]>>

-----------------------------------------------------------------------------
(* The layout *)

SCREEN_WIDTH == 2240
SCREEN_HEIGHT == 1080
TEXT_OFFSET_X == 60
TEXT_OFFSET_Y == -20
VALUE_TEXT_SIZE == 160
TAG_OFFSET_Y == 70
LineHeight == 30  \* of a title or a badge; a badge's group has no height of its own

(* Waterfall turns the canvas; the left half of two, or a single area at   *)
(* the bottom, goes to the lower part.                                     *)
Lowered(overlay, area, right) ==
  overlay.waterfall /\ IF overlay.dual THEN ~right ELSE area.bottom

Halves(overlay) == IF overlay.dual THEN 2 ELSE 1
AreaX(overlay, right) ==
  IF right /\ ~overlay.waterfall THEN SCREEN_WIDTH \div Halves(overlay) + TEXT_OFFSET_X
  ELSE TEXT_OFFSET_X
AreaWidth(overlay, less) ==
  IF overlay.waterfall THEN SCREEN_WIDTH \div 2 - TEXT_OFFSET_X * 2 - less
  ELSE SCREEN_WIDTH \div Halves(overlay) - TEXT_OFFSET_X * 2
Drop(overlay, area, right) == IF Lowered(overlay, area, right) THEN SCREEN_WIDTH \div 2 ELSE 0

Offset(right) == IF right THEN 100 ELSE 0
MetricLabels(m, offset) ==
  {m.title_id + offset, m.value_id + offset}
    \cup (IF m.date_time THEN {} ELSE {m.unit_id + offset})

MetricGroup(overlay, area, right, index) ==
  LET count == Len(selected(area))
      m == Metric(selected(area)[index])
      middle == IF count = 1 THEN SCREEN_HEIGHT \div 2
                ELSE (SCREEN_HEIGHT \div (count + 1)) * index + (index - 1) * 10
      y == middle - VALUE_TEXT_SIZE \div 2 + Drop(overlay, area, right) + TEXT_OFFSET_Y
  IN  [id |-> m.group + Offset(right),
       x |-> AreaX(overlay, right), y |-> IF y > 0 THEN y ELSE 0,
       width |-> AreaWidth(overlay, 50), height |-> VALUE_TEXT_SIZE,
       labels |-> MetricLabels(m, Offset(right))]

BadgeBase(right) == IF right THEN 400 ELSE 300
BadgeGroup(overlay, area, right) ==
  [id |-> BadgeBase(right),
   x |-> AreaX(overlay, right) + 10, y |-> TAG_OFFSET_Y + Drop(overlay, area, right),
   width |-> AreaWidth(overlay, 30), height |-> LineHeight,
   labels |-> {BadgeBase(right) + IF b = "CPU Badge" THEN 1 ELSE 2 : b \in ToSet(area.badges)}]

append_area(overlay, area, right) ==
  [index \in DOMAIN selected(area) |-> MetricGroup(overlay, area, right, index)]
    \o (IF area.badges = <<>> THEN <<>> ELSE <<BadgeGroup(overlay, area, right)>>)

run_config(overlay) ==
  append_area(overlay, overlay.left, FALSE)
    \o (IF overlay.dual THEN append_area(overlay, overlay.right, TRUE) ELSE <<>>)

-----------------------------------------------------------------------------
(* The batches *)

(* What the monitor may know; the memory's frequency is never asked for.   *)
Sampled == ToSet(Catalog) \ {"Memory Frequency", "Date&Time"}
metric_values(known) == Sampled \cap known

Update(group, label, text) == [group |-> group, label |-> label, text |-> text]
Updates(name, known, offset) ==
  LET m == Metric(name)
      group == m.group + offset
  IN  IF m.date_time
      THEN <<Update(group, m.title_id + offset, "date"), Update(group, m.value_id + offset, "time")>>
      ELSE IF name \notin metric_values(known) THEN <<>>
      ELSE <<Update(group, m.value_id + offset, name)>>
             \o (IF m.group \in {100, 104}
                 THEN <<Update(group, m.unit_id + offset, "unit")>> ELSE <<>>)

AreaUpdates(area, known, offset) ==
  FlattenSeq([i \in DOMAIN selected(area) |-> Updates(selected(area)[i], known, offset)])
(* Mutant: the batch forgets what the layout adds to the ids of the right. *)
Unshifted(overlay, known) ==
  AreaUpdates(overlay.left, known, 0)
    \o (IF overlay.dual THEN AreaUpdates(overlay.right, known, 0) ELSE <<>>)
metric_batch(overlay, known) ==
  AreaUpdates(overlay.left, known, 0)
    \o (IF overlay.dual THEN AreaUpdates(overlay.right, known, 100) ELSE <<>>)

-----------------------------------------------------------------------------
(* The clock's date: days since 1970-01-01 to a civil date.                *)
civil_from_days(days) ==
  LET z == days + 719468
      era == z \div 146097
      doe == z % 146097
      yoe == (doe - doe \div 1460 + doe \div 36524 - doe \div 146096) \div 365
      doy == doe - (365 * yoe + yoe \div 4 - yoe \div 100)
      mp == (5 * doy + 2) \div 153
      d == doy - (153 * mp + 2) \div 5 + 1
      m == IF mp < 10 THEN mp + 3 ELSE mp - 9
      y == yoe + era * 400
  IN  [year |-> IF m <= 2 THEN y + 1 ELSE y, month |-> m, day |-> d]

=============================================================================
