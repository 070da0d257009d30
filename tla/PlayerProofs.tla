---------------------------- MODULE PlayerProofs ----------------------------
(***************************************************************************)
(* Theorems about playback in the preview pane, for any number of names of *)
(* shared memory, any number of them kept, any pipe and any frame.         *)
(*                                                                         *)
(* What the terminal may be slow about is not assumed: an object is either *)
(* still in shm_names, so that the trim or the drop reaches it, or it is   *)
(* gone.  Frames are shown in order because the newest one is never older  *)
(* than the last one shown (Ordered); TypeOK needs nothing of that.        *)
(***************************************************************************)
EXTENDS Player, SequenceTheorems, TLAPS

USE FlagsAssumption, TransfersAssumption, CountsAssumption

\* The pump only ever replaces a frame by a newer one.
Ordered == last_sequence <= latest

Inv == TypeOK /\ NoObjectLeft /\ Ordered

-----------------------------------------------------------------------------
(* Operators.                                                              *)

\* A count that stays at its bound.
LEMMA MoreType ==
  ASSUME NEW n \in 0 .. MaxFrames
  PROVE  More(n) \in 1 .. MaxFrames /\ n <= More(n)
  BY DEF More, AtMost

\* The names are used in turn, so a frame has one of them.
LEMMA NameType ==
  ASSUME TypeOK
  PROVE  Name \in Names
  BY DEF TypeOK, Name, Names

LEMMA AnnouncedType ==
  ASSUME TypeOK, latest # 0
  PROVE  Announced \in Transmit /\ Announced.sequence = latest
  BY NameType DEF TypeOK, Announced, Transmit

\* What is trimmed are the oldest names, as many as there are too many; the
\* rest are the names that stay.
LEMMA Trimmed ==
  ASSUME NEW handed \in Seq(Names), Len(handed) <= Kept + 1
  PROVE  LET rest == SubSeq(handed, Excess(handed) + 1, Len(handed))
         IN  /\ Excess(handed) \in 0 .. Len(handed)
             /\ rest \in Seq(Names) /\ Len(rest) <= Kept
             /\ \A i \in DOMAIN handed :
                  i \in 1 .. Excess(handed) \/ \E j \in DOMAIN rest : rest[j] = handed[i]
<1> DEFINE e == Excess(handed)
           rest == SubSeq(handed, e + 1, Len(handed))
<1>1. Len(handed) \in Nat /\ DOMAIN handed = 1 .. Len(handed)
  OBVIOUS
<1>2. e \in 0 .. Len(handed) /\ Len(handed) - e <= Kept
  BY <1>1 DEF Excess, AtLeast
<1> HIDE DEF e
<1>3. /\ rest \in Seq(Names) /\ Len(rest) = Len(handed) - e
      /\ \A i \in 1 .. Len(handed) - e : rest[i] = handed[e + i]
  <2> DEFINE m == e + 1
             n == Len(handed)
  <2>1. m \in Int /\ n \in Int /\ \A i \in m .. n : handed[i] \in Names
    BY <1>1, <1>2
  <2>2. m = e + 1 /\ n = Len(handed)
    OBVIOUS
  <2> HIDE DEF m, n
  <2>3. /\ SubSeq(handed, m, n) \in Seq(Names)
        /\ Len(SubSeq(handed, m, n)) = IF m <= n THEN n - m + 1 ELSE 0
        /\ \A i \in 1 .. n - m + 1 : SubSeq(handed, m, n)[i] = handed[m + i - 1]
    BY <2>1, SubSeqProperties
  <2>4. rest = SubSeq(handed, m, n)
    BY <2>2
  <2>5. n \in Nat /\ e \in Nat /\ e <= n
    BY <1>1, <1>2, <2>2
  <2>6. /\ n - m + 1 = n - e
        /\ ~(m <= n) => n - e = 0
        /\ \A i \in 1 .. n - e : m + i - 1 = e + i
    BY <2>2, <2>5
  <2> HIDE DEF rest
  <2> QED
    BY <2>2, <2>3, <2>4, <2>6
<1>4. ASSUME NEW i \in DOMAIN handed, i \notin 1 .. e
      PROVE  \E j \in DOMAIN rest : rest[j] = handed[i]
  <2>1. i - e \in 1 .. Len(handed) - e /\ e + (i - e) = i
    BY <1>1, <1>2, <1>4
  <2>2. DOMAIN rest = 1 .. Len(handed) - e
    BY <1>3
  <2> QED
    BY <1>3, <2>1, <2>2
<1> QED
  BY <1>2, <1>3, <1>4 DEF e

-----------------------------------------------------------------------------
(* Steps.                                                                  *)

LEMMA InitInv == Init => Inv
<1> SUFFICES ASSUME Init PROVE Inv
  OBVIOUS
<1>1. TypeOK
  BY DEF Init, TypeOK, Names
<1> QED
  BY <1>1 DEF Init, Inv, NoObjectLeft, Ordered, Names

LEMMA StartInv ==
  ASSUME Inv, Start
  PROVE  Inv'
<1>1. TypeOK'
  <2>1. /\ stdout' \in 0 .. Pipe /\ stderr' \in 0 .. Pipe /\ filled' \in 0 .. Pieces - 1
        /\ latest' \in 0 .. MaxFrames /\ produced' \in 0 .. MaxFrames
        /\ last_sequence' \in 0 .. MaxFrames /\ shown' \in 0 .. MaxFrames
    BY DEF Start, Fresh
  <2>2. shm_names' \in Seq(Names) /\ Len(shm_names') <= Kept
    BY DEF Start, Fresh
  <2>3. UNCHANGED <<objects, transmits>>
    BY DEF Start
  <2> QED
    BY <2>1, <2>2, <2>3 DEF Inv, Start, Fresh, TypeOK
<1>2. NoObjectLeft' /\ Ordered'
  BY DEF Inv, Start, Fresh, NoObjectLeft, Ordered
<1> QED
  BY <1>1, <1>2 DEF Inv

\* ffmpeg.
LEMMA ChildInv ==
  ASSUME Inv, Write \/ End
  PROVE  Inv'
<1>1. TypeOK'
  <2>1. CASE Write
    BY <2>1 DEF Inv, Write, TypeOK, thread, shared, screen
  <2>2. CASE End
    BY <2>2 DEF Inv, End, TypeOK, thread, shared, screen, AtMost
  <2> QED
    BY <2>1, <2>2
<1>2. UNCHANGED <<latest, last_sequence, objects, shm_names, ui>>
  BY DEF Write, End, shared, screen
<1> QED
  BY <1>1, <1>2 DEF Inv, NoObjectLeft, Ordered

LEMMA PumpInv ==
  ASSUME Inv, Pump
  PROVE  Inv'
<1>1. TypeOK'
  <2>1. CASE Test \/ Count \/ Kill \/ Drain \/ Report
    <3>1. CASE Test
      BY <3>1 DEF Inv, Test, Stopped, TypeOK, child, shared, screen
    <3>2. CASE Count
      BY <3>2, MoreType DEF Inv, Count, TypeOK, child, screen
    <3>3. CASE Kill
      BY <3>3 DEF Inv, Kill, TypeOK, shared, screen
    <3>4. CASE Drain
      BY <3>4 DEF Inv, Drain, TypeOK, shared, screen
    <3>5. CASE Report
      BY <3>5 DEF Inv, Report, ToReport, TypeOK, child, screen
    <3> QED
      BY <2>1, <3>1, <3>2, <3>3, <3>4, <3>5
  <2>2. CASE Read
    <3>1. (filled + 1) % Pieces \in 0 .. Pieces - 1
      BY DEF Inv, TypeOK
    <3>2. More(latest) \in 0 .. MaxFrames
      BY MoreType DEF Inv, TypeOK
    <3>3. filled' \in 0 .. Pieces - 1 /\ latest' \in 0 .. MaxFrames
      BY <2>2, <3>1, <3>2 DEF Inv, Read, TypeOK
    <3>4. stdout' \in 0 .. Pipe /\ pump' \in {"count", "test", "kill"}
      BY <2>2 DEF Inv, Read, TypeOK
    <3> QED
      BY <2>2, <3>3, <3>4 DEF Inv, Read, TypeOK, screen
  <2> QED
    BY <2>1, <2>2 DEF Pump
<1>2. UNCHANGED <<last_sequence, objects, shm_names, ui>>
  BY DEF Pump, Test, Read, Count, Kill, Drain, Report, screen
<1>3. latest' = latest \/ latest' = More(latest)
  BY DEF Pump, Test, Read, Count, Kill, Drain, Report, shared
<1>4. Ordered'
  BY <1>2, <1>3, MoreType DEF Inv, TypeOK, Ordered
<1> QED
  BY <1>1, <1>2, <1>4 DEF Inv, NoObjectLeft

\* Drawing: what is new in the shared memory has a name that was handed out.
LEMMA DrawInv ==
  ASSUME Inv, Draw
  PROVE  Inv'
<1> USE DEF Inv
<1>1. /\ ui = "playing" /\ latest # 0 /\ last_sequence' = latest
      /\ UNCHANGED <<sink, child, thread, shared, ui>>
      /\ draw_halfblocks \/ kitty_transmit \/ shm_publish
  BY DEF Draw, IsNew
<1>2. Ordered'
  BY <1>1 DEF Ordered, TypeOK, shared
<1>3. shown' \in 0 .. MaxFrames
  BY MoreType DEF Draw, TypeOK
<1>4. Announced \in Transmit /\ Name \in Names
  BY <1>1, AnnouncedType, NameType
<1>5. transmits' \in Seq(Transmit)
  <2>1. transmits' = transmits \/ transmits' = Append(transmits, Announced)
    BY <1>1 DEF draw_halfblocks, kitty_transmit, shm_publish
  <2>2. Append(transmits, Announced) \in Seq(Transmit)
    BY <1>4 DEF TypeOK
  <2> QED
    BY <2>1, <2>2 DEF TypeOK
<1>6. /\ shm_names' \in Seq(Names) /\ Len(shm_names') <= Kept
      /\ objects' \in [Names -> 0 .. MaxFrames]
      /\ NoObjectLeft'
  <2>1. CASE draw_halfblocks \/ kitty_transmit
    BY <1>1, <2>1 DEF TypeOK, NoObjectLeft, draw_halfblocks, kitty_transmit
  <2>2. CASE UNCHANGED shm_names /\ objects' = [objects EXCEPT ![Name] = 0]
    BY <1>1, <1>4, <2>2 DEF TypeOK, NoObjectLeft
  <2>3. ASSUME NEW handed, handed = Append(shm_names, Name),
               objects' = Unlink([objects EXCEPT ![Name] = latest],
                                 {handed[i] : i \in 1 .. Excess(handed)}),
               shm_names' = SubSeq(handed, Excess(handed) + 1, Len(handed))
        PROVE  /\ shm_names' \in Seq(Names) /\ Len(shm_names') <= Kept
               /\ objects' \in [Names -> 0 .. MaxFrames]
               /\ NoObjectLeft'
    <3>1. /\ handed \in Seq(Names) /\ Len(handed) = Len(shm_names) + 1
          /\ handed[Len(handed)] = Name
          /\ \A i \in DOMAIN shm_names : i \in DOMAIN handed /\ handed[i] = shm_names[i]
          /\ Len(handed) \in DOMAIN handed
      BY <1>4, <2>3 DEF TypeOK
    <3>2. Len(handed) <= Kept + 1
      BY <3>1 DEF TypeOK
    <3>3. /\ shm_names' \in Seq(Names) /\ Len(shm_names') <= Kept
          /\ \A i \in DOMAIN handed :
               i \in 1 .. Excess(handed) \/ \E j \in DOMAIN shm_names' : shm_names'[j] = handed[i]
      <4>1. shm_names' = SubSeq(handed, Excess(handed) + 1, Len(handed))
        BY <2>3
      <4> QED
        BY <3>1, <3>2, <4>1, Trimmed
    <3>4. objects' \in [Names -> 0 .. MaxFrames]
      BY <1>4, <2>3 DEF TypeOK, Unlink
    <3>5. ASSUME NEW n \in Names, objects'[n] # 0
          PROVE  \E i \in DOMAIN shm_names' : shm_names'[i] = n
      <4>1. /\ n \notin {handed[i] : i \in 1 .. Excess(handed)}
            /\ n = Name \/ objects[n] # 0
        BY <1>4, <2>3, <3>5 DEF TypeOK, Unlink
      <4>2. PICK i \in DOMAIN handed : handed[i] = n
        BY <3>1, <4>1 DEF NoObjectLeft
      <4>3. i \notin 1 .. Excess(handed)
        BY <4>1, <4>2
      <4> QED
        BY <3>3, <4>2, <4>3
    <3> QED
      BY <1>1, <3>3, <3>4, <3>5 DEF NoObjectLeft
  <2> QED
    BY <1>1, <2>1, <2>2, <2>3 DEF shm_publish
<1>7. TypeOK'
  BY <1>1, <1>3, <1>5, <1>6 DEF TypeOK, child, thread, shared
<1> QED
  BY <1>2, <1>6, <1>7

\* Every name that is left is unlinked.
LEMMA DropInv ==
  ASSUME Inv, Drop
  PROVE  Inv'
<1> USE DEF Inv
<1>1. \A n \in Names : objects'[n] = 0
  <2> SUFFICES ASSUME NEW n \in Names PROVE objects'[n] = 0
    OBVIOUS
  <2>1. objects'[n] = IF n \in {shm_names[i] : i \in DOMAIN shm_names} THEN 0 ELSE objects[n]
    BY DEF Drop, Unlink
  <2> QED
    BY <2>1 DEF NoObjectLeft
<1>2. objects' \in [Names -> 0 .. MaxFrames]
  BY DEF Drop, Unlink, TypeOK
<1>3. TypeOK'
  BY <1>2 DEF TypeOK, Drop, child, thread
<1> QED
  BY <1>1, <1>3 DEF NoObjectLeft, Ordered, Drop

LEMMA JoinInv ==
  ASSUME Inv, Join
  PROVE  Inv'
  BY DEF Inv, Join, TypeOK, NoObjectLeft, Ordered, child, thread, shared

\* The terminal only ever removes objects.
LEMMA TerminalInv ==
  ASSUME Inv, TerminalReads
  PROVE  Inv'
<1> USE DEF Inv
<1>1. Head(transmits) \in Transmit /\ transmits' \in Seq(Transmit)
  BY DEF TerminalReads, TypeOK
<1>2. /\ objects' \in [Names -> 0 .. MaxFrames]
      /\ \A n \in Names : objects'[n] \in {0, objects[n]}
  BY <1>1 DEF TerminalReads, TypeOK, Transmit
<1>3. UNCHANGED <<sink, child, thread, shared, screen>>
  BY DEF TerminalReads
<1>4. TypeOK'
  BY <1>1, <1>2, <1>3 DEF TypeOK, child, thread, shared, screen
<1> QED
  BY <1>2, <1>3, <1>4 DEF NoObjectLeft, Ordered, shared, screen

LEMMA StutterInv ==
  ASSUME Inv, UNCHANGED vars
  PROVE  Inv'
  BY DEF Inv, vars, child, thread, shared, screen, TypeOK, NoObjectLeft, Ordered

-----------------------------------------------------------------------------
(* Theorems.                                                               *)

\* The inductive invariant: types, objects that are still under a name, and
\* frames that come in order.
THEOREM Invariance == Spec => []Inv
<1>1. Inv /\ [Next]_vars => Inv'
  BY StartInv, ChildInv, PumpInv, DrawInv, DropInv, JoinInv, TerminalInv, StutterInv
     DEF Next
<1> QED
  BY <1>1, InitInv, PTL DEF Spec

\* Type correctness: names, frames and pipes stay within their bounds.
THEOREM TypeCorrect == Spec => []TypeOK
<1>1. Inv => TypeOK
  BY DEF Inv
<1> QED
  BY <1>1, Invariance, PTL

\* No shared memory outlives the player (Drop for Player, shm_publish), however
\* slow the terminal is and whatever it unlinks itself.
THEOREM NothingLeft == Spec => []NoObjectLeft
<1>1. Inv => NoObjectLeft
  BY DEF Inv
<1> QED
  BY <1>1, Invariance, PTL

\* A frame travels once, and never after a newer one (Player::frame).
THEOREM InOrder == Spec => OncePerFrame
<1> DEFINE A == Len(transmits') > Len(transmits) =>
                    transmits'[Len(transmits')].sequence > last_sequence
<1>1. Inv /\ [Next]_vars => [A]_vars
  <2> SUFFICES ASSUME Inv, Next, Len(transmits') > Len(transmits)
               PROVE  transmits'[Len(transmits')].sequence > last_sequence
    OBVIOUS
  <2>1. transmits \in Seq(Transmit)
    BY DEF Inv, TypeOK
  <2>2. transmits' # transmits /\ ~TerminalReads
    BY <2>1 DEF TerminalReads
  <2>3. Draw
    BY <2>2 DEF Next, Start, Write, End, Pump, Test, Read, Count, Kill, Drain, Report,
                Drop, Join
  <2>4. transmits' = Append(transmits, Announced)
    BY <2>2, <2>3 DEF Draw, draw_halfblocks, kitty_transmit, shm_publish
  <2>5. Announced \in Transmit /\ Announced.sequence = latest
    BY <2>3, AnnouncedType DEF Inv, Draw, IsNew
  <2>6. transmits'[Len(transmits')] = Announced
    BY <2>1, <2>4, <2>5
  <2>7. latest > last_sequence
    BY <2>3 DEF Inv, TypeOK, Ordered, Draw, IsNew
  <2> QED
    BY <2>5, <2>6, <2>7
<1> QED
  BY <1>1, Invariance, PTL DEF Spec, OncePerFrame
=============================================================================
