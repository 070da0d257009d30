----------------------------- MODULE TuiProofs -----------------------------
(***************************************************************************)
(* Theorems about the terminal interface, for any files, transforms, queue *)
(* and cache sizes.                                                        *)
(*                                                                         *)
(* The loop and the worker share nothing but two queues, so each invariant *)
(* says of what the loop shows that it will be right once the events in    *)
(* the queue have been drained, and the requests before them handled: the  *)
(* last one that says something of it is the one that counts (Ends).       *)
(***************************************************************************)
EXTENDS Tui, SequenceTheorems, FiniteSetTheorems, TLAPS

InLoop == ui \in {"draw", "drain", "key"}

\* What is in the queues while the journal has n records.
Lists == {l \in Seq(File) : Len(l) <= Cardinality(Names)}
Known(n) == {o \in Seq(Record) : Len(o) <= n}

RequestTypes(n) ==
    [kind: {"refresh", "quit"}] \union [kind: {"push_metrics"}, on: BOOLEAN]
    \union [kind: {"thumbnail"}, file: File]
    \union [kind: {"retry"}, id: 1 .. n]
    \union [kind: {"delete"}, name: Names]
    \union [kind: {"analyse", "upload"}, path: Paths, transform: Transforms]
    \union [kind: {"preview"}, key: Keys, path: Paths, transform: Transforms]

EventTypes(n) ==
    [kind: {"media"}, of: Lists] \union [kind: {"operations"}, of: Known(n)]
    \union [kind: {"pushing", "progress"}, of: BOOLEAN] \union [kind: {"error"}]
    \union [kind: {"preview"}, key: Keys, of: Sizes \union {0}]
    \union [kind: {"failed"}, key: Keys]
    \union [kind: {"analysis"}, path: Paths, transform: Transforms, ok: BOOLEAN]

-----------------------------------------------------------------------------
(* The types, in four parts, and what relates them.                        *)

LoopOK ==
    /\ ui \in {"draw", "drain", "key", "leaving", "gone"} /\ tab \in {"library", "other"}
    /\ files \in Lists
    /\ selected \in 0 .. Presets + Cardinality(Names) - 1
    /\ operations \in Known(Len(journal))
    /\ prompt \in {None, <<"upload">>} \union ({"delete"} \X Names)
    /\ wizard \in {None} \union Wizard
    /\ upload \in BOOLEAN /\ pushing \in BOOLEAN

NoDup(s) == \A i, j \in 1 .. Len(s) : s[i] = s[j] => i = j
PicturesOK ==
    /\ preview_order \in Seq(Keys) /\ NoDup(preview_order)
    /\ previews \in [ToSet(preview_order) -> Sizes \union {0}]
    /\ Len(preview_order) <= PreviewCache
    /\ preview_failures \subseteq Keys /\ preview_requested \subseteq Keys

QueuesOK ==
    /\ requests \in Seq(RequestTypes(Len(journal)))
    /\ Len(requests) <= MaxRequests + 1
    /\ InLoop => Len(requests) <= MaxRequests
    /\ events \in Seq(EventTypes(Len(journal))) /\ Len(events) <= MaxEvents
    /\ cancel \in BOOLEAN

WorkerOK ==
    /\ step \in {"connect", "idle", "encode", "push", "over"}
    /\ connection \in {None, "daemon", "direct", "kanali"}
    /\ adb \in BOOLEAN /\ metrics \in BOOLEAN
    /\ transfer \in 0 .. MaxTransfers
    /\ target \in BOOLEAN
    /\ device \in [Names -> Sizes \union {0}]
    /\ journal \in Seq(Record) /\ Len(journal) <= MaxTransfers
    /\ step \in {"encode", "push"} => transfer \in 1 .. Len(journal)
    /\ unjudged \subseteq Paths \X Transforms

Types == LoopOK /\ PicturesOK /\ QueuesOK /\ WorkerOK

-----------------------------------------------------------------------------
(* Queues.                                                                 *)

LEMMA Added ==
    ASSUME NEW S, NEW q \in Seq(S), NEW r \in Seq(S)
    PROVE  /\ q \o r \in Seq(S) /\ Len(q) \in Nat /\ Len(r) \in Nat
           /\ Len(q \o r) = Len(q) + Len(r)
           /\ \A i \in 1 .. Len(q) : (q \o r)[i] = q[i]
           /\ \A i \in 1 .. Len(r) : (q \o r)[Len(q) + i] = r[i]
           /\ DOMAIN (q \o r) = 1 .. (Len(q) + Len(r)) /\ DOMAIN q = 1 .. Len(q)
<1>1. Len(q) \in Nat /\ Len(r) \in Nat /\ DOMAIN q = 1 .. Len(q)
  BY LenProperties
<1>2. /\ q \o r \in Seq(S) /\ Len(q \o r) = Len(q) + Len(r)
      /\ \A i \in 1 .. (Len(q) + Len(r)) : (q \o r)[i] = IF i <= Len(q) THEN q[i] ELSE r[i - Len(q)]
  BY ConcatProperties
<1>3. DOMAIN (q \o r) = 1 .. (Len(q) + Len(r))
  BY <1>2, LenProperties
<1>4. \A i \in 1 .. Len(q) : (q \o r)[i] = q[i]
  BY <1>1, <1>2
<1>5. ASSUME NEW i \in 1 .. Len(r) PROVE (q \o r)[Len(q) + i] = r[i]
  <2>1. Len(q) + i \in 1 .. (Len(q) + Len(r)) /\ ~(Len(q) + i <= Len(q)) /\ (Len(q) + i) - Len(q) = i
    BY <1>1
  <2> QED
    BY <1>2, <2>1
<1> QED
  BY <1>1, <1>2, <1>3, <1>4, <1>5

LEMMA One ==
    ASSUME NEW S, NEW x \in S
    PROVE  <<x>> \in Seq(S) /\ Len(<<x>>) = 1 /\ <<x>>[1] = x /\ DOMAIN <<x>> = {1}
OBVIOUS

LEMMA Taken ==
    ASSUME NEW S, NEW q \in Seq(S), q # <<>>
    PROVE  /\ Head(q) \in S /\ Head(q) = q[1] /\ Len(q) \in Nat \ {0}
           /\ Tail(q) \in Seq(S) /\ Len(Tail(q)) = Len(q) - 1
           /\ \A i \in 1 .. Len(q) - 1 : Tail(q)[i] = q[i + 1]
           /\ DOMAIN q = 1 .. Len(q) /\ DOMAIN Tail(q) = 1 .. Len(q) - 1
<1>1. /\ Head(q) \in S /\ Tail(q) \in Seq(S) /\ Len(Tail(q)) = Len(q) - 1
      /\ \A i \in 1 .. Len(Tail(q)) : Tail(q)[i] = q[i + 1]
  BY HeadTailProperties
<1>2. Len(q) \in Nat /\ DOMAIN q = 1 .. Len(q) /\ DOMAIN Tail(q) = 1 .. Len(Tail(q))
  BY <1>1, LenProperties
<1>3. Len(q) # 0
  BY <1>2, EmptySeq
<1>4. Head(q) = q[1]
  OBVIOUS
<1> QED
  BY <1>1, <1>2, <1>3, <1>4

-----------------------------------------------------------------------------
(* The types hold.  First, what the steps of the loop have in common.      *)

\* A name of a file is that of one file.
LEMMA BoundsAreNumbers ==
    /\ Presets \in Nat \ {0} /\ Cardinality(Names) \in Nat
    /\ PreviewCache \in Nat \ {0} /\ MaxRequests \in Nat \ {0}
    /\ MaxEvents \in Nat \ {0} /\ MaxTransfers \in Nat
BY NamesAssumption, BoundsAssumption, FS_CardinalityType

LEMMA KnownGrows ==
    ASSUME NEW n \in Nat, NEW m \in Nat, n <= m
    PROVE  /\ Known(n) \subseteq Known(m)
           /\ RequestTypes(n) \subseteq RequestTypes(m)
           /\ EventTypes(n) \subseteq EventTypes(m)
<1>1. Known(n) \subseteq Known(m)
  BY LenProperties DEF Known
<1>2. [kind: {"operations"}, of: Known(n)] \subseteq [kind: {"operations"}, of: Known(m)]
  BY <1>1
<1>3. [kind: {"retry"}, id: 1 .. n] \subseteq [kind: {"retry"}, id: 1 .. m]
  <2>1. 1 .. n \subseteq 1 .. m
    OBVIOUS
  <2> QED
    BY <2>1
<1>4. RequestTypes(n) \subseteq RequestTypes(m)
  BY <1>3 DEF RequestTypes
<1>5. EventTypes(n) \subseteq EventTypes(m)
  BY <1>2 DEF EventTypes
<1> QED
  BY <1>1, <1>4, <1>5

LEMMA InitTypes == Init => Types
<1> SUFFICES ASSUME Init PROVE Types
  OBVIOUS
<1>1. journal = <<>> /\ journal \in Seq(Record) /\ Len(journal) = 0
  BY DEF Init
<1>2. LoopOK
  <2>1. files = <<>> /\ files \in Seq(File) /\ Len(files) = 0
    BY DEF Init
  <2>2. operations = <<>> /\ operations \in Seq(Record) /\ Len(operations) = 0
    BY DEF Init
  <2>3. files \in Lists /\ operations \in Known(Len(journal))
    BY <1>1, <2>1, <2>2, BoundsAreNumbers DEF Lists, Known
  <2>4. selected \in 0 .. Presets + Cardinality(Names) - 1
    BY BoundsAreNumbers DEF Init
  <2> QED
    BY <2>3, <2>4 DEF Init, LoopOK
<1>3. PicturesOK
  BY BoundsAreNumbers DEF Init, PicturesOK, NoDup, ToSet
<1>4. QueuesOK
  <2>1. [kind |-> "refresh"] \in RequestTypes(Len(journal))
    BY DEF RequestTypes
  <2>2. requests \in Seq(RequestTypes(Len(journal))) /\ Len(requests) = 1
    BY <2>1, One DEF Init
  <2>3. events \in Seq(EventTypes(Len(journal))) /\ Len(events) = 0
    BY DEF Init
  <2>5. cancel \in BOOLEAN
    BY DEF Init
  <2>4. 1 <= MaxRequests /\ 1 <= MaxRequests + 1 /\ 0 <= MaxEvents
    BY BoundsAreNumbers
  <2> QED
    BY <2>2, <2>3, <2>4, <2>5 DEF QueuesOK
<1>5. WorkerOK
  <2>1. device \in [Names -> Sizes \union {0}]
    BY NamesAssumption DEF Init
  <2>2. transfer \in 0 .. MaxTransfers /\ Len(journal) <= MaxTransfers
    BY <1>1, BoundsAreNumbers DEF Init
  <2> QED
    BY <1>1, <2>1, <2>2 DEF Init, WorkerOK
<1> QED
  BY <1>2, <1>3, <1>4, <1>5 DEF Types

\* Requests that are sent.
LEMMA Sending ==
    ASSUME Types, NEW rs \in Seq(RequestTypes(Len(journal))), Send(rs)
    PROVE  /\ requests' \in Seq(RequestTypes(Len(journal)))
           /\ Len(requests') = Len(requests) + Len(rs)
           /\ Len(requests) \in Nat /\ Len(rs) \in Nat
BY Added DEF Send, Types, QueuesOK

\* A step of the loop leaves the worker and its events alone.
LEMMA LoopTypes ==
    ASSUME Types, ui' \in {"draw", "drain", "key", "leaving", "gone"},
           tab' \in {"library", "other"}, files' = files, operations' = operations,
           selected' \in 0 .. Presets + Cardinality(Names) - 1,
           prompt' \in {None, <<"upload">>} \union ({"delete"} \X Names),
           wizard' \in {None} \union Wizard, upload' = upload, pushing' = pushing,
           PicturesOK', requests' \in Seq(RequestTypes(Len(journal))),
           Len(requests') <= MaxRequests + 1, InLoop' => Len(requests') <= MaxRequests,
           cancel' \in BOOLEAN, UNCHANGED <<events, worker, world>>
    PROVE  Types'
<1>1. LoopOK'
  BY DEF Types, LoopOK, world
<1>2. QueuesOK'
  BY DEF Types, QueuesOK, world
<1>3. WorkerOK'
  BY DEF Types, WorkerOK, worker, world
<1> QED
  BY <1>1, <1>2, <1>3 DEF Types

\* What a step of the loop may find and leave as it is.
LEMMA LoopSame ==
    ASSUME Types
    PROVE  /\ tab \in {"library", "other"}
           /\ selected \in 0 .. Presets + Cardinality(Names) - 1
           /\ prompt \in {None, <<"upload">>} \union ({"delete"} \X Names)
           /\ wizard \in {None} \union Wizard /\ cancel \in BOOLEAN
           /\ requests \in Seq(RequestTypes(Len(journal)))
           /\ Len(requests) \in Nat /\ Len(requests) <= MaxRequests + 1
           /\ InLoop => Len(requests) <= MaxRequests
           /\ PicturesOK /\ (UNCHANGED picture => PicturesOK')
<1>1. UNCHANGED picture => PicturesOK'
  BY DEF Types, PicturesOK, picture
<1>2. Len(requests) \in Nat
  BY LenProperties DEF Types, QueuesOK
<1> QED
  BY <1>1, <1>2 DEF Types, LoopOK, QueuesOK

\* The list the cursor moves in: the presets, then the files.
LEMMA Selection ==
    ASSUME Types
    PROVE  /\ Len(files) \in Nat /\ Len(files) <= Cardinality(Names) /\ entries \in Nat \ {0}
           /\ entries = Presets + Len(files)
           /\ \A n \in Int : n % entries \in 0 .. Presets + Cardinality(Names) - 1
           /\ selected_file # None => selected_file \in File
<1>1. files \in Seq(File) /\ Len(files) \in Nat /\ Len(files) <= Cardinality(Names)
  BY LenProperties DEF Types, LoopOK, Lists
<1>2. entries \in Nat \ {0} /\ entries = Presets + Len(files)
  BY <1>1, BoundsAreNumbers DEF entries
<1>3. ASSUME NEW n \in Int PROVE n % entries \in 0 .. Presets + Cardinality(Names) - 1
  <2>1. n % entries \in 0 .. entries - 1
    BY <1>2
  <2> QED
    BY <1>1, <1>2, <2>1, BoundsAreNumbers
<1>4. ASSUME selected_file # None PROVE selected_file \in File
  <2>1. selected_file = files[selected - Presets + 1] /\ selected >= Presets /\ selected < entries
    BY <1>2, <1>4, LoopSame, BoundsAreNumbers DEF selected_file
  <2>2. selected - Presets + 1 \in 1 .. Len(files)
    BY SMTT(30), <1>1, <1>2, <2>1, LoopSame, BoundsAreNumbers
  <2> QED
    BY <1>1, <2>1, <2>2, ElementOfSeq
<1> QED
  BY <1>1, <1>2, <1>3, <1>4

LEMMA Asking ==
    ASSUME Types, NEW key \in Keys, NEW rq \in RequestTypes(Len(journal)),
           Ensure(key, <<rq>>), Len(requests) <= MaxRequests
    PROVE  /\ requests' \in Seq(RequestTypes(Len(journal)))
           /\ Len(requests') <= MaxRequests
           /\ UNCHANGED <<previews, preview_order, preview_failures>> => PicturesOK'
<1>1. CASE key \in DOMAIN previews \union preview_failures \union preview_requested
  <2>1. UNCHANGED <<preview_requested, requests>>
    BY <1>1 DEF Ensure, NoSend
  <2> QED
    BY <2>1, LoopSame DEF picture
<1>2. CASE key \notin DOMAIN previews \union preview_failures \union preview_requested
  <2>1. /\ Room(1) /\ preview_requested' = preview_requested \union {key} /\ Send(<<rq>>)
    BY <1>2 DEF Ensure
  <2>2. <<rq>> \in Seq(RequestTypes(Len(journal))) /\ Len(<<rq>>) = 1
    BY One
  <2>3. requests' \in Seq(RequestTypes(Len(journal))) /\ Len(requests') = Len(requests) + 1
    BY <2>1, <2>2, Sending
  <2>4. Len(requests') <= MaxRequests
    BY <2>1, <2>3 DEF Room
  <2> QED
    BY <2>1, <2>3, <2>4 DEF Types, PicturesOK
<1> QED
  BY <1>1, <1>2

LEMMA DrawTypes == Types /\ Draw => Types'
<1> SUFFICES ASSUME Types, Draw PROVE Types'
  OBVIOUS
<1>1. InLoop /\ InLoop' /\ Len(requests) <= MaxRequests
  BY LoopSame DEF Draw, InLoop
<1>2. /\ requests' \in Seq(RequestTypes(Len(journal))) /\ Len(requests') <= MaxRequests
      /\ PicturesOK'
  <2>1. CASE wizard = None /\ tab = "library" /\ selected_file # None
    <3> DEFINE rq == [kind |-> "thumbnail", file |-> selected_file]
    <3>1. selected_file \in File /\ selected_file.name \in Names
      BY <2>1, Selection DEF File
    <3>2. Thumb(selected_file.name) \in Keys /\ rq \in RequestTypes(Len(journal))
      BY <3>1 DEF Keys, RequestTypes
    <3>3. Ensure(Thumb(selected_file.name), <<rq>>)
      BY <2>1 DEF Draw
    <3> HIDE DEF rq
    <3> QED
      BY <1>1, <3>2, <3>3, Asking DEF Draw
  <2>2. CASE ~(wizard = None /\ tab = "library" /\ selected_file # None)
    <3>1. UNCHANGED <<picture, requests>>
      BY <2>2 DEF Draw, NoSend, picture
    <3> QED
      BY <1>1, <3>1, LoopSame
  <2> QED
    BY <2>1, <2>2
<1>3. Len(requests') <= MaxRequests + 1
  BY <1>2, BoundsAreNumbers, LenProperties
<1>4. UNCHANGED <<tab, files, selected, operations, prompt, wizard, upload, pushing, cancel>>
  BY DEF Draw, choice
<1>5. UNCHANGED <<events, worker, world>> /\ ui' = "drain"
  BY DEF Draw
<1> QED
  BY <1>2, <1>3, <1>4, <1>5, LoopSame, LoopTypes

\* Keys that touch neither the pictures nor, but for one request, the queue.
LEMMA KeyTypes ==
    ASSUME Types, ui = "key", UNCHANGED <<events, worker, world>>, UNCHANGED picture,
           ui' = "draw", tab' \in {"library", "other"},
           UNCHANGED <<files, operations, upload, pushing>>,
           selected' \in 0 .. Presets + Cardinality(Names) - 1,
           prompt' \in {None, <<"upload">>} \union ({"delete"} \X Names),
           wizard' \in {None} \union Wizard, cancel' \in BOOLEAN,
           \/ UNCHANGED requests
           \/ Room(1) /\ \E rq \in RequestTypes(Len(journal)) : Send(<<rq>>)
    PROVE  Types'
<1>1. /\ requests' \in Seq(RequestTypes(Len(journal))) /\ Len(requests') \in Nat
      /\ Len(requests') <= MaxRequests
  <2>1. CASE UNCHANGED requests
    BY <2>1, LoopSame DEF InLoop
  <2>2. CASE Room(1) /\ \E rq \in RequestTypes(Len(journal)) : Send(<<rq>>)
    <3>1. PICK rq \in RequestTypes(Len(journal)) : Send(<<rq>>)
      BY <2>2
    <3>2. <<rq>> \in Seq(RequestTypes(Len(journal))) /\ Len(<<rq>>) = 1
      BY One
    <3>3. requests' \in Seq(RequestTypes(Len(journal))) /\ Len(requests') = Len(requests) + 1
      BY <3>1, <3>2, Sending
    <3> QED
      BY <2>2, <3>3, LoopSame DEF Room
  <2> QED
    BY <2>1, <2>2
<1>2. Len(requests') <= MaxRequests + 1
  BY <1>1, BoundsAreNumbers
<1>3. PicturesOK'
  BY LoopSame
<1>4. files' = files /\ operations' = operations /\ upload' = upload /\ pushing' = pushing
  OBVIOUS
<1> QED
  BY <1>1, <1>2, <1>3, <1>4, LoopTypes

LEMMA PlainKeys ==
    Types /\ (Idle \/ CancelKey \/ TabKey \/ AskKey \/ move_selection \/ PromptKey
              \/ RetryKey \/ ConfirmDelete \/ WizardBack \/ WizardUpload) => Types'
<1> SUFFICES ASSUME Types, Idle \/ CancelKey \/ TabKey \/ AskKey \/ move_selection
                           \/ PromptKey \/ RetryKey \/ ConfirmDelete \/ WizardBack
                           \/ WizardUpload
             PROVE  Types'
  OBVIOUS
<1>1. CASE Idle
  BY <1>1, KeyTypes, LoopSame DEF Idle, Turn, screen, choice
<1>2. CASE CancelKey
  BY <1>2, KeyTypes, LoopSame DEF CancelKey, Key, Turn, screen, choice
<1>3. CASE TabKey
  BY <1>3, KeyTypes, LoopSame DEF TabKey, Key, Turn, choice
<1>4. CASE AskKey
  <2>1. Turn /\ Room(1) /\ UNCHANGED <<screen, cancel>>
    BY <1>4 DEF AskKey
  <2>2. \E rq \in RequestTypes(Len(journal)) : Send(<<rq>>)
    <3>1. [kind |-> "refresh"] \in RequestTypes(Len(journal))
      BY DEF RequestTypes
    <3>2. [kind |-> "push_metrics", on |-> ~pushing] \in RequestTypes(Len(journal))
      BY DEF RequestTypes
    <3> QED
      BY <1>4, <3>1, <3>2 DEF AskKey
  <2> QED
    BY <2>1, <2>2, KeyTypes, LoopSame DEF Turn, screen, choice
<1>5. CASE move_selection
  <2>1. PICK delta \in {1, entries - 1} : selected' = (selected + delta) % entries
    BY <1>5 DEF move_selection
  <2>2. selected + delta \in Int
    BY Selection, LoopSame, BoundsAreNumbers
  <2>3. selected' \in 0 .. Presets + Cardinality(Names) - 1
    BY <2>1, <2>2, Selection
  <2> QED
    BY <1>5, <2>3, KeyTypes, LoopSame DEF move_selection, Key, Turn, choice
<1>6. CASE PromptKey
  <2>1. prompt' \in {None, <<"upload">>} \union ({"delete"} \X Names)
    BY <1>6, Selection DEF PromptKey, File
  <2> QED
    BY <1>6, <2>1, KeyTypes, LoopSame DEF PromptKey, Turn
<1>7. CASE RetryKey
  <2>1. PICK id \in DOMAIN operations : Send(<<[kind |-> "retry", id |-> id]>>)
    BY <1>7 DEF RetryKey
  <2>2. id \in 1 .. Len(journal)
    <3>1. operations \in Known(Len(journal)) /\ Len(journal) \in Nat
      BY LenProperties DEF Types, LoopOK, WorkerOK
    <3> QED
      BY <3>1, LenProperties DEF Known
  <2>3. [kind |-> "retry", id |-> id] \in RequestTypes(Len(journal))
    BY <2>2 DEF RequestTypes
  <2> QED
    BY <1>7, <2>1, <2>3, KeyTypes, LoopSame DEF RetryKey, Key, Turn, screen, choice
<1>8. CASE ConfirmDelete
  <2>1. prompt \in {"delete"} \X Names
    BY <1>8, LoopSame DEF ConfirmDelete
  <2>2. [kind |-> "delete", name |-> DeleteTarget] \in RequestTypes(Len(journal))
    BY <2>1 DEF RequestTypes, DeleteTarget, ToDelete
  <2>3. \/ UNCHANGED requests
        \/ Room(1) /\ \E rq \in RequestTypes(Len(journal)) : Send(<<rq>>)
    BY <1>8, <2>2 DEF ConfirmDelete, NoSend
  <2>4. Turn /\ prompt' = None
        /\ UNCHANGED <<tab, files, selected, operations, wizard, upload, pushing, picture, cancel>>
    BY <1>8 DEF ConfirmDelete, Key
  <2> QED
    BY <2>3, <2>4, KeyTypes, LoopSame DEF Turn
<1>9. CASE WizardBack
  BY <1>9, KeyTypes, LoopSame DEF WizardBack, Key, Turn
<1>10. CASE WizardUpload
  <2>1. wizard \in Wizard
    BY <1>10, LoopSame DEF WizardUpload
  <2> DEFINE rq == [kind |-> "upload", path |-> wizard.path, transform |-> wizard.transform]
  <2>2. rq \in RequestTypes(Len(journal)) /\ Send(<<rq>>) /\ Room(1)
    BY <1>10, <2>1 DEF RequestTypes, WizardUpload, Wizard
  <2> HIDE DEF rq
  <2>3. Turn /\ wizard' = None
        /\ UNCHANGED <<tab, files, selected, operations, prompt, upload, pushing, picture, cancel>>
    BY <1>10 DEF WizardUpload, Key
  <2> QED
    BY <2>2, <2>3, KeyTypes, LoopSame DEF Turn
<1> QED
  BY <1>1, <1>2, <1>3, <1>4, <1>5, <1>6, <1>7, <1>8, <1>9, <1>10

\* The keys that ask about a choice of the wizard.
LEMMA AboutTypes ==
    ASSUME Types, ui = "key", NEW w \in Wizard, AskAbout(w),
           UNCHANGED <<previews, preview_order, preview_failures>>
    PROVE  /\ requests' \in Seq(RequestTypes(Len(journal))) /\ Len(requests') \in Nat
           /\ Len(requests') <= MaxRequests /\ PicturesOK' /\ wizard' \in Wizard
<1> DEFINE a == Analyse(w.path, w.transform)
           p == Preview(w)
<1>1. w.path \in Paths /\ w.transform \in Transforms /\ wizard_key(w) \in Keys
  BY DEF Wizard, wizard_key, Keys
<1>2. a \in RequestTypes(Len(journal)) /\ p \in RequestTypes(Len(journal))
  BY <1>1 DEF RequestTypes, Analyse, Preview
<1>3. CASE wizard_key(w) \in DOMAIN previews \union preview_failures \union preview_requested
  <2>1. Room(1) /\ Send(<<a>>) /\ UNCHANGED preview_requested /\ wizard' = w
    BY <1>3 DEF AskAbout
  <2> HIDE DEF a, p
  <2>2. <<a>> \in Seq(RequestTypes(Len(journal))) /\ Len(<<a>>) = 1
    BY <1>2, One
  <2>3. requests' \in Seq(RequestTypes(Len(journal))) /\ Len(requests') = Len(requests) + 1
    BY <2>1, <2>2, Sending
  <2>4. PicturesOK'
    BY <2>1, LoopSame DEF picture
  <2> QED
    BY <2>1, <2>3, <2>4, LoopSame DEF Room
<1>4. CASE wizard_key(w) \notin DOMAIN previews \union preview_failures \union preview_requested
  <2>1. /\ Room(2) /\ Send(<<a, p>>) /\ wizard' = w
        /\ preview_requested' = preview_requested \union {wizard_key(w)}
    BY <1>4 DEF AskAbout
  <2> HIDE DEF a, p
  <2>2. <<a, p>> \in Seq(RequestTypes(Len(journal))) /\ Len(<<a, p>>) = 2
    BY <1>2
  <2>3. requests' \in Seq(RequestTypes(Len(journal))) /\ Len(requests') = Len(requests) + 2
    BY <2>1, <2>2, Sending
  <2>4. PicturesOK'
    BY <1>1, <2>1 DEF Types, PicturesOK
  <2> QED
    BY <2>1, <2>3, <2>4, LoopSame DEF Room
<1> QED
  BY <1>3, <1>4

LEMMA WizardTypes == Types /\ (UploadPath \/ WizardChange) => Types'
<1> SUFFICES ASSUME Types, UploadPath \/ WizardChange PROVE Types'
  OBVIOUS
<1>1. /\ ui = "key" /\ ui' = "draw" /\ UNCHANGED <<events, worker, world>>
      /\ UNCHANGED <<tab, files, selected, operations, upload, pushing, cancel>>
      /\ UNCHANGED <<previews, preview_order, preview_failures>>
      /\ prompt' = None
  BY DEF UploadPath, WizardChange, Key, Turn
<1>2. \/ \E w \in Wizard : AskAbout(w)
      \/ UNCHANGED <<wizard, preview_requested>> /\ NoSend
  <2>1. CASE UploadPath
    <3>1. ASSUME NEW p \in Paths
          PROVE  [path |-> p, transform |-> Default, lines |-> None, acceptable |-> FALSE] \in Wizard
      BY NamesAssumption DEF Wizard
    <3> QED
      BY <2>1, <3>1 DEF UploadPath
  <2>2. CASE WizardChange
    <3>1. wizard \in Wizard
      BY <2>2, LoopSame DEF WizardChange
    <3>2. ASSUME NEW t \in Transforms
          PROVE  [wizard EXCEPT !.transform = t, !.lines = None] \in Wizard
      BY <3>1 DEF Wizard
    <3> QED
      BY <2>2, <3>2 DEF WizardChange
  <2> QED
    BY <2>1, <2>2
<1>3. /\ requests' \in Seq(RequestTypes(Len(journal))) /\ Len(requests') \in Nat
      /\ Len(requests') <= MaxRequests /\ PicturesOK' /\ wizard' \in {None} \union Wizard
  <2>1. CASE \E w \in Wizard : AskAbout(w)
    BY <1>1, <2>1, AboutTypes
  <2>2. CASE UNCHANGED <<wizard, preview_requested>> /\ NoSend
    BY <1>1, <2>2, LoopSame DEF NoSend, picture, InLoop
  <2> QED
    BY <1>2, <2>1, <2>2
<1>4. Len(requests') <= MaxRequests + 1
  BY <1>3, BoundsAreNumbers
<1>5. /\ files' = files /\ operations' = operations /\ upload' = upload
      /\ pushing' = pushing /\ cancel' = cancel /\ tab' = tab /\ selected' = selected
  BY <1>1
<1> QED
  BY <1>1, <1>3, <1>4, <1>5, LoopSame, LoopTypes

LEMMA LeavingTypes == Types /\ (Drained \/ Quit \/ Leave) => Types'
<1> SUFFICES ASSUME Types, Drained \/ Quit \/ Leave PROVE Types'
  OBVIOUS
<1>1. CASE Drained
  <2>1. InLoop
    BY <1>1 DEF Drained, InLoop
  <2> QED
    BY <1>1, <2>1, LoopSame, LoopTypes DEF Drained, screen, choice
<1>2. CASE Quit
  <2>1. InLoop /\ ~InLoop'
    BY <1>2 DEF Quit, InLoop
  <2>2. [kind |-> "quit"] \in RequestTypes(Len(journal))
    BY DEF RequestTypes
  <2>3. /\ <<[kind |-> "quit"]>> \in Seq(RequestTypes(Len(journal)))
        /\ Len(<<[kind |-> "quit"]>>) = 1
    BY <2>2, One
  <2>4. requests' \in Seq(RequestTypes(Len(journal))) /\ Len(requests') = Len(requests) + 1
    BY <1>2, <2>3, Sending DEF Quit, AskToQuit
  <2>5. Len(requests') <= MaxRequests + 1
    BY <2>1, <2>4, LoopSame, BoundsAreNumbers
  <2> QED
    BY <1>2, <2>1, <2>4, <2>5, LoopSame, LoopTypes DEF Quit, screen, choice
<1>3. CASE Leave
  <2>1. ~InLoop'
    BY <1>3 DEF Leave, InLoop
  <2> QED
    BY <1>3, <2>1, LoopSame, LoopTypes DEF Leave, screen, choice
<1> QED
  BY <1>1, <1>2, <1>3

-----------------------------------------------------------------------------
(* The order of the pictures names each once.                              *)

LEMMA Appended ==
    ASSUME NEW S, NEW q \in Seq(S), NoDup(q), NEW x \in S, x \notin ToSet(q)
    PROVE  /\ Append(q, x) \in Seq(S) /\ Len(Append(q, x)) = Len(q) + 1
           /\ NoDup(Append(q, x)) /\ ToSet(Append(q, x)) = ToSet(q) \union {x}
           /\ q # <<>> => Head(Append(q, x)) = Head(q)
<1>1. Len(q) \in Nat /\ DOMAIN q = 1 .. Len(q)
  BY LenProperties
<1>2. /\ Append(q, x) \in Seq(S) /\ Len(Append(q, x)) = Len(q) + 1
      /\ \A i \in 1 .. Len(q) : Append(q, x)[i] = q[i]
      /\ Append(q, x)[Len(q) + 1] = x
  BY AppendProperties
<1>3. DOMAIN Append(q, x) = 1 .. Len(q) + 1
  BY <1>2, LenProperties
<1>4. \A i \in 1 .. Len(q) : q[i] \in ToSet(q) /\ q[i] # x
  BY <1>1 DEF ToSet
<1>5. NoDup(Append(q, x))
  <2> SUFFICES ASSUME NEW i \in 1 .. Len(q) + 1, NEW j \in 1 .. Len(q) + 1,
                      Append(q, x)[i] = Append(q, x)[j]
               PROVE  i = j
    BY <1>2 DEF NoDup
  <2>1. CASE i \in 1 .. Len(q) /\ j \in 1 .. Len(q)
    BY <1>2, <2>1 DEF NoDup
  <2>2. CASE ~(i \in 1 .. Len(q)) \/ ~(j \in 1 .. Len(q))
    BY <1>1, <1>2, <1>4, <2>2
  <2> QED
    BY <2>1, <2>2
<1>6. ToSet(Append(q, x)) = ToSet(q) \union {x}
  <2>1. ASSUME NEW y \in ToSet(Append(q, x)) PROVE y \in ToSet(q) \union {x}
    <3>1. PICK i \in 1 .. Len(q) + 1 : Append(q, x)[i] = y
      BY <1>3 DEF ToSet
    <3>2. i \in 1 .. Len(q) \/ i = Len(q) + 1
      BY <1>1
    <3> QED
      BY <1>2, <1>4, <3>1, <3>2
  <2>2. ASSUME NEW y \in ToSet(q) PROVE y \in ToSet(Append(q, x))
    <3>1. PICK i \in 1 .. Len(q) : q[i] = y
      BY <1>1 DEF ToSet
    <3>2. i \in 1 .. Len(q) + 1 /\ Append(q, x)[i] = y
      BY <1>1, <1>2, <3>1
    <3> QED
      BY <1>3, <3>2 DEF ToSet
  <2>3. x \in ToSet(Append(q, x))
    <3>1. Len(q) + 1 \in 1 .. Len(q) + 1
      BY <1>1
    <3> QED
      BY <1>2, <1>3, <3>1 DEF ToSet
  <2> QED
    BY <2>1, <2>2, <2>3
<1>7. ASSUME q # <<>> PROVE Head(Append(q, x)) = Head(q)
  <2>1. 1 \in 1 .. Len(q)
    BY <1>1, <1>7, EmptySeq
  <2>2. Head(q) = q[1] /\ Head(Append(q, x)) = Append(q, x)[1]
    BY <1>2
  <2> QED
    BY <1>2, <2>1, <2>2
<1> QED
  BY <1>2, <1>5, <1>6, <1>7

LEMMA Shortened ==
    ASSUME NEW S, NEW q \in Seq(S), NoDup(q), q # <<>>
    PROVE  /\ Tail(q) \in Seq(S) /\ Len(Tail(q)) = Len(q) - 1 /\ NoDup(Tail(q))
           /\ ToSet(Tail(q)) = ToSet(q) \ {Head(q)} /\ Head(q) \in S
<1>1. /\ Head(q) \in S /\ Head(q) = q[1] /\ Len(q) \in Nat \ {0}
      /\ Tail(q) \in Seq(S) /\ Len(Tail(q)) = Len(q) - 1
      /\ \A i \in 1 .. Len(q) - 1 : Tail(q)[i] = q[i + 1]
      /\ DOMAIN q = 1 .. Len(q) /\ DOMAIN Tail(q) = 1 .. Len(q) - 1
  BY Taken
<1>2. \A i \in 1 .. Len(q) - 1 : i + 1 \in 1 .. Len(q) /\ 1 \in 1 .. Len(q) /\ i + 1 # 1
  BY <1>1
<1>3. NoDup(Tail(q))
  <2> SUFFICES ASSUME NEW i \in 1 .. Len(q) - 1, NEW j \in 1 .. Len(q) - 1,
                      Tail(q)[i] = Tail(q)[j]
               PROVE  i = j
    BY <1>1 DEF NoDup
  <2>1. q[i + 1] = q[j + 1] /\ i + 1 \in 1 .. Len(q) /\ j + 1 \in 1 .. Len(q)
    BY <1>1, <1>2
  <2>2. i + 1 = j + 1
    BY <2>1 DEF NoDup
  <2> QED
    BY <1>1, <2>2
<1>4. ASSUME NEW y \in ToSet(Tail(q)) PROVE y \in ToSet(q) \ {Head(q)}
  <2>1. PICK i \in 1 .. Len(q) - 1 : Tail(q)[i] = y
    BY <1>1 DEF ToSet
  <2>2. q[i + 1] = y /\ i + 1 \in DOMAIN q
    BY <1>1, <1>2, <2>1
  <2>3. y # q[1]
    BY <1>2, <2>2 DEF NoDup
  <2> QED
    BY <1>1, <2>2, <2>3 DEF ToSet
<1>5. ASSUME NEW y \in ToSet(q) \ {Head(q)} PROVE y \in ToSet(Tail(q))
  <2>1. PICK i \in 1 .. Len(q) : q[i] = y
    BY <1>1 DEF ToSet
  <2>2. i # 1
    BY <1>1, <1>5, <2>1
  <2>3. i - 1 \in 1 .. Len(q) - 1 /\ (i - 1) + 1 = i
    BY <1>1, <2>2
  <2>4. Tail(q)[i - 1] = y
    BY <1>1, <2>1, <2>3
  <2> QED
    BY <1>1, <2>3, <2>4 DEF ToSet
<1> QED
  BY <1>1, <1>3, <1>4, <1>5

\* What a picture that has come in leaves.
LEMMA PictureStored ==
    ASSUME Types, NEW key \in Keys, NEW content \in Sizes \union {0},
           store_preview(key, content), UNCHANGED preview_failures
    PROVE  /\ PicturesOK'
           /\ DOMAIN previews = ToSet(preview_order) /\ DOMAIN previews' = ToSet(preview_order')
           /\ \/ /\ UNCHANGED preview_requested
                 /\ DOMAIN previews' = DOMAIN previews \union {key}
              \/ \E gone \in Keys :
                   /\ preview_requested' = preview_requested \ {gone}
                   /\ DOMAIN previews' = (DOMAIN previews \union {key}) \ {gone}
<1> DEFINE order == IF key \in DOMAIN previews THEN preview_order
                    ELSE Append(preview_order, key)
           all == [k \in DOMAIN previews \union {key} |->
                     IF k = key THEN content ELSE previews[k]]
           full == Full(order)
<1>1. /\ preview_order \in Seq(Keys) /\ NoDup(preview_order)
      /\ previews \in [ToSet(preview_order) -> Sizes \union {0}]
      /\ Len(preview_order) <= PreviewCache /\ Len(preview_order) \in Nat
      /\ preview_failures \subseteq Keys /\ preview_requested \subseteq Keys
  BY LenProperties DEF Types, PicturesOK
<1>2. DOMAIN previews = ToSet(preview_order)
  BY <1>1
<1>3. /\ preview_order' = IF full THEN Tail(order) ELSE order
      /\ previews' = [k \in ToSet(preview_order') |-> all[k]]
      /\ preview_requested' = IF full THEN preview_requested \ {Head(order)} ELSE preview_requested
  BY DEF store_preview, Forget
<1>4. /\ order \in Seq(Keys) /\ NoDup(order) /\ ToSet(order) = DOMAIN previews \union {key}
      /\ Len(order) <= PreviewCache + 1
  <2>1. CASE key \in DOMAIN previews
    BY <1>1, <1>2, <2>1, BoundsAreNumbers
  <2>2. CASE key \notin DOMAIN previews
    BY <1>1, <1>2, <2>2, Appended, BoundsAreNumbers
  <2> QED
    BY <2>1, <2>2
<1> HIDE DEF order
<1>5. \A k \in ToSet(order) : all[k] \in Sizes \union {0}
  BY <1>1, <1>2, <1>4
<1> HIDE DEF all
<1>6. CASE ~full
  <2>1. Len(order) <= PreviewCache
    BY <1>4, <1>6, BoundsAreNumbers, LenProperties DEF Full
  <2>2. preview_order' = order /\ preview_requested' = preview_requested
    BY <1>3, <1>6
  <2>3. previews' \in [ToSet(preview_order') -> Sizes \union {0}]
    BY <1>3, <1>5, <2>2
  <2>4. PicturesOK'
    BY <1>1, <1>4, <2>1, <2>2, <2>3 DEF PicturesOK
  <2>5. DOMAIN previews' = DOMAIN previews \union {key}
    BY <1>4, <2>2, <2>3
  <2> QED
    BY <1>2, <2>2, <2>3, <2>4, <2>5
<1>7. CASE full
  <2>1. Len(order) > PreviewCache /\ order # <<>>
    BY <1>4, <1>7, BoundsAreNumbers, EmptySeq DEF Full
  <2>2. /\ Tail(order) \in Seq(Keys) /\ Len(Tail(order)) = Len(order) - 1
        /\ NoDup(Tail(order)) /\ ToSet(Tail(order)) = ToSet(order) \ {Head(order)}
        /\ Head(order) \in Keys
    BY <1>4, <2>1, Shortened
  <2>3. preview_order' = Tail(order) /\ preview_requested' = preview_requested \ {Head(order)}
    BY <1>3, <1>7
  <2>4. previews' \in [ToSet(preview_order') -> Sizes \union {0}]
    BY <1>3, <1>5, <2>2, <2>3
  <2>5. Len(preview_order') <= PreviewCache
    BY <1>4, <2>2, <2>3, BoundsAreNumbers, LenProperties
  <2>6. PicturesOK'
    BY <1>1, <2>2, <2>3, <2>4, <2>5 DEF PicturesOK
  <2>7. DOMAIN previews' = (DOMAIN previews \union {key}) \ {Head(order)}
    BY <1>4, <2>2, <2>3, <2>4
  <2> QED
    BY <1>2, <2>2, <2>3, <2>4, <2>6, <2>7
<1> QED
  BY <1>6, <1>7

\* What the events of each kind carry.
LEMMA EventFields ==
    ASSUME NEW n \in Nat, NEW e \in EventTypes(n)
    PROVE  /\ e.kind = "media" => e.of \in Lists
           /\ e.kind = "operations" => e.of \in Known(n)
           /\ e.kind \in {"pushing", "progress"} => e.of \in BOOLEAN
           /\ e.kind = "preview" => e.key \in Keys /\ e.of \in Sizes \union {0}
           /\ e.kind = "failed" => e.key \in Keys
           /\ e.kind = "analysis" => /\ e.path \in Paths /\ e.transform \in Transforms
                                     /\ e.ok \in BOOLEAN
           /\ e.kind \in {"media", "operations", "pushing", "progress", "error",
                          "preview", "failed", "analysis"}
BY DEF EventTypes

LEMMA EventTypesHold == Types /\ handle_event => Types'
<1> SUFFICES ASSUME Types, handle_event PROVE Types'
  OBVIOUS
<1> DEFINE e == Head(events)  n == Len(journal)
<1>1. /\ events # <<>> /\ events' = Tail(events)
      /\ UNCHANGED <<ui, requests, cancel, worker, world>>
      /\ \/ EventMedia(e) \/ EventOperations(e) \/ EventPushing(e) \/ EventProgress(e)
         \/ EventAnalysis(e) \/ EventPreview(e) \/ EventPreviewFailed(e) \/ EventError(e)
  BY DEF handle_event
<1>2. n \in Nat /\ events \in Seq(EventTypes(n)) /\ Len(events) <= MaxEvents
  BY LenProperties DEF Types, WorkerOK, QueuesOK
<1> HIDE DEF n
<1>3. /\ e \in EventTypes(n) /\ Tail(events) \in Seq(EventTypes(n))
      /\ Len(Tail(events)) = Len(events) - 1 /\ Len(events) \in Nat \ {0}
  BY <1>1, <1>2, Taken
<1> HIDE DEF e
<1>4. WorkerOK'
  BY <1>1 DEF Types, WorkerOK, worker, world
<1>5. QueuesOK'
  <2>1. Len(events') <= MaxEvents /\ events' \in Seq(EventTypes(n)) /\ journal' = journal
    BY <1>1, <1>2, <1>3, BoundsAreNumbers DEF world
  <2> QED
    BY <1>1, <2>1 DEF n, Types, QueuesOK, InLoop
<1>6. journal' = journal /\ UNCHANGED ui
  BY <1>1 DEF world
<1>7. PicturesOK'
  <2>1. CASE EventPreview(e)
    <3>1. e.key \in Keys /\ e.of \in Sizes \union {0} /\ store_preview(e.key, e.of)
          /\ UNCHANGED preview_failures
      BY <1>2, <1>3, <2>1, EventFields DEF EventPreview
    <3> QED
      BY <3>1, PictureStored
  <2>2. CASE EventPreviewFailed(e)
    <3>1. e.key \in Keys
      BY <1>2, <1>3, <2>2, EventFields DEF EventPreviewFailed
    <3> QED
      BY <2>2, <3>1 DEF EventPreviewFailed, Types, PicturesOK
  <2>3. CASE ~EventPreview(e) /\ ~EventPreviewFailed(e)
    <3>1. UNCHANGED picture
      BY <1>1, <2>3 DEF EventMedia, EventOperations, EventPushing, EventProgress,
                        EventAnalysis, EventError
    <3> QED
      BY <3>1, LoopSame
  <2> QED
    BY <2>1, <2>2, <2>3
<1>8. LoopOK'
  <2>1. CASE EventMedia(e)
    <3>1. e.of \in Lists
      BY <1>2, <1>3, <2>1, EventFields DEF EventMedia
    <3>2. Len(e.of) \in Nat /\ Len(e.of) <= Cardinality(Names)
      BY <3>1, LenProperties DEF Lists
    <3>3. selected' \in 0 .. Presets + Cardinality(Names) - 1
      <4>1. CASE selected < Presets + Len(e.of)
        BY <2>1, <4>1, LoopSame DEF EventMedia
      <4>2. CASE ~(selected < Presets + Len(e.of))
        BY <2>1, <3>2, <4>2, LoopSame, BoundsAreNumbers DEF EventMedia
      <4> QED
        BY <4>1, <4>2
    <3> QED
      BY <1>6, <2>1, <3>1, <3>3 DEF EventMedia, Types, LoopOK, choice
  <2>2. CASE EventOperations(e)
    <3>1. e.of \in Known(n)
      BY <1>2, <1>3, <2>2, EventFields DEF EventOperations
    <3> QED
      BY <1>6, <2>2, <3>1 DEF n, EventOperations, Types, LoopOK, choice
  <2>3. CASE EventPushing(e)
    <3>1. e.of \in BOOLEAN
      BY <1>2, <1>3, <2>3, EventFields DEF EventPushing
    <3> QED
      BY <1>6, <2>3, <3>1 DEF EventPushing, Types, LoopOK, choice
  <2>4. CASE EventProgress(e)
    <3>1. e.of \in BOOLEAN
      BY <1>2, <1>3, <2>4, EventFields DEF EventProgress
    <3> QED
      BY <1>6, <2>4, <3>1 DEF EventProgress, Types, LoopOK, choice
  <2>5. CASE EventAnalysis(e)
    <3>1. e.transform \in Transforms /\ e.ok \in BOOLEAN
      BY <1>2, <1>3, <2>5, EventFields DEF EventAnalysis
    <3>2. ASSUME wizard \in Wizard
          PROVE  [wizard EXCEPT !.lines = <<e.transform, e.ok>>, !.acceptable = e.ok] \in Wizard
      BY <3>1, <3>2 DEF Wizard
    <3>3. wizard' \in {None} \union Wizard
      BY <2>5, <3>2, LoopSame DEF EventAnalysis
    <3> QED
      BY <1>6, <2>5, <3>3 DEF EventAnalysis, Types, LoopOK
  <2>6. CASE EventPreview(e) \/ EventPreviewFailed(e)
    BY <1>6, <2>6 DEF EventPreview, EventPreviewFailed, Types, LoopOK, choice
  <2>7. CASE EventError(e)
    BY <1>6, <2>7 DEF EventError, Types, LoopOK, choice
  <2> QED
    BY <1>1, <2>1, <2>2, <2>3, <2>4, <2>5, <2>6, <2>7
<1> QED
  BY <1>4, <1>5, <1>7, <1>8 DEF Types

-----------------------------------------------------------------------------
(* The steps of the worker: each may take a request, and says something.   *)

LEMMA ListedOK ==
    ASSUME NEW d \in [Names -> Sizes \union {0}]
    PROVE  Listed(d) \in Lists
<1> DEFINE there == {n \in Names : d[n] # 0}
           c == Cardinality(there)
           names == SetToSeq(there)
<1>1. IsFiniteSet(there) /\ c \in Nat /\ c <= Cardinality(Names)
  BY NamesAssumption, FS_Subset, FS_CardinalityType
<1>2. ExistsBijection(1 .. Cardinality(there), there)
  BY <1>1, FS_CardinalityType
<1>3. \E f \in [1 .. Cardinality(there) -> there] : IsInjective(f)
  <2>1. PICK f \in Bijection(1 .. Cardinality(there), there) : TRUE
    BY <1>2 DEF ExistsBijection
  <2>2. f \in [1 .. Cardinality(there) -> there] /\ IsInjective(f)
    BY <2>1 DEF Bijection, Injection, IsInjective
  <2> QED
    BY <2>2
<1>4. names \in [1 .. c -> there]
  BY <1>3 DEF SetToSeq
<1> HIDE DEF names, c
<1>5. \A i \in 1 .. c : names[i] \in Names /\ d[names[i]] \in Sizes
  BY <1>4
<1>6. Listed(d) = [i \in 1 .. c |-> [name |-> names[i], size |-> d[names[i]]]]
  <2>1. DOMAIN names = 1 .. c
    BY <1>4
  <2> QED
    BY <2>1 DEF Listed, names
<1> HIDE DEF there
<1>7. \A i \in 1 .. c : [name |-> names[i], size |-> d[names[i]]] \in File
  BY <1>5 DEF File
<1>8. Listed(d) \in [1 .. c -> File]
  BY <1>6, <1>7
<1>9. c \in Nat /\ c <= Cardinality(Names)
  BY <1>1 DEF there, c
<1>10. Listed(d) \in Seq(File)
  BY <1>8, <1>9
<1>11. Len(Listed(d)) = c
  BY <1>8, <1>9, <1>10, LenProperties
<1> QED
  BY <1>9, <1>10, <1>11 DEF Lists

\* What the worker may say.
LEMMA Sayings ==
    ASSUME NEW n \in Nat
    PROVE  /\ <<>> \in Seq(EventTypes(n)) /\ Error \in Seq(EventTypes(n))
           /\ Done \in Seq(EventTypes(n)) /\ Partly \in Seq(EventTypes(n))
           /\ \A b \in BOOLEAN : Listing("pushing", b) \in Seq(EventTypes(n))
           /\ \A l \in Lists : Listing("media", l) \in Seq(EventTypes(n))
           /\ \A o \in Known(n) : Listing("operations", o) \in Seq(EventTypes(n))
           /\ \A a, b \in Seq(EventTypes(n)) : a \o b \in Seq(EventTypes(n))
<1>1. [kind |-> "error"] \in EventTypes(n)
  BY DEF EventTypes
<1>2. /\ [kind |-> "progress", of |-> TRUE] \in EventTypes(n)
      /\ [kind |-> "progress", of |-> FALSE] \in EventTypes(n)
  BY DEF EventTypes
<1>3. \A b \in BOOLEAN : [kind |-> "pushing", of |-> b] \in EventTypes(n)
  BY DEF EventTypes
<1>4. \A l \in Lists : [kind |-> "media", of |-> l] \in EventTypes(n)
  BY DEF EventTypes
<1>5. \A o \in Known(n) : [kind |-> "operations", of |-> o] \in EventTypes(n)
  BY DEF EventTypes
<1>6. \A a, b \in Seq(EventTypes(n)) : a \o b \in Seq(EventTypes(n))
  BY ConcatProperties
<1>7. Error \in Seq(EventTypes(n))
  BY <1>1 DEF Error
<1>8. Done \in Seq(EventTypes(n)) /\ Partly \in Seq(EventTypes(n))
  BY <1>2 DEF Done, Partly
<1>9. \A b \in BOOLEAN : Listing("pushing", b) \in Seq(EventTypes(n))
  <2> SUFFICES ASSUME NEW b \in BOOLEAN PROVE Listing("pushing", b) \in Seq(EventTypes(n))
    OBVIOUS
  <2>1. [kind |-> "pushing", of |-> b] \in EventTypes(n)
    BY <1>3
  <2> QED
    BY <2>1 DEF Listing
<1>10. \A l \in Lists : Listing("media", l) \in Seq(EventTypes(n))
  <2> SUFFICES ASSUME NEW l \in Lists PROVE Listing("media", l) \in Seq(EventTypes(n))
    OBVIOUS
  <2>1. [kind |-> "media", of |-> l] \in EventTypes(n)
    BY <1>4
  <2> QED
    BY <2>1 DEF Listing
<1>11. \A o \in Known(n) : Listing("operations", o) \in Seq(EventTypes(n))
  <2> SUFFICES ASSUME NEW o \in Known(n) PROVE Listing("operations", o) \in Seq(EventTypes(n))
    OBVIOUS
  <2>1. [kind |-> "operations", of |-> o] \in EventTypes(n)
    BY <1>5
  <2> QED
    BY <2>1 DEF Listing
<1>12. <<>> \in Seq(EventTypes(n))
  OBVIOUS
<1> QED
  BY <1>6, <1>7, <1>8, <1>9, <1>10, <1>11, <1>12

LEMMA Emitting ==
    ASSUME Types, NEW n \in Nat, Len(journal) <= n,
           NEW es \in Seq(EventTypes(n)), Emit(es)
    PROVE  /\ events' \in Seq(EventTypes(n)) /\ Len(events') <= MaxEvents
           /\ InLoop => events' = events \o es
<1>1. Len(journal) \in Nat /\ EventTypes(Len(journal)) \subseteq EventTypes(n)
  BY LenProperties, KnownGrows DEF Types, WorkerOK
<1>2. events \in Seq(EventTypes(n)) /\ Len(events) <= MaxEvents
  <2>1. events \in Seq(EventTypes(Len(journal))) /\ Len(events) <= MaxEvents
    BY DEF Types, QueuesOK
  <2> QED
    BY <1>1, <2>1
<1>3. CASE ui \in {"leaving", "gone"}
  BY <1>2, <1>3 DEF Emit, InLoop
<1>4. CASE ui \notin {"leaving", "gone"}
  BY <1>2, <1>4, Added DEF Emit
<1> QED
  BY <1>3, <1>4

LEMMA WorkerTypes ==
    ASSUME Types, UNCHANGED ui, UNCHANGED screen, cancel' \in BOOLEAN,
           \/ UNCHANGED requests
           \/ requests # <<>> /\ requests' = Tail(requests),
           WorkerOK', Len(journal) <= Len(journal'),
           NEW es \in Seq(EventTypes(Len(journal'))), Emit(es)
    PROVE  Types'
<1> DEFINE n == Len(journal)  m == Len(journal')
<1>1. n \in Nat /\ m \in Nat /\ n <= m
  BY LenProperties DEF Types, WorkerOK
<1>2. /\ Known(n) \subseteq Known(m) /\ RequestTypes(n) \subseteq RequestTypes(m)
  BY <1>1, KnownGrows
<1>3. events' \in Seq(EventTypes(m)) /\ Len(events') <= MaxEvents
  BY <1>1, Emitting
<1>4. /\ requests' \in Seq(RequestTypes(n)) /\ Len(requests') <= MaxRequests + 1
      /\ InLoop => Len(requests') <= MaxRequests
  <2>1. CASE UNCHANGED requests
    BY <2>1, LoopSame
  <2>2. CASE requests # <<>> /\ requests' = Tail(requests)
    <3>1. requests' \in Seq(RequestTypes(n)) /\ Len(requests') = Len(requests) - 1
      BY <2>2, LoopSame, Taken
    <3> QED
      BY <3>1, LoopSame, BoundsAreNumbers
  <2> QED
    BY <2>1, <2>2
<1>5. requests' \in Seq(RequestTypes(m))
  BY <1>2, <1>4
<1>6. QueuesOK'
  BY <1>3, <1>4, <1>5 DEF QueuesOK, InLoop
<1>7. operations' \in Known(m)
  BY <1>2 DEF Types, LoopOK, screen
<1>8. LoopOK'
  BY <1>7 DEF Types, LoopOK, screen, choice
<1>9. PicturesOK'
  <2>1. UNCHANGED picture
    BY DEF screen
  <2> QED
    BY <2>1, LoopSame
<1> QED
  BY <1>6, <1>8, <1>9 DEF Types

\* The request that is handled.
LEMMA RequestFields ==
    ASSUME Types, requests # <<>>
    PROVE  /\ Request.kind = "thumbnail" => Request.file \in File
           /\ Request.kind = "retry" => Request.id \in 1 .. Len(journal)
           /\ Request.kind = "delete" => Request.name \in Names
           /\ Request.kind \in {"analyse", "upload"}
                => Request.path \in Paths /\ Request.transform \in Transforms
           /\ Request.kind = "preview" => Request.key \in Keys
           /\ Request.kind = "push_metrics" => Request.on \in BOOLEAN
<1>1. Request \in RequestTypes(Len(journal))
  BY Taken, LoopSame DEF Request
<1> HIDE DEF Request
<1> QED
  BY <1>1 DEF RequestTypes

\* Everything of the worker, where it does not say otherwise.
LEMMA WorkerSame ==
    ASSUME Types
    PROVE  /\ step \in {"connect", "idle", "encode", "push", "over"}
           /\ connection \in {None, "daemon", "direct", "kanali"}
           /\ adb \in BOOLEAN /\ metrics \in BOOLEAN /\ target \in BOOLEAN
           /\ cancel \in BOOLEAN /\ transfer \in 0 .. MaxTransfers
           /\ device \in [Names -> Sizes \union {0}] /\ journal \in Seq(Record)
           /\ Len(journal) \in Nat /\ Len(journal) <= MaxTransfers
           /\ journal \in Known(Len(journal))
           /\ step \in {"encode", "push"} => transfer \in 1 .. Len(journal)
           /\ unjudged \subseteq Paths \X Transforms
BY LenProperties DEF Types, WorkerOK, QueuesOK, Known

LEMMA ConnectTypes == Types /\ (connect \/ tick) => Types'
<1> SUFFICES ASSUME Types, connect \/ tick PROVE Types'
  OBVIOUS
<1>1. /\ UNCHANGED <<ui, screen, requests, cancel, transfer, unjudged, world>>
      /\ step' = "idle"
      /\ connection' \in {None, "daemon", "direct", "kanali"}
      /\ metrics' \in BOOLEAN /\ adb' \in BOOLEAN
  <2>1. CASE connect
    <3>1. connection' \in {None, "daemon", "direct", "kanali"}
      BY <2>1 DEF connect
    <3>2. adb' \in BOOLEAN
      BY <2>1 DEF connect
    <3> QED
      BY <2>1, <3>1, <3>2 DEF connect
  <2>2. CASE tick
    BY <2>2, WorkerSame DEF tick
  <2> QED
    BY <2>1, <2>2
<1>2. WorkerOK'
  BY <1>1 DEF Types, WorkerOK, world
<1>3. \E es \in Seq(EventTypes(Len(journal))) : Emit(es)
  <2>1. CASE connect
    <3> DEFINE es == (IF metrics' THEN Listing("pushing", TRUE) ELSE <<>>)
                     \o IF connection' = None \/ (target /\ ~adb') THEN Error ELSE <<>>
    <3>1. es \in Seq(EventTypes(Len(journal)))
      BY Sayings, WorkerSame
    <3>2. Emit(es)
      BY <2>1 DEF connect
    <3> QED
      BY <3>1, <3>2
  <2>2. CASE tick
    <3> DEFINE es == Listing("pushing", FALSE) \o Error
    <3>1. es \in Seq(EventTypes(Len(journal)))
      BY Sayings, WorkerSame
    <3>2. Emit(es)
      BY <2>2 DEF tick
    <3> QED
      BY <3>1, <3>2
  <2> QED
    BY <2>1, <2>2
<1>4. journal' = journal /\ cancel' \in BOOLEAN
  BY <1>1, WorkerSame DEF world
<1> QED
  BY <1>1, <1>2, <1>3, <1>4, WorkerSame, WorkerTypes

\* Requests that are answered at once.
LEMMA AnswerTypes ==
    Types /\ (refresh \/ delete \/ analyse \/ thumbnail \/ preview \/ push_metrics)
        => Types'
<1> SUFFICES ASSUME Types, refresh \/ delete \/ analyse \/ thumbnail \/ preview \/ push_metrics
             PROVE  Types'
  OBVIOUS
<1> DEFINE n == Len(journal)
<1>1. /\ UNCHANGED <<ui, screen, cancel, step, transfer, connection, adb, target, journal>>
      /\ requests # <<>> /\ requests' = Tail(requests)
  BY DEF refresh, delete, analyse, thumbnail, preview, push_metrics, Take, Stay
<1>2. n \in Nat /\ journal \in Known(n)
  BY WorkerSame
<1>3. CASE refresh
  <2>1. \E es \in Seq(EventTypes(n)) : Emit(es)
    <3>1. /\ Listing("media", Listed(device)) \o Listing("operations", journal) \in Seq(EventTypes(n))
          /\ Error \in Seq(EventTypes(n))
      BY <1>2, Sayings, ListedOK, WorkerSame
    <3> QED
      BY <1>3, <3>1 DEF refresh
  <2>2. WorkerOK'
    BY <1>1, <1>3 DEF Types, WorkerOK, refresh
  <2> QED
    BY <1>1, <2>1, <2>2, WorkerSame, WorkerTypes
<1>4. CASE delete
  <2>1. Request.name \in Names
    BY <1>4, RequestFields DEF delete, Take, Request
  <2>2. [device EXCEPT ![Request.name] = 0] \in [Names -> Sizes \union {0}]
    BY <2>1, WorkerSame
  <2>3. device' \in [Names -> Sizes \union {0}]
    BY <1>4, <2>2, WorkerSame DEF delete
  <2>4. \E es \in Seq(EventTypes(n)) : Emit(es)
    <3>1. /\ Listing("media", Listed(device')) \in Seq(EventTypes(n))
          /\ Error \in Seq(EventTypes(n))
      BY <1>2, <2>3, Sayings, ListedOK
    <3> QED
      BY <1>4, <3>1 DEF delete
  <2>5. WorkerOK'
    BY <1>1, <1>4, <2>3 DEF Types, WorkerOK, delete
  <2> QED
    BY <1>1, <2>4, <2>5, WorkerSame, WorkerTypes
<1>5. CASE analyse
  <2>1. Request.path \in Paths /\ Request.transform \in Transforms
    BY <1>5, RequestFields DEF analyse, Take, Request
  <2> DEFINE analysed == [kind |-> "analysis", path |-> Request.path,
                         transform |-> Request.transform,
                         ok |-> Choice(Request) \in Fits]
  <2>2. analysed \in EventTypes(n)
    BY <2>1 DEF EventTypes
  <2>3. <<analysed>> \in Seq(EventTypes(n)) /\ Error \in Seq(EventTypes(n))
    BY <1>2, <2>2, Sayings
  <2>4. \E es \in Seq(EventTypes(n)) : Emit(es)
    BY <1>5, <2>3 DEF analyse
  <2>5. unjudged' \subseteq Paths \X Transforms
    BY <1>5, <2>1, WorkerSame DEF analyse, Choice
  <2>6. WorkerOK'
    BY <1>1, <1>5, <2>5 DEF Types, WorkerOK, analyse
  <2> QED
    BY <1>1, <2>4, <2>6, WorkerSame, WorkerTypes
<1>6. CASE thumbnail
  <2>1. Request.file \in File
    BY <1>6, RequestFields DEF thumbnail, Take, Request
  <2> DEFINE key == Thumb(Request.file.name)
             there == [kind |-> "preview", key |-> key, of |-> Request.file.size]
             failed == [kind |-> "failed", key |-> key]
  <2>2. key \in Keys
    BY <2>1 DEF Keys, File
  <2>3. there \in EventTypes(n) /\ failed \in EventTypes(n)
    BY <2>1, <2>2 DEF EventTypes, File
  <2>4. <<there>> \in Seq(EventTypes(n)) /\ <<failed>> \in Seq(EventTypes(n))
    BY <2>3
  <2>5. \E es \in Seq(EventTypes(n)) : Emit(es)
    BY <1>6, <2>4 DEF thumbnail
  <2>6. WorkerOK'
    BY <1>1, <1>6 DEF Types, WorkerOK, thumbnail
  <2> QED
    BY <1>1, <2>5, <2>6, WorkerSame, WorkerTypes
<1>7. CASE preview
  <2>1. Request.key \in Keys
    BY <1>7, RequestFields DEF preview, Take, Request
  <2> DEFINE there == [kind |-> "preview", key |-> Request.key, of |-> 0]
             failed == [kind |-> "failed", key |-> Request.key]
  <2>2. there \in EventTypes(n) /\ failed \in EventTypes(n)
    BY <2>1 DEF EventTypes
  <2>3. <<there>> \in Seq(EventTypes(n)) /\ <<failed>> \in Seq(EventTypes(n))
    BY <2>2
  <2>4. \E es \in Seq(EventTypes(n)) : Emit(es)
    BY <1>7, <2>3 DEF preview
  <2>5. WorkerOK'
    BY <1>1, <1>7 DEF Types, WorkerOK, preview
  <2> QED
    BY <1>1, <2>4, <2>5, WorkerSame, WorkerTypes
<1>8. CASE push_metrics
  <2>1. Request.on \in BOOLEAN
    BY <1>8, RequestFields DEF push_metrics, Take, Request
  <2>2. \E es \in Seq(EventTypes(n)) : Emit(es)
    <3>1. /\ Listing("pushing", Request.on) \in Seq(EventTypes(n))
          /\ Listing("pushing", TRUE) \o Error \in Seq(EventTypes(n))
          /\ Error \in Seq(EventTypes(n))
      BY <1>2, <2>1, Sayings
    <3> QED
      BY <1>8, <3>1 DEF push_metrics
  <2>3. metrics' \in BOOLEAN
    BY <1>8, <2>1, WorkerSame DEF push_metrics
  <2>4. WorkerOK'
    BY <1>1, <1>8, <2>3 DEF Types, WorkerOK, push_metrics
  <2> QED
    BY <1>1, <2>2, <2>4, WorkerSame, WorkerTypes
<1> QED
  BY <1>3, <1>4, <1>5, <1>6, <1>7, <1>8

-----------------------------------------------------------------------------
(* Uploads, from beginning to end.                                         *)

LEMMA BeginTypes ==
    ASSUME Types, step = "idle", NEW p \in Paths, NEW t \in Transforms, Begin(p, t),
           UNCHANGED <<connection, adb, metrics, unjudged, target, device>>
    PROVE  /\ WorkerOK' /\ Len(journal) <= Len(journal') /\ cancel' \in BOOLEAN
           /\ \E es \in Seq(EventTypes(Len(journal'))) : Emit(es)
<1>1. /\ journal \in Seq(Record) /\ Len(journal) \in Nat /\ Len(journal) <= MaxTransfers
      /\ transfer \in 0 .. MaxTransfers /\ cancel \in BOOLEAN
  BY WorkerSame
<1>2. CASE UNCHANGED <<step, transfer, journal, cancel>> /\ Emit(Error)
  <2>1. Error \in Seq(EventTypes(Len(journal')))
    BY <1>1, <1>2, Sayings
  <2>2. WorkerOK'
    BY <1>2 DEF Types, WorkerOK
  <2> QED
    BY <1>1, <1>2, <2>1, <2>2
<1>3. CASE ~(UNCHANGED <<step, transfer, journal, cancel>> /\ Emit(Error))
  <2>1. /\ Len(journal) < MaxTransfers
        /\ \/ /\ journal' = Append(journal, Begun(p, t))
              /\ transfer' = Len(journal) + 1
              /\ \/ step' = "encode" /\ ResetFlag /\ Emit(<<>>)
                 \/ step' = "push" /\ UNCHANGED cancel /\ Emit(Done)
           \/ /\ journal' = Append(journal, Unkeyed(p, t))
              /\ Emit(Error) /\ UNCHANGED <<step, transfer, cancel>>
    BY <1>3 DEF Begin
  <2>2. Begun(p, t) \in Record /\ Unkeyed(p, t) \in Record
    BY DEF Begun, Unkeyed, Record
  <2>3. \E r \in Record : journal' = Append(journal, r)
    BY <2>1, <2>2
  <2>4. journal' \in Seq(Record) /\ Len(journal') = Len(journal) + 1
    BY <1>1, <2>3, AppendProperties
  <2>5. Len(journal') \in Nat /\ Len(journal') <= MaxTransfers /\ Len(journal) <= Len(journal')
    BY <1>1, <2>1, <2>4, BoundsAreNumbers
  <2>6. /\ step' \in {"idle", "encode", "push"} /\ transfer' \in 0 .. MaxTransfers
        /\ step' \in {"encode", "push"} => transfer' \in 1 .. Len(journal')
    <3>1. CASE transfer' = Len(journal) + 1 /\ step' \in {"encode", "push"}
      <4>1. transfer' \in 0 .. MaxTransfers /\ transfer' \in 1 .. Len(journal')
        BY <1>1, <2>4, <2>5, <3>1
      <4> QED
        BY <3>1, <4>1
    <3>2. CASE UNCHANGED <<step, transfer>>
      BY <1>1, <3>2
    <3> QED
      BY <2>1, <3>1, <3>2
  <2>7. WorkerOK'
    BY <2>4, <2>5, <2>6 DEF Types, WorkerOK
  <2>8. cancel' \in BOOLEAN
    BY <1>1, <2>1 DEF ResetFlag
  <2>9. /\ <<>> \in Seq(EventTypes(Len(journal'))) /\ Done \in Seq(EventTypes(Len(journal')))
        /\ Error \in Seq(EventTypes(Len(journal')))
    BY <2>5, Sayings
  <2> QED
    BY <2>1, <2>5, <2>7, <2>8, <2>9
<1> QED
  BY <1>2, <1>3

LEMMA UploadTypes == Types /\ (upload_request \/ retry) => Types'
<1> SUFFICES ASSUME Types, upload_request \/ retry PROVE Types'
  OBVIOUS
<1>1. /\ UNCHANGED <<ui, screen, connection, adb, metrics, unjudged, target, device>>
      /\ step = "idle" /\ requests # <<>> /\ requests' = Tail(requests)
  BY DEF upload_request, retry
<1>2. \/ \E p \in Paths, t \in Transforms : Begin(p, t)
      \/ Emit(Error) /\ UNCHANGED <<step, transfer, journal, cancel>>
  <2>1. CASE upload_request
    <3>1. Request.path \in Paths /\ Request.transform \in Transforms
      BY <1>1, <2>1, RequestFields DEF upload_request
    <3> QED
      BY <2>1, <3>1 DEF upload_request
  <2>2. CASE retry
    <3>1. Request.id \in 1 .. Len(journal)
      BY <1>1, <2>2, RequestFields DEF retry
    <3>2. journal[Request.id] \in Record
      BY <3>1, WorkerSame, ElementOfSeq
    <3>3. journal[Request.id].path \in Paths /\ journal[Request.id].transform \in Transforms
      BY <3>2 DEF Record
    <3> QED
      BY <2>2, <3>3 DEF retry
  <2> QED
    BY <2>1, <2>2
<1>3. /\ WorkerOK' /\ Len(journal) <= Len(journal') /\ cancel' \in BOOLEAN
      /\ \E es \in Seq(EventTypes(Len(journal'))) : Emit(es)
  <2>1. CASE \E p \in Paths, t \in Transforms : Begin(p, t)
    BY <1>1, <2>1, BeginTypes
  <2>2. CASE Emit(Error) /\ UNCHANGED <<step, transfer, journal, cancel>>
    <3>1. Error \in Seq(EventTypes(Len(journal'))) /\ Len(journal) <= Len(journal')
      BY <2>2, Sayings, WorkerSame
    <3>2. WorkerOK'
      BY <1>1, <2>2 DEF Types, WorkerOK
    <3> QED
      BY <2>2, <3>1, <3>2, WorkerSame
  <2> QED
    BY <1>2, <2>1, <2>2
<1> QED
  BY <1>1, <1>3, WorkerTypes

\* The outcome of the transfer that runs.
LEMMA OutcomeOK ==
    ASSUME Types, transfer \in 1 .. Len(journal), NEW o \in {"ok", "failed"}, Outcome(o)
    PROVE  journal' \in Seq(Record) /\ Len(journal') = Len(journal)
<1> DEFINE r == [journal[transfer] EXCEPT !.outcome = o]
<1>1. journal \in Seq(Record)
  BY WorkerSame
<1>2. journal[transfer] \in Record
  BY <1>1, ElementOfSeq
<1>3. r \in Record
  BY <1>2 DEF Record
<1>4. journal' = [journal EXCEPT ![transfer] = r]
  BY DEF Outcome
<1> HIDE DEF r
<1> QED
  BY <1>1, <1>3, <1>4, ExceptSeq

LEMMA WorkingTypes == Types /\ (Progress \/ EncodeEnds \/ PushProgress \/ PushEnds) => Types'
<1> SUFFICES ASSUME Types, Progress \/ EncodeEnds \/ PushProgress \/ PushEnds PROVE Types'
  OBVIOUS
<1>1. /\ UNCHANGED <<ui, screen, requests, cancel, connection, adb, metrics, unjudged, target>>
      /\ step \in {"encode", "push"}
  BY DEF Progress, EncodeEnds, PushProgress, PushEnds, Working
<1>2. transfer \in 1 .. Len(journal)
  BY <1>1, WorkerSame
<1>3. /\ step' \in {"idle", "encode", "push"}
      /\ \/ transfer' = transfer
         \/ step' = "idle" /\ transfer' = 0
  BY <1>1 DEF Progress, EncodeEnds, PushProgress, PushEnds, Working, Cancelled
<1>4. journal' \in Seq(Record) /\ Len(journal') = Len(journal)
  <2>1. journal' = journal \/ Outcome("failed") \/ Outcome("ok")
    BY DEF Progress, EncodeEnds, PushProgress, PushEnds, Cancelled
  <2>2. CASE journal' = journal
    BY <2>2, WorkerSame
  <2>3. CASE Outcome("failed")
    BY <1>2, <2>3, OutcomeOK
  <2>4. CASE Outcome("ok")
    BY <1>2, <2>4, OutcomeOK
  <2> QED
    BY <2>1, <2>2, <2>3, <2>4
<1>5. device' \in [Names -> Sizes \union {0}]
  <2>1. CASE device' = device
    BY <2>1, WorkerSame
  <2>2. CASE device' # device
    <3>1. PICK size \in Sizes :
            device' = [device EXCEPT ![RemoteName[journal[transfer].path]] = size]
      BY <2>2 DEF Progress, EncodeEnds, PushProgress, PushEnds
    <3> QED
      BY <3>1, WorkerSame
  <2> QED
    BY <2>1, <2>2
<1>6. transfer' \in 0 .. MaxTransfers /\ (step' \in {"encode", "push"} => transfer' \in 1 .. Len(journal'))
  <2>1. CASE transfer' = transfer
    BY <1>2, <1>4, <2>1, WorkerSame
  <2>2. CASE step' = "idle" /\ transfer' = 0
    BY <2>2, BoundsAreNumbers
  <2> QED
    BY <1>3, <2>1, <2>2
<1>7. WorkerOK'
  <2>1. Len(journal') <= MaxTransfers
    BY <1>4, WorkerSame
  <2> QED
    BY <1>1, <1>3, <1>4, <1>5, <1>6, <2>1 DEF Types, WorkerOK
<1>8. \E es \in Seq(EventTypes(Len(journal'))) : Emit(es)
  <2> DEFINE n == Len(journal')
  <2>1. n \in Nat /\ journal' \in Known(n) /\ Listed(device') \in Lists
    BY <1>4, <1>5, ListedOK, LenProperties DEF Known
  <2>2. /\ <<>> \in Seq(EventTypes(n)) /\ Error \in Seq(EventTypes(n))
        /\ Done \in Seq(EventTypes(n)) /\ Partly \in Seq(EventTypes(n))
        /\ Listing("media", Listed(device')) \in Seq(EventTypes(n))
        /\ Listing("operations", journal') \in Seq(EventTypes(n))
        /\ \A a, b \in Seq(EventTypes(n)) : a \o b \in Seq(EventTypes(n))
    BY <2>1, Sayings
  <2> HIDE DEF n
  <2>3. Done \o Error \in Seq(EventTypes(n))
    BY <2>2
  <2>4. Done \o Listing("operations", journal') \in Seq(EventTypes(n))
    BY <2>2
  <2>5. \A list \in {Listing("media", Listed(device')), Error} :
          (Done \o Listing("operations", journal')) \o list \in Seq(EventTypes(n))
    BY <2>2, <2>4
  <2>6. CASE Progress
    BY <2>2, <2>3, <2>6 DEF Progress, n
  <2>7. CASE EncodeEnds
    BY <2>2, <2>3, <2>7 DEF EncodeEnds, n
  <2>8. CASE PushProgress
    BY <2>2, <2>8 DEF PushProgress, n
  <2>9. CASE PushEnds
    BY <2>5, <2>9 DEF PushEnds, Finish, n
  <2> QED
    BY <2>6, <2>7, <2>8, <2>9
<1>9. Len(journal) <= Len(journal') /\ cancel' \in BOOLEAN
  BY <1>1, <1>4, WorkerSame
<1> QED
  BY <1>1, <1>7, <1>8, <1>9, WorkerTypes

LEMMA QuitTypes == Types /\ quit => Types'
<1> SUFFICES ASSUME Types, quit PROVE Types'
  OBVIOUS
<1>1. /\ requests' \in Seq(RequestTypes(Len(journal))) /\ Len(requests') = Len(requests) - 1
  BY LoopSame, Taken DEF quit
<1>2. Len(requests') <= MaxRequests + 1 /\ (InLoop => Len(requests') <= MaxRequests)
  BY <1>1, LoopSame, BoundsAreNumbers
<1>3. UNCHANGED <<ui, screen, events, cancel, connection, adb, metrics, transfer, unjudged,
                   world>>
      /\ step' = "over"
  BY DEF quit
<1>4. QueuesOK'
  BY <1>1, <1>2, <1>3 DEF Types, QueuesOK, InLoop, world
<1>5. LoopOK'
  BY <1>3 DEF Types, LoopOK, screen, choice, world
<1>6. PicturesOK'
  BY <1>3, LoopSame DEF screen
<1>7. WorkerOK'
  BY <1>3 DEF Types, WorkerOK, world
<1> QED
  BY <1>4, <1>5, <1>6, <1>7 DEF Types

LEMMA SameTypes == Types /\ UNCHANGED vars => Types'
<1> SUFFICES ASSUME Types, UNCHANGED vars PROVE Types'
  OBVIOUS
<1>1. LoopOK' /\ PicturesOK'
  BY DEF vars, screen, choice, picture, world, Types, LoopOK, PicturesOK
<1>2. QueuesOK' /\ WorkerOK'
  BY DEF vars, worker, world, Types, QueuesOK, WorkerOK, InLoop
<1> QED
  BY <1>1, <1>2 DEF Types

LEMMA NextTypes == Types /\ [Next]_vars => Types'
<1> SUFFICES ASSUME Types, [Next]_vars PROVE Types'
  OBVIOUS
<1>1. CASE Draw
  BY <1>1, DrawTypes
<1>2. CASE handle_event
  BY <1>2, EventTypesHold
<1>3. CASE Drained \/ Quit \/ Leave
  BY <1>3, LeavingTypes
<1>4. CASE Keypress
  BY <1>4, PlainKeys, WizardTypes DEF Keypress
<1>5. CASE connect \/ tick
  BY <1>5, ConnectTypes
<1>6. CASE handle
  BY <1>6, AnswerTypes, UploadTypes, QuitTypes DEF handle
<1>7. CASE Progress \/ EncodeEnds \/ PushProgress \/ PushEnds
  BY <1>7, WorkingTypes
<1>8. CASE UNCHANGED vars
  BY <1>8, SameTypes
<1> QED
  BY <1>1, <1>2, <1>3, <1>4, <1>5, <1>6, <1>7, <1>8 DEF Next

\* Each picture is in the order once: as many of them as there are pictures.
LEMMA OrderCounts ==
    ASSUME NEW S, NEW q \in Seq(S), NoDup(q)
    PROVE  Len(q) = Cardinality(ToSet(q))
<1>1. Len(q) \in Nat /\ DOMAIN q = 1 .. Len(q)
  BY LenProperties
<1>2. q \in Bijection(1 .. Len(q), ToSet(q))
  <2>1. q \in [1 .. Len(q) -> ToSet(q)]
    BY <1>1, LenProperties DEF ToSet
  <2>2. \A a, b \in 1 .. Len(q) : q[a] = q[b] => a = b
    BY DEF NoDup
  <2>3. \A y \in ToSet(q) : \E i \in 1 .. Len(q) : q[i] = y
    BY <1>1 DEF ToSet
  <2> QED
    BY <2>1, <2>2, <2>3 DEF Bijection, Injection, Surjection, IsInjective
<1>3. ExistsBijection(1 .. Len(q), ToSet(q))
  BY <1>2 DEF ExistsBijection
<1>4. IsFiniteSet(1 .. Len(q)) /\ Cardinality(1 .. Len(q)) = Len(q)
  <2> DEFINE a == 1
             b == Len(q)
  <2>1. a \in Int /\ b \in Int
    BY <1>1
  <2> HIDE DEF a, b
  <2>2. IsFiniteSet(a .. b) /\ Cardinality(a .. b) = IF a > b THEN 0 ELSE b - a + 1
    BY <2>1, FS_Interval
  <2> QED
    BY <1>1, <2>2 DEF a, b
<1> QED
  BY <1>3, <1>4, FS_Bijection

LEMMA TypesTell == Types => TypeOK
<1> SUFFICES ASSUME Types PROVE TypeOK
  OBVIOUS
<1>1. Len(preview_order) = Cardinality(DOMAIN previews) /\ Len(preview_order) <= PreviewCache
      /\ previews \in [ToSet(preview_order) -> Sizes \union {0}]
      /\ preview_failures \subseteq Keys /\ preview_requested \subseteq Keys
  <2>1. Len(preview_order) = Cardinality(ToSet(preview_order))
    BY OrderCounts DEF Types, PicturesOK
  <2> QED
    BY <2>1 DEF Types, PicturesOK
<1>2. /\ ui \in {"draw", "drain", "key", "leaving", "gone"} /\ tab \in {"library", "other"}
      /\ files \in Seq(File) /\ selected \in 0 .. Presets + Cardinality(Names) - 1
      /\ operations \in Seq(Record)
      /\ prompt \in {None, <<"upload">>} \union ({"delete"} \X Names)
      /\ wizard \in {None} \union Wizard /\ upload \in BOOLEAN /\ pushing \in BOOLEAN
  BY DEF Types, LoopOK, Lists, Known
<1>3. Len(requests) <= MaxRequests + 1 /\ Len(events) <= MaxEvents
  BY DEF Types, QueuesOK
<1> QED
  BY <1>1, <1>2, <1>3, WorkerSame DEF TypeOK

LEMMA TypesHold == Spec => []Types
<1>1. Init => Types
  BY InitTypes
<1>2. Types /\ [Next]_vars => Types'
  BY NextTypes
<1> QED
  BY <1>1, <1>2, PTL DEF Spec

\* The types of everything the two threads have and share: the cursor is on an
\* entry there may be, the cache is within its bound and in the order's terms,
\* and nobody queues more than the other side can hold.
THEOREM TypeCorrect == Spec => []TypeOK
<1>1. Types => TypeOK
  BY TypesTell
<1> QED
  BY <1>1, TypesHold, PTL

-----------------------------------------------------------------------------
(* What the events say.  Of each topic (the push, the upload, the verdict  *)
(* on a file) the last event in the queue that speaks of it is what the    *)
(* loop will show, and without one it is what the loop shows already.  Of  *)
(* the requests, the last that asks for a verdict on a file is the one.    *)

Pushing == <<"push">>
Uploading == <<"up">>
Verdict(p) == <<"verdict", p>>
Question(p) == <<"question", p>>

Speaks(t, e) ==
    \/ t[1] = "push" /\ e.kind = "pushing"
    \/ t[1] = "up" /\ e.kind \in {"progress", "error"}
    \/ t[1] = "verdict" /\ e.kind = "analysis" /\ e.path = t[2]
    \/ t[1] = "question" /\ e.kind = "analyse" /\ e.path = t[2]
Word(e) == IF e.kind = "error" THEN FALSE
           ELSE IF e.kind = "analyse" THEN e.transform
           ELSE IF e.kind = "analysis" THEN <<e.transform, e.ok>> ELSE e.of

Silent(t, es) == \A i \in DOMAIN es : ~Speaks(t, es[i])
Says(t, es, v) ==
    \E i \in DOMAIN es :
        /\ Speaks(t, es[i]) /\ Word(es[i]) = v
        /\ \A j \in DOMAIN es : j > i => ~Speaks(t, es[j])
Tells(t, es, now, v) == (Silent(t, es) /\ now = v) \/ Says(t, es, v)

LEMMA SaysOne ==
    ASSUME NEW t, NEW e
    PROVE  /\ ~Speaks(t, e) => Silent(t, <<e>>)
           /\ Speaks(t, e) => Says(t, <<e>>, Word(e))
<1>1. DOMAIN <<e>> = {1} /\ <<e>>[1] = e
  OBVIOUS
<1>2. ~Speaks(t, e) => Silent(t, <<e>>)
  BY <1>1 DEF Silent
<1>3. ASSUME Speaks(t, e) PROVE Says(t, <<e>>, Word(e))
  <2>1. \A j \in {1} : ~(j > 1)
    OBVIOUS
  <2> QED
    BY <1>1, <1>3, <2>1 DEF Says
<1> QED
  BY <1>2, <1>3

LEMMA SaysBoth ==
    ASSUME NEW S, NEW q \in Seq(S), NEW r \in Seq(S), NEW t
    PROVE  /\ Silent(t, q) /\ Silent(t, r) => Silent(t, q \o r)
           /\ \A v : Says(t, r, v) => Says(t, q \o r, v)
           /\ \A v : Says(t, q, v) /\ Silent(t, r) => Says(t, q \o r, v)
<1> DEFINE s == q \o r  n == Len(q)  m == Len(r)
<1>1. /\ n \in Nat /\ m \in Nat /\ DOMAIN s = 1 .. (n + m) /\ DOMAIN q = 1 .. n /\ DOMAIN r = 1 .. m
      /\ \A i \in 1 .. n : s[i] = q[i]
      /\ \A i \in 1 .. m : s[n + i] = r[i]
  BY Added, LenProperties
<1> HIDE DEF s, n, m
<1>2. ASSUME NEW j \in 1 .. (n + m), ~(j \in 1 .. n) PROVE j - n \in 1 .. m /\ n + (j - n) = j
  BY <1>1, <1>2
<1>3. ASSUME Silent(t, r), NEW j \in 1 .. (n + m), ~(j \in 1 .. n) PROVE ~Speaks(t, s[j])
  <2>1. j - n \in 1 .. m /\ s[j] = r[j - n]
    BY <1>1, <1>2, <1>3
  <2> QED
    BY <1>1, <1>3, <2>1 DEF Silent
<1>4. ASSUME Silent(t, q), Silent(t, r) PROVE Silent(t, s)
  <2> SUFFICES ASSUME NEW j \in 1 .. (n + m) PROVE ~Speaks(t, s[j])
    BY <1>1 DEF Silent
  <2>1. CASE j \in 1 .. n
    BY <1>1, <1>4, <2>1 DEF Silent
  <2> QED
    BY <1>3, <1>4, <2>1
<1>5. ASSUME NEW v, Says(t, r, v) PROVE Says(t, s, v)
  <2>1. PICK i \in 1 .. m : /\ Speaks(t, r[i]) /\ Word(r[i]) = v
                            /\ \A j \in 1 .. m : j > i => ~Speaks(t, r[j])
    BY <1>1, <1>5 DEF Says
  <2>2. n + i \in 1 .. (n + m) /\ s[n + i] = r[i]
    BY <1>1
  <2>3. ASSUME NEW j \in 1 .. (n + m), j > n + i PROVE ~Speaks(t, s[j])
    <3>1. ~(j \in 1 .. n)
      BY <1>1, <2>3
    <3>2. j - n \in 1 .. m /\ n + (j - n) = j
      BY <1>2, <3>1
    <3>3. j - n > i
      BY <1>1, <2>3
    <3>4. s[j] = r[j - n]
      BY <1>1, <3>2
    <3> QED
      BY <2>1, <3>2, <3>3, <3>4
  <2> QED
    BY <1>1, <2>1, <2>2, <2>3 DEF Says
<1>6. ASSUME NEW v, Says(t, q, v), Silent(t, r) PROVE Says(t, s, v)
  <2>1. PICK i \in 1 .. n : /\ Speaks(t, q[i]) /\ Word(q[i]) = v
                            /\ \A j \in 1 .. n : j > i => ~Speaks(t, q[j])
    BY <1>1, <1>6 DEF Says
  <2>2. i \in 1 .. (n + m) /\ s[i] = q[i]
    BY <1>1
  <2>3. ASSUME NEW j \in 1 .. (n + m), j > i PROVE ~Speaks(t, s[j])
    <3>1. CASE j \in 1 .. n
      BY <1>1, <2>1, <2>3, <3>1
    <3>2. CASE ~(j \in 1 .. n)
      BY <1>3, <1>6, <3>2
    <3> QED
      BY <3>1, <3>2
  <2> QED
    BY <1>1, <2>1, <2>2, <2>3 DEF Says
<1> QED
  BY <1>4, <1>5, <1>6 DEF s

\* More events, and one less.
LEMMA TellsMore ==
    ASSUME NEW S, NEW q \in Seq(S), NEW r \in Seq(S), NEW t, NEW now, NEW v, NEW u,
           Tells(t, q, now, v), Says(t, r, u) \/ (Silent(t, r) /\ u = v)
    PROVE  Tells(t, q \o r, now, u)
BY SaysBoth DEF Tells

LEMMA SaysLess ==
    ASSUME NEW S, NEW q \in Seq(S), q # <<>>, NEW t
    PROVE  /\ Silent(t, q) => Silent(t, Tail(q)) /\ ~Speaks(t, Head(q))
           /\ \A v : Says(t, q, v) =>
                \/ Says(t, Tail(q), v)
                \/ Silent(t, Tail(q)) /\ Speaks(t, Head(q)) /\ Word(Head(q)) = v
<1> DEFINE r == Tail(q)  n == Len(q)
<1>1. /\ Head(q) = q[1] /\ n \in Nat \ {0}
      /\ \A i \in 1 .. n - 1 : r[i] = q[i + 1]
      /\ DOMAIN q = 1 .. n /\ DOMAIN r = 1 .. n - 1
  BY Taken
<1> HIDE DEF r, n
<1>2. /\ \A i \in 1 .. n - 1 : i + 1 \in 1 .. n /\ i + 1 > 1
      /\ 1 \in 1 .. n
  BY <1>1
<1>3. ASSUME Silent(t, q) PROVE Silent(t, r) /\ ~Speaks(t, q[1])
  BY <1>1, <1>2, <1>3 DEF Silent
<1>4. ASSUME NEW v, Says(t, q, v)
      PROVE  Says(t, r, v) \/ (Silent(t, r) /\ Speaks(t, q[1]) /\ Word(q[1]) = v)
  <2>1. PICK i \in 1 .. n : /\ Speaks(t, q[i]) /\ Word(q[i]) = v
                            /\ \A j \in 1 .. n : j > i => ~Speaks(t, q[j])
    BY <1>1, <1>4 DEF Says
  <2>2. CASE i = 1
    <3>1. Silent(t, r)
      BY <1>1, <1>2, <2>1, <2>2 DEF Silent
    <3> QED
      BY <2>1, <2>2, <3>1
  <2>3. CASE i # 1
    <3>1. i - 1 \in 1 .. n - 1 /\ (i - 1) + 1 = i
      BY <1>1, <2>3
    <3>2. r[i - 1] = q[i]
      BY <1>1, <3>1
    <3>3. ASSUME NEW j \in 1 .. n - 1, j > i - 1 PROVE ~Speaks(t, r[j])
      <4>1. j + 1 \in 1 .. n /\ j + 1 > i /\ r[j] = q[j + 1]
        BY <1>1, <1>2, <3>3
      <4> QED
        BY <2>1, <4>1
    <3> QED
      BY <1>1, <2>1, <3>1, <3>2, <3>3 DEF Says
  <2> QED
    BY <2>2, <2>3
<1> QED
  BY <1>1, <1>3, <1>4 DEF r

LEMMA TellsLess ==
    ASSUME NEW S, NEW q \in Seq(S), q # <<>>, NEW t, NEW now, NEW v, Tells(t, q, now, v)
    PROVE  Tells(t, Tail(q), IF Speaks(t, Head(q)) THEN Word(Head(q)) ELSE now, v)
BY SaysLess DEF Tells

\* What each thing the worker says tells of the push and of the upload.
Mute(es) == \A p \in Paths : Silent(Verdict(p), es)

LEMMA Words ==
    ASSUME NEW n \in Nat
    PROVE  /\ Silent(Pushing, <<>>) /\ Silent(Uploading, <<>>) /\ Mute(<<>>)
           /\ Silent(Pushing, Error) /\ Says(Uploading, Error, FALSE) /\ Mute(Error)
           /\ Silent(Pushing, Done) /\ Says(Uploading, Done, FALSE) /\ Mute(Done)
           /\ Silent(Pushing, Partly) /\ Mute(Partly)
           /\ \A b : /\ Says(Pushing, Listing("pushing", b), b)
                     /\ Silent(Uploading, Listing("pushing", b)) /\ Mute(Listing("pushing", b))
           /\ \A k \in {"media", "operations"} : \A l :
                /\ Silent(Pushing, Listing(k, l)) /\ Silent(Uploading, Listing(k, l))
                /\ Mute(Listing(k, l))
<1>1. Silent(Pushing, <<>>) /\ Silent(Uploading, <<>>) /\ Mute(<<>>)
  BY DEF Silent, Mute
<1>2. Silent(Pushing, Error) /\ Says(Uploading, Error, FALSE) /\ Mute(Error)
  <2> DEFINE e == [kind |-> "error"]
  <2>1. ~Speaks(Pushing, e) /\ Speaks(Uploading, e) /\ \A p \in Paths : ~Speaks(Verdict(p), e)
    BY DEF Speaks, Pushing, Uploading, Verdict
  <2>2. Word(e) = FALSE
    BY DEF Word
  <2> HIDE DEF e
  <2>3. Silent(Pushing, <<e>>) /\ Says(Uploading, <<e>>, FALSE) /\ Mute(<<e>>)
    BY <2>1, <2>2, SaysOne DEF Mute
  <2> QED
    BY <2>3 DEF Error, e
<1>3. ASSUME NEW b
      PROVE  LET es == <<[kind |-> "progress", of |-> b]>>
             IN Silent(Pushing, es) /\ Says(Uploading, es, b) /\ Mute(es)
  <2> DEFINE e == [kind |-> "progress", of |-> b]
  <2>1. ~Speaks(Pushing, e) /\ Speaks(Uploading, e) /\ \A p \in Paths : ~Speaks(Verdict(p), e)
    BY DEF Speaks, Pushing, Uploading, Verdict
  <2>2. Word(e) = b
    BY DEF Word
  <2> HIDE DEF e
  <2>3. Silent(Pushing, <<e>>) /\ Says(Uploading, <<e>>, b) /\ Mute(<<e>>)
    BY <2>1, <2>2, SaysOne DEF Mute
  <2> QED
    BY <2>3 DEF e
<1>4. ASSUME NEW b
      PROVE  /\ Says(Pushing, Listing("pushing", b), b)
             /\ Silent(Uploading, Listing("pushing", b)) /\ Mute(Listing("pushing", b))
  <2> DEFINE e == [kind |-> "pushing", of |-> b]
  <2>1. Speaks(Pushing, e) /\ ~Speaks(Uploading, e) /\ \A p \in Paths : ~Speaks(Verdict(p), e)
    BY DEF Speaks, Pushing, Uploading, Verdict
  <2>2. Word(e) = b
    BY DEF Word
  <2> HIDE DEF e
  <2>3. Says(Pushing, <<e>>, b) /\ Silent(Uploading, <<e>>) /\ Mute(<<e>>)
    BY <2>1, <2>2, SaysOne DEF Mute
  <2> QED
    BY <2>3 DEF Listing, e
<1>5. ASSUME NEW k \in {"media", "operations"}, NEW l
      PROVE  /\ Silent(Pushing, Listing(k, l)) /\ Silent(Uploading, Listing(k, l))
             /\ Mute(Listing(k, l))
  <2> DEFINE e == [kind |-> k, of |-> l]
  <2>1. ~Speaks(Pushing, e) /\ ~Speaks(Uploading, e) /\ \A p \in Paths : ~Speaks(Verdict(p), e)
    BY DEF Speaks, Pushing, Uploading, Verdict
  <2> HIDE DEF e
  <2>2. Silent(Pushing, <<e>>) /\ Silent(Uploading, <<e>>) /\ Mute(<<e>>)
    BY <2>1, SaysOne DEF Mute
  <2> QED
    BY <2>2 DEF Listing, e
<1>6. Silent(Pushing, Done) /\ Says(Uploading, Done, FALSE) /\ Mute(Done)
  BY <1>3 DEF Done
<1>7. Silent(Pushing, Partly) /\ Mute(Partly)
  BY <1>3 DEF Partly
<1> QED
  BY <1>1, <1>2, <1>4, <1>5, <1>6, <1>7

-----------------------------------------------------------------------------
(* Who asks for a picture, and who answers.                                *)

Asks(r, key) ==
    \/ r.kind = "thumbnail" /\ key = Thumb(r.file.name)
    \/ r.kind = "preview" /\ key = r.key
Answers(e, key) == e.kind \in {"preview", "failed"} /\ e.key = key

LEMMA TheWay ==
    ASSUME NEW key
    PROVE  OnItsWay(key) <=> \/ \E i \in DOMAIN requests : Asks(requests[i], key)
                             \/ \E i \in DOMAIN events : Answers(events[i], key)
BY DEF OnItsWay, Asks, Answers

-----------------------------------------------------------------------------
(* What a step of the loop asks for.                                       *)

LoopStep == Draw \/ Drained \/ Keypress \/ Quit \/ Leave

Asked(rs) ==
    /\ rs \in Seq(RequestTypes(Len(journal))) /\ requests' = requests \o rs
    /\ \A i \in DOMAIN rs : rs[i].kind = "delete" => prompt = <<"delete", rs[i].name>>
    /\ \A k \in preview_requested' \ preview_requested : \E i \in DOMAIN rs : Asks(rs[i], k)
    /\ \/ wizard' = None
       \/ wizard' = wizard /\ \A i \in DOMAIN rs : rs[i].kind # "analyse"
       \/ \E i \in DOMAIN rs :
            /\ rs[i] = Analyse(wizard'.path, wizard'.transform)
            /\ \A j \in DOMAIN rs : j > i => rs[j].kind # "analyse"

LEMMA AskedNothing ==
    ASSUME Types, UNCHANGED requests, UNCHANGED preview_requested, wizard' \in {wizard, None}
    PROVE  Asked(<<>>)
<1>1. <<>> \in Seq(RequestTypes(Len(journal))) /\ DOMAIN <<>> = {}
  OBVIOUS
<1>2. requests \o <<>> = requests
  BY LoopSame, ConcatEmptySeq
<1> QED
  BY <1>1, <1>2 DEF Asked

LEMMA AskedOne ==
    ASSUME Types, NEW r \in RequestTypes(Len(journal)), Send(<<r>>),
           r.kind # "analyse", r.kind = "delete" => prompt = <<"delete", r.name>>,
           \A k \in preview_requested' \ preview_requested : Asks(r, k),
           wizard' \in {wizard, None}
    PROVE  Asked(<<r>>)
<1>1. <<r>> \in Seq(RequestTypes(Len(journal))) /\ DOMAIN <<r>> = {1} /\ <<r>>[1] = r
  BY One
<1>2. requests' = requests \o <<r>>
  BY DEF Send
<1> QED
  BY <1>1, <1>2 DEF Asked

LEMMA AskedAbout ==
    ASSUME Types, NEW w \in Wizard, AskAbout(w)
    PROVE  \E rs : Asked(rs)
<1> DEFINE a == Analyse(w.path, w.transform)
           p == Preview(w)
<1>1. w.path \in Paths /\ w.transform \in Transforms /\ wizard_key(w) \in Keys
  BY DEF Wizard, wizard_key, Keys
<1>2. a \in RequestTypes(Len(journal)) /\ p \in RequestTypes(Len(journal))
  BY <1>1 DEF RequestTypes, Analyse, Preview
<1>3. a.kind = "analyse" /\ p.kind = "preview" /\ p.key = wizard_key(w)
  BY DEF Analyse, Preview
<1>4. Asks(p, wizard_key(w))
  BY <1>3 DEF Asks
<1>5. wizard' = w
  BY DEF AskAbout
<1>6. a = Analyse(wizard'.path, wizard'.transform)
  BY <1>5
<1>7. CASE wizard_key(w) \in DOMAIN previews \union preview_failures \union preview_requested
  <2>1. Send(<<a>>) /\ UNCHANGED preview_requested
    BY <1>7 DEF AskAbout
  <2> HIDE DEF a, p
  <2>2. /\ <<a>> \in Seq(RequestTypes(Len(journal)))
        /\ requests' = requests \o <<a>>
    BY <1>2, <2>1, One DEF Send
  <2>3. DOMAIN <<a>> = {1} /\ <<a>>[1] = a /\ \A j \in DOMAIN <<a>> : ~(j > 1)
    OBVIOUS
  <2>4. \A i \in DOMAIN <<a>> : <<a>>[i].kind # "delete"
    BY <1>3, <2>3
  <2>5. Asked(<<a>>)
    BY <1>5, <1>6, <2>1, <2>2, <2>3, <2>4 DEF Asked
  <2> QED
    BY <2>5
<1>8. CASE wizard_key(w) \notin DOMAIN previews \union preview_failures \union preview_requested
  <2>1. Send(<<a, p>>) /\ preview_requested' = preview_requested \union {wizard_key(w)}
    BY <1>8 DEF AskAbout
  <2> HIDE DEF a, p
  <2> DEFINE rs == <<a, p>>
  <2>2. rs \in Seq(RequestTypes(Len(journal))) /\ requests' = requests \o rs
    BY <1>2, <2>1 DEF Send
  <2>3. DOMAIN rs = {1, 2} /\ rs[1] = a /\ rs[2] = p
    OBVIOUS
  <2> HIDE DEF rs
  <2>4. \A j \in DOMAIN rs : j > 1 => j = 2
    BY <2>3
  <2>5. \A i \in DOMAIN rs : rs[i].kind # "delete"
    BY <1>3, <2>3
  <2>6. \A k \in preview_requested' \ preview_requested : Asks(rs[2], k)
    BY <1>4, <2>1, <2>3
  <2>7. rs[1] = Analyse(wizard'.path, wizard'.transform)
    BY <1>6, <2>3
  <2>8. \A j \in DOMAIN rs : j > 1 => rs[j].kind # "analyse"
    BY <1>3, <2>3, <2>4
  <2>9. Asked(rs)
    BY <1>5, <2>2, <2>3, <2>5, <2>6, <2>7, <2>8 DEF Asked
  <2> QED
    BY <2>9
<1> QED
  BY <1>7, <1>8

LEMMA LoopAsks ==
    ASSUME Types, LoopStep
    PROVE  /\ \E rs : Asked(rs)
           /\ UNCHANGED <<previews, preview_failures, upload, pushing, events, worker, world>>
<1>1. UNCHANGED <<previews, preview_failures, upload, pushing, events, worker, world>>
  <2>1. CASE Draw \/ Drained \/ Quit \/ Leave
    BY <2>1 DEF Draw, Drained, Quit, Leave, screen, picture
  <2>2. CASE Keypress
    BY <2>2 DEF Keypress, Idle, CancelKey, TabKey, AskKey, move_selection, PromptKey,
                RetryKey, ConfirmDelete, UploadPath, WizardChange, WizardBack, WizardUpload,
                Key, Turn, screen, picture
  <2> QED
    BY <2>1, <2>2 DEF LoopStep
<1>2. \E rs : Asked(rs)
  <2>1. CASE Draw
    <3>1. wizard' = wizard
      BY <2>1 DEF Draw, choice
    <3>2. CASE UNCHANGED requests /\ UNCHANGED preview_requested
      BY <3>1, <3>2, AskedNothing
    <3>3. CASE ~(UNCHANGED requests /\ UNCHANGED preview_requested)
      <4> DEFINE rq == [kind |-> "thumbnail", file |-> selected_file]
                 key == Thumb(selected_file.name)
      <4>1. /\ selected_file # None /\ Send(<<rq>>)
            /\ preview_requested' = preview_requested \union {key}
        BY <2>1, <3>3 DEF Draw, Ensure, NoSend
      <4>2. selected_file \in File
        BY <4>1, Selection
      <4>3. rq \in RequestTypes(Len(journal)) /\ rq.kind = "thumbnail" /\ Asks(rq, key)
        BY <4>2 DEF RequestTypes, Asks
      <4> HIDE DEF rq, key
      <4>4. Asked(<<rq>>)
        BY <3>1, <4>1, <4>3, AskedOne
      <4> QED
        BY <4>4
    <3> QED
      BY <3>2, <3>3
  <2>2. CASE Drained \/ Leave \/ Idle \/ CancelKey \/ TabKey \/ move_selection \/ PromptKey \/ WizardBack
    <3>1. UNCHANGED requests /\ UNCHANGED preview_requested /\ wizard' \in {wizard, None}
      BY <2>2 DEF Drained, Leave, Idle, CancelKey, TabKey, move_selection, PromptKey,
                  WizardBack, Key, Turn, screen, choice, picture
    <3> QED
      BY <3>1, AskedNothing
  <2>3. CASE Quit
    <3> DEFINE rq == [kind |-> "quit"]
    <3>1. rq \in RequestTypes(Len(journal)) /\ rq.kind = "quit" /\ Send(<<rq>>)
      BY <2>3 DEF RequestTypes, Quit, AskToQuit
    <3>2. UNCHANGED preview_requested /\ wizard' = wizard
      BY <2>3 DEF Quit, screen, choice, picture
    <3> HIDE DEF rq
    <3>3. Asked(<<rq>>)
      BY <3>1, <3>2, AskedOne
    <3> QED
      BY <3>3
  <2>4. CASE AskKey \/ RetryKey
    <3>1. UNCHANGED preview_requested /\ wizard' = wizard
      BY <2>4 DEF AskKey, RetryKey, screen, choice, picture
    <3>2. PICK r \in RequestTypes(Len(journal)) :
            Send(<<r>>) /\ r.kind \in {"refresh", "push_metrics", "retry"}
      <4>1. CASE AskKey
        <5>1. [kind |-> "refresh"] \in RequestTypes(Len(journal))
          BY DEF RequestTypes
        <5>2. [kind |-> "push_metrics", on |-> ~pushing] \in RequestTypes(Len(journal))
          BY DEF RequestTypes
        <5> QED
          BY <4>1, <5>1, <5>2 DEF AskKey
      <4>2. CASE RetryKey
        <5>1. PICK id \in DOMAIN operations : Send(<<[kind |-> "retry", id |-> id]>>)
          BY <4>2 DEF RetryKey
        <5>2. id \in 1 .. Len(journal)
          <6>1. operations \in Known(Len(journal)) /\ Len(journal) \in Nat
            BY LenProperties DEF Types, LoopOK, WorkerOK
          <6> QED
            BY <6>1, LenProperties DEF Known
        <5>3. [kind |-> "retry", id |-> id] \in RequestTypes(Len(journal))
          BY <5>2 DEF RequestTypes
        <5> QED
          BY <5>1, <5>3
      <4> QED
        BY <2>4, <4>1, <4>2
    <3>3. Asked(<<r>>)
      BY <3>1, <3>2, AskedOne
    <3> QED
      BY <3>3
  <2>5. CASE ConfirmDelete
    <3>1. UNCHANGED preview_requested /\ wizard' = wizard
      BY <2>5 DEF ConfirmDelete, picture
    <3>2. CASE UNCHANGED requests
      BY <3>1, <3>2, AskedNothing
    <3>3. CASE ~UNCHANGED requests
      <4> DEFINE rq == [kind |-> "delete", name |-> DeleteTarget]
      <4>1. prompt \in {"delete"} \X Names
        BY <2>5, LoopSame DEF ConfirmDelete
      <4>2. prompt = <<"delete", DeleteTarget>> /\ DeleteTarget \in Names
        BY <4>1 DEF DeleteTarget, ToDelete
      <4>3. Send(<<rq>>)
        BY <2>5, <3>3 DEF ConfirmDelete, NoSend
      <4>4. rq \in RequestTypes(Len(journal)) /\ rq.kind = "delete" /\ prompt = <<"delete", rq.name>>
        BY <4>2 DEF RequestTypes
      <4> HIDE DEF rq
      <4>5. Asked(<<rq>>)
        BY <3>1, <4>3, <4>4, AskedOne
      <4> QED
        BY <4>5
    <3> QED
      BY <3>2, <3>3
  <2>6. CASE WizardUpload
    <3> DEFINE rq == [kind |-> "upload", path |-> wizard.path, transform |-> wizard.transform]
    <3>1. wizard \in Wizard
      BY <2>6, LoopSame DEF WizardUpload
    <3>2. rq \in RequestTypes(Len(journal)) /\ rq.kind = "upload" /\ Send(<<rq>>)
      BY <2>6, <3>1 DEF RequestTypes, WizardUpload, Wizard
    <3>3. UNCHANGED preview_requested /\ wizard' = None
      BY <2>6 DEF WizardUpload, picture
    <3> HIDE DEF rq
    <3>4. Asked(<<rq>>)
      BY <3>2, <3>3, AskedOne
    <3> QED
      BY <3>4
  <2>7. CASE UploadPath
    <3>1. CASE UNCHANGED <<wizard, preview_requested>> /\ NoSend
      BY <3>1, AskedNothing DEF NoSend
    <3>2. CASE ~(UNCHANGED <<wizard, preview_requested>> /\ NoSend)
      <4>1. PICK p \in Paths : AskAbout([path |-> p, transform |-> Default,
                                         lines |-> None, acceptable |-> FALSE])
        BY <2>7, <3>2 DEF UploadPath
      <4>2. [path |-> p, transform |-> Default, lines |-> None, acceptable |-> FALSE] \in Wizard
        BY NamesAssumption DEF Wizard
      <4> QED
        BY <4>1, <4>2, AskedAbout
    <3> QED
      BY <3>1, <3>2
  <2>8. CASE WizardChange
    <3>1. wizard \in Wizard
      BY <2>8, LoopSame DEF WizardChange
    <3>2. PICK t \in Transforms : AskAbout([wizard EXCEPT !.transform = t, !.lines = None])
      BY <2>8 DEF WizardChange
    <3> DEFINE w == [wizard EXCEPT !.transform = t, !.lines = None]
    <3>3. w \in Wizard /\ AskAbout(w)
      BY <3>1, <3>2 DEF Wizard
    <3> HIDE DEF w
    <3> QED
      BY <3>3, AskedAbout
  <2> QED
    BY <2>1, <2>2, <2>3, <2>4, <2>5, <2>6, <2>7, <2>8 DEF LoopStep, Keypress
<1> QED
  BY <1>1, <1>2

-----------------------------------------------------------------------------
(* What a step of the worker says, and of what.                            *)

WorkerStep ==
    connect \/ tick \/ handle \/ Progress \/ EncodeEnds \/ PushProgress \/ PushEnds

OfThePush(es) ==
    \/ Says(Pushing, es, metrics')
    \/ Silent(Pushing, es) /\ metrics' = metrics
OfTheUpload(es) ==
    \/ step' \in {"encode", "push"}
    \/ Says(Uploading, es, FALSE)
    \/ Silent(Uploading, es) /\ step \notin {"encode", "push"}
IsVerdict(r, es) ==
    /\ \A p \in Paths \ {r.path} : Silent(Verdict(p), es)
    /\ Choice(r) \notin unjudged' =>
          Says(Verdict(r.path), es, <<r.transform, Choice(r) \in Fits>>)
    /\ unjudged \subseteq unjudged' \union {Choice(r)}
AnswerTo(r, es) ==
    /\ \A k : Asks(r, k) => \E i \in DOMAIN es : Answers(es[i], k)
    /\ r.kind # "analyse" => Mute(es) /\ unjudged' = unjudged
    /\ r.kind = "analyse" => IsVerdict(r, es)

Spoken(es) ==
    /\ es \in Seq(EventTypes(Len(journal'))) /\ Emit(es)
    /\ OfThePush(es) /\ OfTheUpload(es)
    /\ \/ UNCHANGED <<requests, unjudged>> /\ Mute(es)
       \/ requests # <<>> /\ requests' = Tail(requests) /\ step = "idle"
          /\ AnswerTo(Request, es)

\* Only a link of its own is given up; the daemon pushes all the time.
Linked ==
    /\ step = "connect" => ~metrics
    /\ step # "connect" /\ connection = "daemon" => metrics

LEMMA SpokenPlainly ==
    ASSUME NEW es \in Seq(EventTypes(Len(journal'))), Emit(es), Mute(es),
           OfThePush(es), OfTheUpload(es), UNCHANGED unjudged,
           \/ UNCHANGED requests
           \/ /\ requests # <<>> /\ requests' = Tail(requests) /\ step = "idle"
              /\ Request.kind \notin {"thumbnail", "preview", "analyse"}
    PROVE  Spoken(es)
<1>1. Request.kind \notin {"thumbnail", "preview", "analyse"} => AnswerTo(Request, es)
  BY DEF AnswerTo, Asks
<1> QED
  BY <1>1 DEF Spoken

LEMMA ConnectSpeaks ==
    ASSUME Types, Linked, connect \/ tick
    PROVE  \E es : Spoken(es)
<1> DEFINE n == Len(journal')
<1>1. n \in Nat /\ journal' = journal /\ UNCHANGED <<requests, unjudged>> /\ step' = "idle"
      /\ step \notin {"encode", "push"}
  BY WorkerSame DEF connect, tick, world
<1>2. CASE connect
  <2> DEFINE first == IF metrics' THEN Listing("pushing", TRUE) ELSE <<>>
             second == IF connection' = None \/ (target /\ ~adb') THEN Error ELSE <<>>
             es == first \o second
  <2>1. Emit(es) /\ metrics' \in BOOLEAN /\ metrics = FALSE
    <3>1. Emit(es) /\ step = "connect" /\ metrics' = (connection' \in {"daemon", "kanali"})
      BY <1>2 DEF connect
    <3>2. ~metrics /\ metrics \in BOOLEAN
      BY <3>1, WorkerSame DEF Linked
    <3>3. metrics = FALSE
      BY <3>2
    <3>4. metrics' \in BOOLEAN
      BY <3>1
    <3> QED
      BY <3>1, <3>3, <3>4
  <2>2. /\ first \in Seq(EventTypes(n)) /\ Mute(first) /\ Silent(Uploading, first)
        /\ IF metrics' THEN Says(Pushing, first, TRUE) ELSE Silent(Pushing, first)
    BY <1>1, Sayings, Words
  <2>3. /\ second \in Seq(EventTypes(n)) /\ Mute(second) /\ Silent(Pushing, second)
        /\ Says(Uploading, second, FALSE) \/ Silent(Uploading, second)
    BY <1>1, Sayings, Words
  <2> HIDE DEF first, second
  <2>4. es \in Seq(EventTypes(n)) /\ Mute(es)
    BY <2>2, <2>3, SaysBoth DEF Mute
  <2>5. OfThePush(es)
    <3>1. CASE metrics'
      <4>1. Says(Pushing, es, TRUE)
        BY <2>2, <2>3, <3>1, SaysBoth
      <4>2. metrics' = TRUE
        BY <2>1, <3>1
      <4> QED
        BY <4>1, <4>2, Zenon DEF OfThePush
    <3>2. CASE ~metrics'
      <4>1. Silent(Pushing, es)
        BY <2>2, <2>3, <3>2, SaysBoth
      <4>2. metrics' = metrics
        BY <2>1, <3>2
      <4> QED
        BY <4>1, <4>2, Zenon DEF OfThePush
    <3> QED
      BY <3>1, <3>2
  <2>6. OfTheUpload(es)
    BY <1>1, <2>2, <2>3, SaysBoth DEF OfTheUpload
  <2> QED
    BY <1>1, <2>1, <2>4, <2>5, <2>6, SpokenPlainly
<1>3. CASE tick
  <2> DEFINE first == Listing("pushing", FALSE)
             es == first \o Error
  <2>1. Emit(es) /\ metrics' = FALSE
    BY <1>3 DEF tick
  <2>2. first \in Seq(EventTypes(n)) /\ Mute(first) /\ Says(Pushing, first, FALSE)
    BY <1>1, Sayings, Words
  <2>3. /\ Error \in Seq(EventTypes(n)) /\ Mute(Error) /\ Silent(Pushing, Error)
        /\ Says(Uploading, Error, FALSE)
    BY <1>1, Sayings, Words
  <2> HIDE DEF first
  <2>4. es \in Seq(EventTypes(n)) /\ Mute(es)
    BY <2>2, <2>3, SaysBoth DEF Mute
  <2>5. OfThePush(es)
    <3>1. Says(Pushing, es, FALSE)
      BY <2>2, <2>3, SaysBoth
    <3> QED
      BY <2>1, <3>1, Zenon DEF OfThePush
  <2>6. OfTheUpload(es)
    BY <2>2, <2>3, SaysBoth DEF OfTheUpload
  <2> QED
    BY <1>1, <2>1, <2>4, <2>5, <2>6, SpokenPlainly
<1> QED
  BY <1>2, <1>3

\* Most answers say nothing of a push, an upload or a verdict, or are an error.
LEMMA PlainAnswer ==
    ASSUME Types, step = "idle", metrics' = metrics, UNCHANGED unjudged,
           requests # <<>>, requests' = Tail(requests),
           Request.kind \notin {"thumbnail", "preview", "analyse"},
           NEW es \in Seq(EventTypes(Len(journal'))), Emit(es), Mute(es), Silent(Pushing, es),
           Silent(Uploading, es) \/ Says(Uploading, es, FALSE)
    PROVE  Spoken(es)
<1>1. OfThePush(es) /\ OfTheUpload(es)
  BY DEF OfThePush, OfTheUpload
<1> QED
  BY <1>1, SpokenPlainly

\* A picture, or none.
LEMMA PictureAnswer ==
    ASSUME Types, step = "idle", metrics' = metrics, requests # <<>>, requests' = Tail(requests),
           Request.kind # "analyse", UNCHANGED unjudged,
           NEW e \in EventTypes(Len(journal')), Emit(<<e>>), e.kind \in {"preview", "failed"},
           \A k : Asks(Request, k) => k = e.key
    PROVE  Spoken(<<e>>)
<1> DEFINE es == <<e>>
<1>1. ~Speaks(Pushing, e) /\ ~Speaks(Uploading, e) /\ \A p \in Paths : ~Speaks(Verdict(p), e)
  BY DEF Speaks, Pushing, Uploading, Verdict
<1>2. Silent(Pushing, es) /\ Silent(Uploading, es) /\ Mute(es)
  BY <1>1, SaysOne DEF Mute
<1>3. DOMAIN es = {1} /\ es[1] = e /\ es \in Seq(EventTypes(Len(journal')))
  OBVIOUS
<1> HIDE DEF es
<1>4. AnswerTo(Request, es)
  BY <1>2, <1>3 DEF AnswerTo, Answers
<1>5. OfThePush(es) /\ OfTheUpload(es)
  BY <1>2 DEF OfThePush, OfTheUpload
<1>6. Spoken(es)
  BY <1>2, <1>3, <1>4, <1>5 DEF Spoken, es
<1> QED
  BY <1>6 DEF es

LEMMA AnswerSpeaks ==
    ASSUME Types, Linked, refresh \/ delete \/ analyse \/ thumbnail \/ preview \/ push_metrics
    PROVE  \E es : Spoken(es)
<1> DEFINE n == Len(journal')
<1>1. /\ requests # <<>> /\ requests' = Tail(requests) /\ step = "idle"
      /\ journal' = journal /\ Request = Head(requests)
  BY DEF refresh, delete, analyse, thumbnail, preview, push_metrics, Take, Request
<1>2. n \in Nat /\ journal \in Known(n)
  BY <1>1, WorkerSame
<1>3. /\ Error \in Seq(EventTypes(n)) /\ Mute(Error) /\ Silent(Pushing, Error)
      /\ Says(Uploading, Error, FALSE)
  BY <1>2, Sayings, Words
<1>4. CASE refresh
  <2>1. Request.kind = "refresh" /\ UNCHANGED <<metrics, unjudged>>
    BY <1>1, <1>4 DEF refresh, Take
  <2>2. CASE Emit(Error)
    BY <1>1, <1>3, <2>1, <2>2, PlainAnswer
  <2>3. CASE ~Emit(Error)
    <3> DEFINE media == Listing("media", Listed(device))
               operas == Listing("operations", journal)
    <3>1. Emit(media \o operas)
      BY <1>4, <2>3 DEF refresh
    <3>2. /\ media \in Seq(EventTypes(n)) /\ Mute(media)
          /\ Silent(Pushing, media) /\ Silent(Uploading, media)
      BY <1>2, Sayings, Words, ListedOK, WorkerSame
    <3>3. /\ operas \in Seq(EventTypes(n)) /\ Mute(operas)
          /\ Silent(Pushing, operas) /\ Silent(Uploading, operas)
      BY <1>2, Sayings, Words
    <3> HIDE DEF media, operas
    <3>4. /\ media \o operas \in Seq(EventTypes(n)) /\ Mute(media \o operas)
          /\ Silent(Pushing, media \o operas) /\ Silent(Uploading, media \o operas)
      BY <3>2, <3>3, SaysBoth DEF Mute
    <3> QED
      BY <1>1, <2>1, <3>1, <3>4, PlainAnswer
  <2> QED
    BY <2>2, <2>3
<1>5. CASE delete
  <2>1. Request.kind = "delete" /\ UNCHANGED <<metrics, unjudged>>
    BY <1>1, <1>5 DEF delete, Take
  <2>2. CASE Emit(Error)
    BY <1>1, <1>3, <2>1, <2>2, PlainAnswer
  <2>3. CASE ~Emit(Error)
    <3> DEFINE media == Listing("media", Listed(device'))
    <3>1. Emit(media) /\ device' = [device EXCEPT ![Request.name] = 0]
      BY <1>5, <2>3 DEF delete
    <3>2. device' \in [Names -> Sizes \union {0}]
      BY <1>1, <2>1, <3>1, RequestFields, WorkerSame
    <3>3. /\ media \in Seq(EventTypes(n)) /\ Mute(media)
          /\ Silent(Pushing, media) /\ Silent(Uploading, media)
      BY <1>2, <3>2, Sayings, Words, ListedOK
    <3> HIDE DEF media
    <3> QED
      BY <1>1, <2>1, <3>1, <3>3, PlainAnswer
  <2> QED
    BY <2>2, <2>3
<1>6. CASE analyse
  <2>1. Request.kind = "analyse" /\ metrics' = metrics
    BY <1>1, <1>6 DEF analyse, Take
  <2>2. Request.path \in Paths /\ Request.transform \in Transforms
    BY <1>1, <2>1, RequestFields
  <2>3. \A k : ~Asks(Request, k)
    BY <2>1 DEF Asks
  <2>4. CASE Emit(Error) /\ unjudged' = unjudged \union {Choice(Request)}
    <3>1. IsVerdict(Request, Error)
      BY <1>3, <2>4 DEF IsVerdict, Mute
    <3>2. AnswerTo(Request, Error)
      BY <2>1, <2>3, <3>1 DEF AnswerTo
    <3>3. OfThePush(Error) /\ OfTheUpload(Error)
      BY <1>3, <2>1 DEF OfThePush, OfTheUpload
    <3>4. Spoken(Error)
      BY <1>1, <1>3, <2>4, <3>2, <3>3 DEF Spoken
    <3> QED
      BY <3>4
  <2>5. CASE ~(Emit(Error) /\ unjudged' = unjudged \union {Choice(Request)})
    <3> DEFINE fits == Choice(Request) \in Fits
               e == [kind |-> "analysis", path |-> Request.path,
                     transform |-> Request.transform, ok |-> fits]
               es == <<e>>
    <3>1. Emit(es) /\ unjudged' = unjudged \ {Choice(Request)}
      BY <1>6, <2>5 DEF analyse
    <3>2. e \in EventTypes(n)
      BY <2>2 DEF EventTypes
    <3>3. /\ ~Speaks(Pushing, e) /\ ~Speaks(Uploading, e)
          /\ \A p \in Paths : Speaks(Verdict(p), e) <=> p = Request.path
      BY DEF Speaks, Pushing, Uploading, Verdict
    <3>4. Word(e) = <<Request.transform, fits>>
      BY DEF Word
    <3> HIDE DEF e
    <3>5. es \in Seq(EventTypes(n)) /\ Silent(Pushing, es) /\ Silent(Uploading, es)
      BY <3>2, <3>3, SaysOne
    <3>6. /\ \A p \in Paths \ {Request.path} : Silent(Verdict(p), es)
          /\ Says(Verdict(Request.path), es, <<Request.transform, fits>>)
      BY <2>2, <3>3, <3>4, SaysOne
    <3> HIDE DEF es
    <3>7. IsVerdict(Request, es)
      BY <3>1, <3>6 DEF IsVerdict
    <3>8. AnswerTo(Request, es)
      BY <2>1, <2>3, <3>7 DEF AnswerTo
    <3>9. OfThePush(es) /\ OfTheUpload(es)
      BY <1>1, <2>1, <3>5 DEF OfThePush, OfTheUpload
    <3>10. Spoken(es)
      BY <1>1, <3>1, <3>5, <3>8, <3>9 DEF Spoken
    <3> QED
      BY <3>10
  <2> QED
    BY <2>4, <2>5
<1>7. CASE thumbnail
  <2>1. Request.kind = "thumbnail" /\ UNCHANGED <<metrics, unjudged>>
    BY <1>1, <1>7 DEF thumbnail, Take
  <2>2. Request.file \in File
    BY <1>1, <2>1, RequestFields
  <2> DEFINE key == Thumb(Request.file.name)
             there == [kind |-> "preview", key |-> key, of |-> Request.file.size]
             failed == [kind |-> "failed", key |-> key]
  <2>3. key \in Keys
    BY <2>2 DEF Keys, File
  <2>4. \A k : Asks(Request, k) => k = key
    BY <2>1 DEF Asks
  <2>5. /\ there \in EventTypes(n) /\ there.key = key /\ there.kind = "preview"
        /\ failed \in EventTypes(n) /\ failed.key = key /\ failed.kind = "failed"
    BY <2>2, <2>3 DEF EventTypes, File
  <2>6. Emit(<<there>>) \/ Emit(<<failed>>)
    BY <1>7 DEF thumbnail
  <2> HIDE DEF key, there, failed
  <2>7. CASE Emit(<<there>>)
    <3>1. Spoken(<<there>>)
      BY <1>1, <2>1, <2>4, <2>5, <2>7, PictureAnswer
    <3> QED
      BY <3>1
  <2>8. CASE Emit(<<failed>>)
    <3>1. Spoken(<<failed>>)
      BY <1>1, <2>1, <2>4, <2>5, <2>8, PictureAnswer
    <3> QED
      BY <3>1
  <2> QED
    BY <2>6, <2>7, <2>8
<1>8. CASE preview
  <2>1. Request.kind = "preview" /\ UNCHANGED <<metrics, unjudged>>
    BY <1>1, <1>8 DEF preview, Take
  <2>2. Request.key \in Keys
    BY <1>1, <2>1, RequestFields
  <2> DEFINE there == [kind |-> "preview", key |-> Request.key, of |-> 0]
             failed == [kind |-> "failed", key |-> Request.key]
  <2>4. \A k : Asks(Request, k) => k = Request.key
    BY <2>1 DEF Asks
  <2>5. /\ there \in EventTypes(n) /\ there.key = Request.key /\ there.kind = "preview"
        /\ failed \in EventTypes(n) /\ failed.key = Request.key /\ failed.kind = "failed"
    BY <2>2 DEF EventTypes
  <2>6. Emit(<<there>>) \/ Emit(<<failed>>)
    BY <1>8 DEF preview
  <2> HIDE DEF there, failed
  <2>7. CASE Emit(<<there>>)
    <3>1. Spoken(<<there>>)
      BY <1>1, <2>1, <2>4, <2>5, <2>7, PictureAnswer
    <3> QED
      BY <3>1
  <2>8. CASE Emit(<<failed>>)
    <3>1. Spoken(<<failed>>)
      BY <1>1, <2>1, <2>4, <2>5, <2>8, PictureAnswer
    <3> QED
      BY <3>1
  <2> QED
    BY <2>6, <2>7, <2>8
<1>9. CASE push_metrics
  <2>1. Request.kind = "push_metrics" /\ UNCHANGED unjudged
    BY <1>1, <1>9 DEF push_metrics, Take
  <2>2. Request.on \in BOOLEAN
    BY <1>1, <2>1, RequestFields
  <2>3. CASE connection \in {"direct", "kanali"}
    <3> DEFINE es == Listing("pushing", Request.on)
    <3>1. Emit(es) /\ metrics' = Request.on
      BY <1>9, <2>3 DEF push_metrics
    <3>2. /\ es \in Seq(EventTypes(n)) /\ Mute(es) /\ Silent(Uploading, es)
          /\ Says(Pushing, es, Request.on)
      BY <1>2, <2>2, Sayings, Words
    <3> HIDE DEF es
    <3>3. OfThePush(es)
      BY <3>1, <3>2, Zenon DEF OfThePush
    <3>4. OfTheUpload(es)
      BY <1>1, <3>2 DEF OfTheUpload
    <3> QED
      BY <1>1, <2>1, <3>1, <3>2, <3>3, <3>4, SpokenPlainly
  <2>4. CASE connection \notin {"direct", "kanali"} /\ connection = "daemon"
    <3> DEFINE first == Listing("pushing", TRUE)
               es == first \o Error
    <3>1. Emit(es) /\ metrics' = metrics
      BY <1>9, <2>4 DEF push_metrics
    <3>2. metrics = TRUE
      BY <1>1, <2>4, WorkerSame DEF Linked
    <3>3. first \in Seq(EventTypes(n)) /\ Mute(first) /\ Says(Pushing, first, TRUE)
      BY <1>2, Sayings, Words
    <3> HIDE DEF first
    <3>4. es \in Seq(EventTypes(n)) /\ Mute(es)
      BY <1>3, <3>3, SaysBoth DEF Mute
    <3>5. OfThePush(es)
      BY <1>3, <3>1, <3>2, <3>3, SaysBoth DEF OfThePush
    <3>6. OfTheUpload(es)
      BY <1>3, <3>3, SaysBoth DEF OfTheUpload
    <3> HIDE DEF es
    <3> QED
      BY <1>1, <2>1, <3>1, <3>4, <3>5, <3>6, SpokenPlainly
  <2>5. CASE connection \notin {"direct", "kanali"} /\ connection # "daemon"
    <3>1. Emit(Error) /\ metrics' = metrics
      BY <1>9, <2>5 DEF push_metrics
    <3> QED
      BY <1>1, <1>3, <2>1, <3>1, PlainAnswer
  <2> QED
    BY <2>3, <2>4, <2>5
<1> QED
  BY <1>4, <1>5, <1>6, <1>7, <1>8, <1>9

\* Two phrases of the end of an upload.
LEMMA BothPhrases ==
    ASSUME NEW S, NEW a \in Seq(S), NEW b \in Seq(S), Mute(a), Mute(b),
           Silent(Pushing, a), Silent(Pushing, b), Says(Uploading, a, FALSE),
           Silent(Uploading, b) \/ Says(Uploading, b, FALSE)
    PROVE  /\ a \o b \in Seq(S) /\ Mute(a \o b) /\ Silent(Pushing, a \o b)
           /\ Says(Uploading, a \o b, FALSE)
<1>1. a \o b \in Seq(S)
  BY ConcatProperties
<1>2. \A t : Silent(t, a) /\ Silent(t, b) => Silent(t, a \o b)
  BY SaysBoth
<1>3. Says(Uploading, a \o b, FALSE)
  BY SaysBoth
<1>4. Mute(a \o b)
  BY <1>2 DEF Mute
<1> QED
  BY <1>1, <1>2, <1>3, <1>4

LEMMA UploadSpeaks ==
    ASSUME Types, upload_request \/ retry
    PROVE  \E es : Spoken(es)
<1> DEFINE n == Len(journal')
<1>1. /\ requests # <<>> /\ requests' = Tail(requests) /\ step = "idle"
      /\ Request.kind \in {"upload", "retry"} /\ UNCHANGED <<metrics, unjudged>>
  BY DEF upload_request, retry
<1>2. Types'
  BY UploadTypes
<1>3. n \in Nat
  BY <1>2, LenProperties DEF Types, WorkerOK
<1>4. /\ Error \in Seq(EventTypes(n)) /\ Mute(Error) /\ Silent(Pushing, Error)
      /\ Says(Uploading, Error, FALSE)
      /\ Done \in Seq(EventTypes(n)) /\ Mute(Done) /\ Silent(Pushing, Done)
      /\ Says(Uploading, Done, FALSE)
      /\ <<>> \in Seq(EventTypes(n)) /\ Mute(<<>>) /\ Silent(Pushing, <<>>)
      /\ Silent(Uploading, <<>>)
  BY <1>3, Sayings, Words
<1>5. Emit(Error) \/ Emit(Done) \/ Emit(<<>>)
  BY DEF upload_request, retry, Begin
<1>6. ASSUME NEW es \in {Error, Done, <<>>}, Emit(es) PROVE Spoken(es)
  <2>1. /\ es \in Seq(EventTypes(n)) /\ Mute(es) /\ Silent(Pushing, es)
        /\ Silent(Uploading, es) \/ Says(Uploading, es, FALSE)
    BY <1>4
  <2>2. Request.kind \notin {"thumbnail", "preview", "analyse"}
    BY <1>1
  <2> QED
    BY <1>1, <1>6, <2>1, <2>2, PlainAnswer
<1> QED
  BY <1>5, <1>6

LEMMA WorkingSpeaks ==
    ASSUME Types, Progress \/ EncodeEnds \/ PushProgress \/ PushEnds
    PROVE  \E es : Spoken(es)
<1> DEFINE n == Len(journal')
<1>1. UNCHANGED <<requests, metrics, unjudged>> /\ step \in {"encode", "push"}
  BY DEF Progress, EncodeEnds, PushProgress, PushEnds, Working
<1>2. Types'
  BY WorkingTypes
<1>3. /\ n \in Nat /\ journal' \in Known(n)
      /\ device' \in [Names -> Sizes \union {0}]
  BY <1>2, LenProperties DEF Types, WorkerOK, Known
<1>4. Listed(device') \in Lists
  BY <1>3, ListedOK
<1> DEFINE operas == Listing("operations", journal')
           media == Listing("media", Listed(device'))
<1>5. /\ Error \in Seq(EventTypes(n)) /\ Mute(Error) /\ Silent(Pushing, Error)
      /\ Says(Uploading, Error, FALSE)
      /\ Done \in Seq(EventTypes(n)) /\ Mute(Done) /\ Silent(Pushing, Done)
      /\ Says(Uploading, Done, FALSE)
      /\ Partly \in Seq(EventTypes(n)) /\ Mute(Partly) /\ Silent(Pushing, Partly)
      /\ <<>> \in Seq(EventTypes(n)) /\ Mute(<<>>) /\ Silent(Pushing, <<>>)
  BY <1>3, Sayings, Words
<1>6. /\ operas \in Seq(EventTypes(n)) /\ Mute(operas) /\ Silent(Pushing, operas)
      /\ Silent(Uploading, operas)
  BY <1>3, Sayings, Words
<1>7. /\ media \in Seq(EventTypes(n)) /\ Mute(media) /\ Silent(Pushing, media)
      /\ Silent(Uploading, media)
  BY <1>3, <1>4, Sayings, Words
<1> HIDE DEF operas, media, n
<1> DEFINE both == Done \o Error
           short == Done \o operas
<1>8. /\ both \in Seq(EventTypes(n)) /\ Mute(both) /\ Silent(Pushing, both)
      /\ Says(Uploading, both, FALSE)
  BY <1>5, BothPhrases
<1>9. /\ short \in Seq(EventTypes(n)) /\ Mute(short) /\ Silent(Pushing, short)
      /\ Says(Uploading, short, FALSE)
  BY <1>5, <1>6, BothPhrases
<1> HIDE DEF both, short
<1>10. ASSUME NEW last \in {media, Error}
       PROVE  /\ short \o last \in Seq(EventTypes(n)) /\ Mute(short \o last)
              /\ Silent(Pushing, short \o last) /\ Says(Uploading, short \o last, FALSE)
  <2>1. /\ last \in Seq(EventTypes(n)) /\ Mute(last) /\ Silent(Pushing, last)
        /\ Silent(Uploading, last) \/ Says(Uploading, last, FALSE)
    BY <1>5, <1>7
  <2> QED
    BY <1>9, <2>1, BothPhrases
<1>11. \/ Emit(both)
       \/ \E last \in {media, Error} : Emit(short \o last)
       \/ step' \in {"encode", "push"} /\ (Emit(Done) \/ Emit(Partly) \/ Emit(<<>>))
  <2>1. CASE Progress
    BY <2>1 DEF Progress, both, Working
  <2>2. CASE EncodeEnds
    BY <2>2 DEF EncodeEnds, both
  <2>3. CASE PushProgress
    BY <2>3 DEF PushProgress, Working
  <2>4. CASE PushEnds
    BY <2>4 DEF PushEnds, Finish, short, operas, media
  <2> QED
    BY <2>1, <2>2, <2>3, <2>4
<1>12. ASSUME NEW es \in Seq(EventTypes(n)), Emit(es), Mute(es), Silent(Pushing, es),
              Says(Uploading, es, FALSE) \/ step' \in {"encode", "push"}
       PROVE  Spoken(es)
  <2>1. OfThePush(es) /\ OfTheUpload(es)
    BY <1>1, <1>12 DEF OfThePush, OfTheUpload
  <2> QED
    BY <1>1, <1>12, <2>1, SpokenPlainly DEF n
<1>13. CASE Emit(both)
  <2>1. Spoken(both)
    BY <1>8, <1>12, <1>13
  <2> QED
    BY <2>1
<1>14. CASE \E last \in {media, Error} : Emit(short \o last)
  <2>1. PICK last \in {media, Error} : Emit(short \o last)
    BY <1>14
  <2>2. Spoken(short \o last)
    BY <1>10, <1>12, <2>1
  <2> QED
    BY <2>2
<1>15. CASE step' \in {"encode", "push"} /\ (Emit(Done) \/ Emit(Partly) \/ Emit(<<>>))
  <2>1. \A es \in {Done, Partly, <<>>} :
          es \in Seq(EventTypes(n)) /\ Mute(es) /\ Silent(Pushing, es)
    BY <1>5
  <2>2. PICK es \in {Done, Partly, <<>>} : Emit(es)
    BY <1>15
  <2>3. Spoken(es)
    BY <1>12, <1>15, <2>1, <2>2
  <2> QED
    BY <2>3
<1> QED
  BY <1>11, <1>13, <1>14, <1>15

LEMMA QuitSpeaks ==
    ASSUME Types, quit
    PROVE  Spoken(<<>>)
<1>1. /\ requests # <<>> /\ requests' = Tail(requests) /\ step = "idle"
      /\ Request.kind = "quit" /\ UNCHANGED <<metrics, unjudged, events, journal>>
  BY DEF quit, world
<1>2. Len(journal) \in Nat /\ events \in Seq(EventTypes(Len(journal)))
      /\ Len(events) <= MaxEvents
  BY WorkerSame DEF Types, QueuesOK
<1>3. events \o <<>> = events /\ Len(<<>>) = 0 /\ Len(events) \in Nat
  BY <1>2, ConcatEmptySeq, LenProperties
<1>4. Emit(<<>>)
  BY <1>1, <1>2, <1>3 DEF Emit
<1>5. /\ <<>> \in Seq(EventTypes(Len(journal'))) /\ Mute(<<>>) /\ Silent(Pushing, <<>>)
      /\ Silent(Uploading, <<>>)
  BY <1>1, <1>2, Sayings, Words
<1>6. Request.kind \notin {"thumbnail", "preview", "analyse"}
  BY <1>1
<1> QED
  BY <1>1, <1>4, <1>5, <1>6, PlainAnswer

LEMMA WorkerSpeaks ==
    ASSUME Types, Linked, WorkerStep
    PROVE  /\ \E es : Spoken(es)
           /\ UNCHANGED <<ui, screen>>
           /\ step' # "connect" /\ (step = "connect" \/ connection' = connection)
<1>1. \E es : Spoken(es)
  BY ConnectSpeaks, AnswerSpeaks, UploadSpeaks, WorkingSpeaks, QuitSpeaks DEF WorkerStep, handle
<1>2. CASE connect \/ tick
  BY <1>1, <1>2 DEF connect, tick
<1>3. CASE refresh \/ delete \/ analyse \/ thumbnail \/ preview \/ push_metrics
  BY <1>1, <1>3 DEF refresh, delete, analyse, thumbnail, preview, push_metrics, Take, Stay
<1>4. CASE upload_request \/ retry
  BY <1>1, <1>4 DEF upload_request, retry, Begin
<1>5. CASE quit
  BY <1>1, <1>5 DEF quit
<1>6. CASE Progress \/ EncodeEnds \/ PushProgress \/ PushEnds
  BY <1>1, <1>6 DEF Progress, EncodeEnds, PushProgress, PushEnds, Working, Cancelled
<1> QED
  BY <1>2, <1>3, <1>4, <1>5, <1>6 DEF WorkerStep, handle

LEMMA LinkedHolds == Types /\ Linked /\ [Next]_vars => Linked'
<1> SUFFICES ASSUME Types, Linked, [Next]_vars PROVE Linked'
  OBVIOUS
<1>1. CASE UNCHANGED <<step, connection, metrics>>
  BY <1>1 DEF Linked
<1>2. CASE connect
  BY <1>2 DEF connect, Linked
<1>3. CASE tick
  BY <1>3 DEF tick, Linked
<1>4. CASE push_metrics
  BY <1>4 DEF push_metrics, Take, Stay, Linked
<1>5. CASE /\ UNCHANGED <<connection, metrics>> /\ step # "connect" /\ step' # "connect"
  BY <1>5 DEF Linked
<1>6. CASE LoopStep \/ handle_event \/ UNCHANGED vars
  <2>1. UNCHANGED worker
    BY <1>6, LoopAsks DEF handle_event, vars
  <2> QED
    BY <1>1, <2>1 DEF worker
<1>7. CASE refresh \/ delete \/ analyse \/ thumbnail \/ preview
  <2>1. UNCHANGED <<step, connection, metrics>>
    BY <1>7 DEF refresh, delete, analyse, thumbnail, preview, Take, Stay
  <2> QED
    BY <1>1, <2>1
<1>8. CASE upload_request \/ retry
  <2>1. /\ UNCHANGED <<connection, metrics>> /\ step = "idle"
        /\ step' \in {"idle", "encode", "push"}
    BY <1>8 DEF upload_request, retry, Begin
  <2> QED
    BY <1>5, <2>1
<1>9. CASE quit
  BY <1>5, <1>9 DEF quit
<1>10. CASE Progress \/ EncodeEnds \/ PushProgress \/ PushEnds
  <2>1. /\ UNCHANGED <<connection, metrics>> /\ step \in {"encode", "push"}
        /\ step' \in {"idle", "encode", "push"}
    BY <1>10 DEF Progress, EncodeEnds, PushProgress, PushEnds, Working, Cancelled
  <2> QED
    BY <1>5, <2>1
<1> QED
  BY <1>2, <1>3, <1>4, <1>6, <1>7, <1>8, <1>9, <1>10 DEF Next, handle, LoopStep

LEMMA LinkedTypes == Spec => [](Types /\ Linked)
<1>1. Init => Types /\ Linked
  BY InitTypes DEF Init, Linked
<1>2. Types /\ Linked /\ [Next]_vars => Types' /\ Linked'
  BY NextTypes, LinkedHolds
<1> QED
  BY <1>1, <1>2, PTL DEF Spec

-----------------------------------------------------------------------------
(* Only what the prompt named is asked to be deleted.                      *)

LEMMA DeletesAsAsked ==
    Types /\ Linked /\ [Next]_vars =>
        [\A i \in DOMAIN requests' \ DOMAIN requests :
           requests'[i].kind = "delete" => prompt = <<"delete", requests'[i].name>>]_vars
<1> SUFFICES ASSUME Types, Linked, [Next]_vars,
                    NEW i \in DOMAIN requests' \ DOMAIN requests,
                    requests'[i].kind = "delete"
             PROVE  prompt = <<"delete", requests'[i].name>>
  OBVIOUS
<1>1. requests \in Seq(RequestTypes(Len(journal))) /\ Len(requests) \in Nat
      /\ DOMAIN requests = 1 .. Len(requests)
  BY LoopSame, LenProperties
<1>2. CASE LoopStep
  <2>1. PICK rs : Asked(rs)
    BY <1>2, LoopAsks
  <2>2. /\ rs \in Seq(RequestTypes(Len(journal))) /\ requests' = requests \o rs
        /\ \A j \in DOMAIN rs : rs[j].kind = "delete" => prompt = <<"delete", rs[j].name>>
    BY <2>1 DEF Asked
  <2>3. /\ Len(rs) \in Nat /\ DOMAIN rs = 1 .. Len(rs)
        /\ DOMAIN requests' = 1 .. (Len(requests) + Len(rs))
        /\ \A j \in 1 .. Len(rs) : requests'[Len(requests) + j] = rs[j]
    BY <1>1, <2>2, Added, LenProperties
  <2>4. i - Len(requests) \in 1 .. Len(rs) /\ Len(requests) + (i - Len(requests)) = i
    BY <1>1, <2>3
  <2>5. requests'[i] = rs[i - Len(requests)]
    BY <2>3, <2>4
  <2> QED
    BY <2>2, <2>3, <2>4, <2>5
<1>3. CASE WorkerStep
  <2>1. PICK es : Spoken(es)
    BY <1>3, WorkerSpeaks
  <2>2. DOMAIN requests' \subseteq DOMAIN requests
    <3>1. CASE UNCHANGED requests
      BY <3>1
    <3>2. CASE requests # <<>> /\ requests' = Tail(requests)
      <4>1. DOMAIN Tail(requests) = 1 .. Len(requests) - 1
        BY <1>1, <3>2, Taken
      <4> QED
        BY <1>1, <3>2, <4>1
    <3> QED
      BY <2>1, <3>1, <3>2 DEF Spoken
  <2> QED
    BY <2>2
<1>4. CASE handle_event \/ UNCHANGED vars
  <2>1. requests' = requests
    BY <1>4 DEF handle_event, vars
  <2> QED
    BY <2>1
<1> QED
  BY <1>2, <1>3, <1>4 DEF Next, LoopStep, WorkerStep

\* However the list has moved under the cursor since the prompt was opened, the
\* file that is asked to be deleted is the one the prompt named.
THEOREM AskedAsNamed == Spec => DeletesWhatWasAsked
<1>1. Types /\ Linked /\ [Next]_vars =>
        [\A i \in DOMAIN requests' \ DOMAIN requests :
           requests'[i].kind = "delete" => prompt = <<"delete", requests'[i].name>>]_vars
  BY DeletesAsAsked
<1> QED
  BY <1>1, LinkedTypes, PTL DEF Spec, DeletesWhatWasAsked

-----------------------------------------------------------------------------
(* The three invariants of what the loop shows.                            *)

\* A picture that is waited for is asked for or answered.
Way(key) ==
    \/ \E i \in DOMAIN requests : Asks(requests[i], key)
    \/ \E i \in DOMAIN events : Answers(events[i], key)
Coming == InLoop => \A key \in preview_requested : Waiting(key) => Way(key)

\* The events end with what the worker does.
Told ==
    InLoop => /\ Tells(Pushing, events, pushing, metrics)
              /\ step \notin {"encode", "push"} => Tells(Uploading, events, upload, FALSE)

\* The choice of the wizard is the last that was asked about, or has been answered:
\* with its verdict, or with an error.
Right(w) == <<w.transform, Choice(w) \in Fits>>
Due(w) ==
    \/ Says(Question(w.path), requests, w.transform)
    \/ /\ Silent(Question(w.path), requests)
       /\ Choice(w) \notin unjudged => Tells(Verdict(w.path), events, w.lines, Right(w))
Judged == InLoop /\ wizard # None => Due(wizard)

Shown == Types /\ Linked /\ Coming /\ Told /\ Judged

LEMMA Continued ==
    ASSUME Types, InLoop, NEW es, Spoken(es)
    PROVE  \E S : events \in Seq(S) /\ es \in Seq(S) /\ events' = events \o es
<1> DEFINE A == EventTypes(Len(journal))
           B == EventTypes(Len(journal'))
<1>1. events \in Seq(A) /\ es \in Seq(B) /\ Emit(es)
  BY DEF Types, QueuesOK, Spoken
<1>2. events' = events \o es
  BY <1>1 DEF Emit, InLoop
<1> HIDE DEF A, B
<1>3. A \subseteq A \union B /\ B \subseteq A \union B
  OBVIOUS
<1>4. events \in Seq(A \union B)
  BY <1>1, <1>3, SeqMonotonic
<1>5. es \in Seq(A \union B)
  BY <1>1, <1>3, SeqMonotonic
<1> QED
  BY <1>2, <1>4, <1>5

LEMMA ShownAtFirst == Init => Shown
<1> SUFFICES ASSUME Init PROVE Shown
  OBVIOUS
<1>1. Types /\ Linked
  BY InitTypes DEF Init, Linked
<1>2. Coming /\ Judged
  BY DEF Init, Coming, Judged
<1>3. events = <<>> /\ pushing = FALSE /\ metrics = FALSE /\ upload = FALSE
  BY DEF Init
<1>4. Silent(Pushing, events) /\ Silent(Uploading, events)
  BY <1>3 DEF Silent
<1>5. Told
  BY <1>3, <1>4 DEF Told, Tells
<1> QED
  BY <1>1, <1>2, <1>5 DEF Shown

\* Steps of the loop.
LEMMA LoopComing == Shown /\ LoopStep => Coming' /\ Told' /\ Judged'
<1> SUFFICES ASSUME Shown, LoopStep, InLoop' PROVE Coming' /\ Told' /\ Judged'
  BY DEF Coming, Told, Judged
<1>1. Types /\ Linked /\ Coming /\ Told /\ Judged
  BY DEF Shown
<1>2. /\ UNCHANGED <<previews, preview_failures, upload, pushing, events, worker, world>>
      /\ \E rs : Asked(rs)
  BY <1>1, LoopAsks
<1>3. InLoop
  <2>1. CASE Keypress
    BY <2>1 DEF Keypress, Idle, CancelKey, TabKey, AskKey, move_selection, PromptKey,
                RetryKey, ConfirmDelete, UploadPath, WizardChange, WizardBack, WizardUpload,
                Key, Turn, InLoop
  <2>2. CASE Draw \/ Drained \/ Quit \/ Leave
    BY <2>2 DEF Draw, Drained, Quit, Leave, InLoop
  <2> QED
    BY <2>1, <2>2 DEF LoopStep
<1>4. PICK rs : Asked(rs)
  BY <1>2
<1>5. /\ requests \in Seq(RequestTypes(Len(journal)))
      /\ rs \in Seq(RequestTypes(Len(journal))) /\ requests' = requests \o rs
  BY <1>1, <1>4, LoopSame DEF Asked
<1>6. /\ Len(requests) \in Nat /\ Len(rs) \in Nat
      /\ DOMAIN requests = 1 .. Len(requests) /\ DOMAIN rs = 1 .. Len(rs)
      /\ DOMAIN requests' = 1 .. (Len(requests) + Len(rs))
      /\ \A i \in 1 .. Len(requests) : requests'[i] = requests[i]
      /\ \A i \in 1 .. Len(rs) : requests'[Len(requests) + i] = rs[i]
  BY <1>5, Added, LenProperties
<1>7. Coming'
  <2> SUFFICES ASSUME NEW key \in preview_requested', Waiting(key)' PROVE Way(key)'
    BY DEF Coming
  <2>1. Waiting(key)
    BY <1>2 DEF Waiting
  <2>2. CASE key \in preview_requested
    <3>1. Way(key)
      BY <1>1, <1>3, <2>1, <2>2 DEF Coming
    <3>2. CASE \E i \in DOMAIN events : Answers(events[i], key)
      BY <1>2, <3>2 DEF Way
    <3>3. CASE \E i \in DOMAIN requests : Asks(requests[i], key)
      <4>1. PICK i \in 1 .. Len(requests) : Asks(requests[i], key)
        BY <1>6, <3>3
      <4>2. i \in DOMAIN requests' /\ Asks(requests'[i], key)
        BY <1>6, <4>1
      <4> QED
        BY <4>2 DEF Way
    <3> QED
      BY <3>1, <3>2, <3>3 DEF Way
  <2>3. CASE key \notin preview_requested
    <3>1. PICK i \in DOMAIN rs : Asks(rs[i], key)
      BY <1>4, <2>3 DEF Asked
    <3>2. Len(requests) + i \in DOMAIN requests' /\ Asks(requests'[Len(requests) + i], key)
      BY <1>6, <3>1
    <3> QED
      BY <3>2 DEF Way
  <2> QED
    BY <2>2, <2>3
<1>8. Told'
  BY <1>1, <1>2, <1>3 DEF Told, worker
<1>9. Judged'
  <2> SUFFICES ASSUME wizard' # None PROVE Due(wizard)'
    BY DEF Judged
  <2>1. unjudged' = unjudged /\ events' = events
    BY <1>2 DEF worker
  <2>2. CASE \E i \in DOMAIN rs :
               /\ rs[i] = Analyse(wizard'.path, wizard'.transform)
               /\ \A j \in DOMAIN rs : j > i => rs[j].kind # "analyse"
    <3>1. PICK i \in DOMAIN rs :
            /\ rs[i] = Analyse(wizard'.path, wizard'.transform)
            /\ \A j \in DOMAIN rs : j > i => rs[j].kind # "analyse"
      BY <2>2
    <3> DEFINE t == Question(wizard'.path)
    <3>2. Speaks(t, rs[i]) /\ Word(rs[i]) = wizard'.transform
      BY <3>1 DEF Analyse, Speaks, Word, Question
    <3>3. \A r : r.kind # "analyse" => ~Speaks(t, r)
      BY DEF Speaks, Question
    <3> HIDE DEF t
    <3>4. Says(t, rs, wizard'.transform)
      BY <3>1, <3>2, <3>3 DEF Says
    <3>5. Says(t, requests', wizard'.transform)
      BY <1>5, <3>4, SaysBoth
    <3> QED
      BY <3>5 DEF Due, t
  <2>3. CASE wizard' = wizard /\ \A i \in DOMAIN rs : rs[i].kind # "analyse"
    <3> DEFINE t == Question(wizard.path)
    <3>1. Due(wizard)
      BY <1>1, <1>3, <2>3 DEF Judged
    <3>2. \A r : r.kind # "analyse" => ~Speaks(t, r)
      BY DEF Speaks, Question
    <3>3. Silent(t, rs)
      BY <2>3, <3>2 DEF Silent
    <3> HIDE DEF t
    <3>4. CASE Says(t, requests, wizard.transform)
      <4>1. Says(t, requests', wizard.transform)
        BY <1>5, <3>3, <3>4, SaysBoth
      <4> QED
        BY <2>3, <4>1 DEF Due, t
    <3>5. CASE /\ Silent(t, requests)
               /\ Choice(wizard) \notin unjudged =>
                     Tells(Verdict(wizard.path), events, wizard.lines, Right(wizard))
      <4>1. Silent(t, requests')
        BY <1>5, <3>3, <3>5, SaysBoth
      <4> QED
        BY <2>1, <2>3, <3>5, <4>1 DEF Due, Right, Choice, t
    <3> QED
      BY <3>1, <3>4, <3>5 DEF Due, t
  <2> QED
    BY <1>4, <2>2, <2>3 DEF Asked
<1> QED
  BY <1>7, <1>8, <1>9

\* Steps of the worker.
LEMMA WorkerComing == Shown /\ WorkerStep => Coming' /\ Told' /\ Judged'
<1> SUFFICES ASSUME Shown, WorkerStep, InLoop' PROVE Coming' /\ Told' /\ Judged'
  BY DEF Coming, Told, Judged
<1>1. Types /\ Linked /\ Coming /\ Told /\ Judged
  BY DEF Shown
<1>2. /\ UNCHANGED <<ui, screen>>
      /\ step' # "connect" /\ (step = "connect" \/ connection' = connection)
      /\ \E es : Spoken(es)
  BY <1>1, WorkerSpeaks
<1>3. InLoop
  BY <1>2 DEF InLoop
<1>4. PICK es : Spoken(es)
  BY <1>2
<1>5. PICK S : events \in Seq(S) /\ es \in Seq(S) /\ events' = events \o es
  BY <1>1, <1>3, <1>4, Continued
<1>6. /\ Len(events) \in Nat /\ Len(es) \in Nat
      /\ DOMAIN events = 1 .. Len(events) /\ DOMAIN es = 1 .. Len(es)
      /\ DOMAIN events' = 1 .. (Len(events) + Len(es))
      /\ \A i \in 1 .. Len(events) : events'[i] = events[i]
      /\ \A i \in 1 .. Len(es) : events'[Len(events) + i] = es[i]
  BY <1>5, Added, LenProperties
<1>7. /\ requests \in Seq(RequestTypes(Len(journal))) /\ Len(requests) \in Nat
      /\ DOMAIN requests = 1 .. Len(requests)
  BY <1>1, LoopSame, LenProperties
<1>8. UNCHANGED <<wizard, upload, pushing, previews, preview_failures, preview_requested>>
  BY <1>2 DEF screen, choice, picture
<1>9. Coming'
  <2> SUFFICES ASSUME NEW key \in preview_requested', Waiting(key)' PROVE Way(key)'
    BY DEF Coming
  <2>1. Way(key)
    BY <1>1, <1>3, <1>8 DEF Coming, Waiting
  <2>2. CASE \E i \in DOMAIN events : Answers(events[i], key)
    <3>1. PICK i \in 1 .. Len(events) : Answers(events[i], key)
      BY <1>6, <2>2
    <3>2. i \in DOMAIN events' /\ Answers(events'[i], key)
      BY <1>6, <3>1
    <3> QED
      BY <3>2 DEF Way
  <2>3. CASE \E i \in DOMAIN requests : Asks(requests[i], key)
    <3>1. PICK i \in 1 .. Len(requests) : Asks(requests[i], key)
      BY <1>7, <2>3
    <3>2. CASE UNCHANGED requests
      BY <1>7, <3>1, <3>2 DEF Way
    <3>3. CASE requests # <<>> /\ requests' = Tail(requests) /\ AnswerTo(Request, es)
      <4>1. /\ Head(requests) = requests[1] /\ DOMAIN Tail(requests) = 1 .. Len(requests) - 1
            /\ \A j \in 1 .. Len(requests) - 1 : Tail(requests)[j] = requests[j + 1]
        BY <1>7, <3>3, Taken
      <4>2. CASE i = 1
        <5>1. Asks(Request, key)
          BY <3>1, <4>1, <4>2 DEF Request
        <5>2. PICK j \in DOMAIN es : Answers(es[j], key)
          BY <3>3, <5>1 DEF AnswerTo
        <5>3. Len(events) + j \in DOMAIN events' /\ Answers(events'[Len(events) + j], key)
          BY <1>6, <5>2
        <5> QED
          BY <5>3 DEF Way
      <4>3. CASE i # 1
        <5>1. i - 1 \in 1 .. Len(requests) - 1 /\ (i - 1) + 1 = i
          BY <1>7, <4>3
        <5>2. i - 1 \in DOMAIN requests' /\ Asks(requests'[i - 1], key)
          BY <3>1, <3>3, <4>1, <5>1
        <5> QED
          BY <5>2 DEF Way
      <4> QED
        BY <4>2, <4>3
    <3> QED
      BY <1>4, <3>2, <3>3 DEF Spoken
  <2> QED
    BY <2>1, <2>2, <2>3 DEF Way
<1>10. Told'
  <2>1. Tells(Pushing, events, pushing, metrics)
    BY <1>1, <1>3 DEF Told
  <2>2. Says(Pushing, es, metrics') \/ (Silent(Pushing, es) /\ metrics' = metrics)
    BY <1>4 DEF Spoken, OfThePush
  <2>3. Tells(Pushing, events', pushing, metrics')
    BY <1>5, <2>1, <2>2, TellsMore
  <2>4. ASSUME step' \notin {"encode", "push"} PROVE Tells(Uploading, events', upload, FALSE)
    <3>1. CASE Says(Uploading, es, FALSE)
      BY <1>5, <3>1, SaysBoth DEF Tells
    <3>2. CASE Silent(Uploading, es) /\ step \notin {"encode", "push"}
      <4>1. Tells(Uploading, events, upload, FALSE)
        BY <1>1, <1>3, <3>2 DEF Told
      <4> QED
        BY <1>5, <3>2, <4>1, TellsMore
    <3> QED
      BY <1>4, <2>4, <3>1, <3>2 DEF Spoken, OfTheUpload
  <2> QED
    BY <1>8, <2>3, <2>4 DEF Told
<1>11. Judged'
  <2> SUFFICES ASSUME wizard # None PROVE Due(wizard)'
    BY <1>8 DEF Judged
  <2> DEFINE p == wizard.path  t == wizard.transform  right == Right(wizard)
             Q == Question(p)  V == Verdict(p)  c == <<p, t>>
  <2>1. p \in Paths
    BY <1>1, LoopSame DEF Wizard
  <2>2. Due(wizard)
    BY <1>1, <1>3 DEF Judged
  <2>3. \/ Says(Q, requests, t)
        \/ /\ Silent(Q, requests)
           /\ c \notin unjudged => Tells(V, events, wizard.lines, right)
    BY <2>2 DEF Due, Choice
  <2>4. SUFFICES \/ Says(Q, requests', t)
                 \/ /\ Silent(Q, requests')
                    /\ c \notin unjudged' => Tells(V, events', wizard.lines, right)
    BY <1>8 DEF Due, Right, Choice
  <2>5. \A r : Speaks(Q, r) <=> r.kind = "analyse" /\ r.path = p
    BY DEF Speaks, Question
  <2>6. \A r : Speaks(Q, r) => Word(r) = r.transform
    BY <2>5 DEF Word
  <2>7. right = <<t, c \in Fits>>
    BY DEF Right, Choice
  <2>8. \A r : Choice(r) = c <=> r.path = p /\ r.transform = t
    BY DEF Choice
  <2> HIDE DEF p, t, right, Q, c
  <2>9. ASSUME Silent(V, es), Tells(V, events, wizard.lines, right)
        PROVE  Tells(V, events', wizard.lines, right)
    BY <1>5, <2>9, TellsMore
  <2>10. CASE UNCHANGED <<requests, unjudged>> /\ Mute(es)
    <3>1. Silent(V, es)
      BY <2>1, <2>10 DEF Mute
    <3> QED
      BY <2>3, <2>9, <2>10, <3>1
  <2>11. CASE requests # <<>> /\ requests' = Tail(requests) /\ step = "idle" /\ AnswerTo(Request, es)
    <3>1. Request = Head(requests)
      BY DEF Request
    <3>2. /\ Silent(Q, requests) => Silent(Q, requests') /\ ~Speaks(Q, Request)
          /\ Says(Q, requests, t) =>
               \/ Says(Q, requests', t)
               \/ Silent(Q, requests') /\ Speaks(Q, Request) /\ Word(Request) = t
      BY <1>7, <2>11, <3>1, SaysLess
    <3>3. CASE /\ Silent(Q, requests)
               /\ c \notin unjudged => Tells(V, events, wizard.lines, right)
      <4>1. Silent(V, es) /\ (c \notin unjudged' => c \notin unjudged)
        <5>1. CASE Request.kind = "analyse"
          <6>1. Request.path # p
            BY <2>5, <3>2, <3>3, <5>1
          <6>2. IsVerdict(Request, es)
            BY <2>11, <5>1 DEF AnswerTo
          <6>3. Choice(Request) # c
            BY <2>8, <6>1
          <6> QED
            BY <2>1, <6>1, <6>2, <6>3 DEF IsVerdict
        <5>2. CASE Request.kind # "analyse"
          BY <2>1, <2>11, <5>2 DEF AnswerTo, Mute
        <5> QED
          BY <5>1, <5>2
      <4> QED
        BY <2>9, <3>2, <3>3, <4>1
    <3>4. CASE Silent(Q, requests') /\ Speaks(Q, Request) /\ Word(Request) = t
      <4>1. Request.kind = "analyse" /\ Request.path = p /\ Request.transform = t
        BY <2>5, <2>6, <3>4
      <4>2. IsVerdict(Request, es) /\ Choice(Request) = c
        BY <2>8, <2>11, <4>1 DEF AnswerTo
      <4>3. ASSUME c \notin unjudged' PROVE Says(V, events', right)
        <5>1. Says(V, es, right)
          BY <2>7, <4>1, <4>2, <4>3 DEF IsVerdict
        <5> QED
          BY <1>5, <5>1, SaysBoth
      <4> QED
        BY <3>4, <4>3 DEF Tells
    <3> QED
      BY <2>3, <3>2, <3>3, <3>4
  <2> QED
    BY <1>4, <2>10, <2>11 DEF Spoken
<1> QED
  BY <1>9, <1>10, <1>11

\* An event that is drained.
LEMMA EventComing == Shown /\ handle_event => Coming' /\ Told' /\ Judged'
<1> SUFFICES ASSUME Shown, handle_event, InLoop' PROVE Coming' /\ Told' /\ Judged'
  BY DEF Coming, Told, Judged
<1>1. Types /\ Linked /\ Coming /\ Told /\ Judged
  BY DEF Shown
<1> DEFINE e == Head(events)  n == Len(journal)
<1>2. /\ events # <<>> /\ events' = Tail(events) /\ InLoop
      /\ UNCHANGED <<requests, step, metrics, unjudged>>
      /\ \/ EventMedia(e) \/ EventOperations(e) \/ EventPushing(e) \/ EventProgress(e)
         \/ EventAnalysis(e) \/ EventPreview(e) \/ EventPreviewFailed(e) \/ EventError(e)
  BY DEF handle_event, InLoop, worker
<1>3. n \in Nat /\ events \in Seq(EventTypes(n))
  BY <1>1, LenProperties DEF Types, WorkerOK, QueuesOK
<1> HIDE DEF n
<1>4. /\ e \in EventTypes(n) /\ e = events[1] /\ Len(events) \in Nat \ {0}
      /\ \A i \in 1 .. Len(events) - 1 : events'[i] = events[i + 1]
      /\ DOMAIN events = 1 .. Len(events) /\ DOMAIN events' = 1 .. Len(events) - 1
  BY <1>2, <1>3, Taken
<1> HIDE DEF e
<1>5. pushing' = IF Speaks(Pushing, e) THEN Word(e) ELSE pushing
  <2>1. Speaks(Pushing, e) <=> e.kind = "pushing"
    BY DEF Speaks, Pushing
  <2>2. CASE e.kind = "pushing"
    <3>1. Word(e) = e.of
      BY <2>2 DEF Word
    <3>2. pushing' = e.of
      BY <1>2, <2>2 DEF EventMedia, EventOperations, EventPushing, EventProgress,
                        EventAnalysis, EventPreview, EventPreviewFailed, EventError
    <3> QED
      BY <2>1, <2>2, <3>1, <3>2
  <2>3. CASE e.kind # "pushing"
    <3>1. pushing' = pushing
      BY <1>2, <2>3 DEF EventMedia, EventOperations, EventPushing, EventProgress,
                        EventAnalysis, EventPreview, EventPreviewFailed, EventError
    <3> QED
      BY <2>1, <2>3, <3>1
  <2> QED
    BY <2>2, <2>3
<1>6. upload' = IF Speaks(Uploading, e) THEN Word(e) ELSE upload
  <2>1. Speaks(Uploading, e) <=> e.kind \in {"progress", "error"}
    BY DEF Speaks, Uploading
  <2>2. CASE e.kind = "progress"
    <3>1. Word(e) = e.of
      BY <2>2 DEF Word
    <3>2. upload' = e.of
      BY <1>2, <2>2 DEF EventMedia, EventOperations, EventPushing, EventProgress,
                        EventAnalysis, EventPreview, EventPreviewFailed, EventError
    <3> QED
      BY <2>1, <2>2, <3>1, <3>2
  <2>3. CASE e.kind = "error"
    <3>1. Word(e) = FALSE
      BY <2>3 DEF Word
    <3>2. upload' = FALSE
      BY <1>2, <2>3 DEF EventMedia, EventOperations, EventPushing, EventProgress,
                        EventAnalysis, EventPreview, EventPreviewFailed, EventError
    <3> QED
      BY <2>1, <2>3, <3>1, <3>2
  <2>4. CASE e.kind \notin {"progress", "error"}
    <3>1. upload' = upload
      BY <1>2, <2>4 DEF EventMedia, EventOperations, EventPushing, EventProgress,
                        EventAnalysis, EventPreview, EventPreviewFailed, EventError
    <3> QED
      BY <2>1, <2>4, <3>1
  <2> QED
    BY <2>2, <2>3, <2>4
<1>7. Told'
  <2>1. Tells(Pushing, events', pushing', metrics)
    <3>1. Tells(Pushing, events, pushing, metrics)
      BY <1>1, <1>2 DEF Told
    <3>2. Tells(Pushing, Tail(events), IF Speaks(Pushing, Head(events)) THEN Word(Head(events)) ELSE pushing, metrics)
      BY <1>2, <1>3, <3>1, TellsLess
    <3> QED
      BY <1>2, <1>5, <3>2 DEF e
  <2>2. ASSUME step \notin {"encode", "push"} PROVE Tells(Uploading, events', upload', FALSE)
    <3>1. Tells(Uploading, events, upload, FALSE)
      BY <1>1, <1>2, <2>2 DEF Told
    <3>2. Tells(Uploading, Tail(events), IF Speaks(Uploading, Head(events)) THEN Word(Head(events)) ELSE upload, FALSE)
      BY <1>2, <1>3, <3>1, TellsLess
    <3> QED
      BY <1>2, <1>6, <3>2 DEF e
  <2> QED
    BY <1>2, <2>1, <2>2 DEF Told
<1>8. Coming'
  <2> SUFFICES ASSUME NEW key \in preview_requested', Waiting(key)' PROVE Way(key)'
    BY DEF Coming
  <2>1. key \in preview_requested /\ Waiting(key) /\ ~Answers(e, key)
    <3>1. CASE EventPreview(e)
      <4>1. e.kind = "preview" /\ store_preview(e.key, e.of) /\ UNCHANGED preview_failures
        BY <3>1 DEF EventPreview
      <4>2. e.key \in Keys /\ e.of \in Sizes \union {0}
        BY <1>3, <1>4, <4>1, EventFields
      <4>3. \/ /\ UNCHANGED preview_requested
               /\ DOMAIN previews' = DOMAIN previews \union {e.key}
            \/ \E gone \in Keys :
                 /\ preview_requested' = preview_requested \ {gone}
                 /\ DOMAIN previews' = (DOMAIN previews \union {e.key}) \ {gone}
        BY <1>1, <4>1, <4>2, PictureStored
      <4>4. key \in preview_requested /\ key \notin DOMAIN previews /\ key # e.key
        BY <4>3 DEF Waiting
      <4> QED
        BY <4>1, <4>4 DEF Waiting, Answers
    <3>2. CASE EventPreviewFailed(e)
      BY <3>2 DEF EventPreviewFailed, Waiting, Answers
    <3>3. CASE ~EventPreview(e) /\ ~EventPreviewFailed(e)
      <4>1. UNCHANGED picture /\ e.kind \notin {"preview", "failed"}
        BY <1>2, <3>3 DEF EventMedia, EventOperations, EventPushing, EventProgress,
                          EventAnalysis, EventError
      <4> QED
        BY <4>1 DEF picture, Waiting, Answers
    <3> QED
      BY <3>1, <3>2, <3>3
  <2>2. Way(key)
    BY <1>1, <1>2, <2>1 DEF Coming
  <2>3. CASE \E i \in DOMAIN requests : Asks(requests[i], key)
    BY <1>2, <2>3 DEF Way
  <2>4. CASE \E i \in DOMAIN events : Answers(events[i], key)
    <3>1. PICK i \in 1 .. Len(events) : Answers(events[i], key)
      BY <1>4, <2>4
    <3>2. i # 1
      BY <1>4, <2>1, <3>1
    <3>3. i - 1 \in 1 .. Len(events) - 1 /\ (i - 1) + 1 = i
      BY <1>4, <3>2
    <3>4. i - 1 \in DOMAIN events' /\ Answers(events'[i - 1], key)
      BY <1>4, <3>1, <3>3
    <3> QED
      BY <3>4 DEF Way
  <2> QED
    BY <2>2, <2>3, <2>4 DEF Way
<1>9. Judged'
  <2> DEFINE V == Verdict(wizard.path)
             lines == IF Speaks(V, e) THEN Word(e) ELSE wizard.lines
  <2>1. ASSUME wizard' # None
        PROVE  /\ wizard # None /\ wizard'.path = wizard.path
               /\ wizard'.transform = wizard.transform /\ wizard'.lines = lines
    <3>1. Speaks(V, e) <=> e.kind = "analysis" /\ e.path = wizard.path
      BY DEF Speaks, Verdict
    <3>2. CASE EventAnalysis(e) /\ wizard # None /\ wizard.path = e.path
      <4>1. wizard \in Wizard
        BY <1>1, <3>2, LoopSame
      <4>2. wizard' = [wizard EXCEPT !.lines = <<e.transform, e.ok>>, !.acceptable = e.ok]
        BY <3>2 DEF EventAnalysis
      <4>3. /\ wizard'.path = wizard.path /\ wizard'.transform = wizard.transform
            /\ wizard'.lines = <<e.transform, e.ok>>
        BY <4>1, <4>2 DEF Wizard
      <4>4. Speaks(V, e) /\ Word(e) = <<e.transform, e.ok>>
        BY <3>1, <3>2 DEF EventAnalysis, Word
      <4> QED
        BY <3>2, <4>3, <4>4
    <3>3. CASE EventAnalysis(e) /\ ~(wizard # None /\ wizard.path = e.path)
      <4>1. wizard' = wizard
        BY <3>3 DEF EventAnalysis
      <4> QED
        BY <2>1, <3>1, <3>3, <4>1
    <3>4. CASE ~EventAnalysis(e)
      <4>1. wizard' = wizard /\ e.kind # "analysis"
        BY <1>2, <3>4 DEF EventMedia, EventOperations, EventPushing, EventProgress,
                          EventPreview, EventPreviewFailed, EventError, choice
      <4> QED
        BY <2>1, <3>1, <4>1
    <3> QED
      BY <3>2, <3>3, <3>4
  <2> SUFFICES ASSUME wizard' # None PROVE Due(wizard)'
    BY <1>2 DEF Judged
  <2>2. Due(wizard)
    BY <1>1, <1>2, <2>1 DEF Judged
  <2>3. Right(wizard)' = Right(wizard) /\ Choice(wizard)' = Choice(wizard)
    BY <2>1 DEF Right, Choice
  <2>4. CASE Says(Question(wizard.path), requests, wizard.transform)
    BY <1>2, <2>1, <2>4 DEF Due
  <2>5. CASE /\ Silent(Question(wizard.path), requests)
             /\ Choice(wizard) \notin unjudged => Tells(V, events, wizard.lines, Right(wizard))
    <3> SUFFICES ASSUME Choice(wizard) \notin unjudged
                 PROVE  Tells(V, events', lines, Right(wizard))
      BY <1>2, <2>1, <2>3, <2>5 DEF Due
    <3>1. Tells(V, Tail(events), IF Speaks(V, Head(events)) THEN Word(Head(events)) ELSE wizard.lines,
                Right(wizard))
      BY <1>2, <1>3, <2>5, TellsLess
    <3> QED
      BY <1>2, <3>1 DEF e
  <2> QED
    BY <2>2, <2>4, <2>5 DEF Due
<1> QED
  BY <1>7, <1>8, <1>9

LEMMA ShownSame == Shown /\ UNCHANGED vars => Coming' /\ Told' /\ Judged'
<1> SUFFICES ASSUME Shown, UNCHANGED vars PROVE Coming' /\ Told' /\ Judged'
  OBVIOUS
<1>1. UNCHANGED <<ui, screen, requests, events, worker, world>>
  BY DEF vars
<1>2. Coming'
  BY <1>1 DEF Shown, Coming, InLoop, Waiting, Way, screen, picture
<1>3. Told'
  BY <1>1 DEF Shown, Told, InLoop, screen, worker
<1>4. Judged'
  BY <1>1 DEF Shown, Judged, InLoop, Due, Right, Choice, screen, choice, worker
<1> QED
  BY <1>2, <1>3, <1>4

LEMMA ShownHolds == Spec => []Shown
<1>1. Shown /\ [Next]_vars => Shown'
  <2> SUFFICES ASSUME Shown, [Next]_vars PROVE Shown'
    OBVIOUS
  <2>1. Types /\ Linked
    BY DEF Shown
  <2>2. Types' /\ Linked'
    BY <2>1, NextTypes, LinkedHolds
  <2>3. LoopStep \/ WorkerStep \/ handle_event \/ UNCHANGED vars
    BY DEF Next, LoopStep, WorkerStep
  <2>4. Coming' /\ Told' /\ Judged'
    BY <2>3, LoopComing, WorkerComing, EventComing, ShownSame
  <2> QED
    BY <2>2, <2>4 DEF Shown
<1> QED
  BY <1>1, ShownAtFirst, PTL DEF Spec

\* A picture that was asked for and is neither there nor impossible is asked for
\* in the requests or answered in the events, for as long as the loop runs:
\* eviction forgets a picture together with its having been asked for.
THEOREM PicturesComing == Spec => []RequestedIsComing
<1>1. Shown => RequestedIsComing
  BY DEF Shown, Coming, RequestedIsComing, InLoop, Way, OnItsWay, Asks, Answers
<1> QED
  BY <1>1, ShownHolds, PTL

\* Once everything is answered no progress of an upload is left on the screen,
\* and the push is shown as it is.
THEOREM SettledAsItIs == Spec => []SettledIsTrue
<1>1. Shown => SettledIsTrue
  <2> SUFFICES ASSUME Shown, Settled PROVE ~upload /\ pushing = metrics
    BY DEF SettledIsTrue
  <2>1. /\ events = <<>> /\ Told /\ InLoop /\ step \notin {"encode", "push"}
        /\ upload \in BOOLEAN
    BY DEF Shown, Settled, InLoop, Types, LoopOK
  <2>2. \A t, v : ~Says(t, events, v)
    BY <2>1 DEF Says
  <2>3. pushing = metrics
    BY <2>1, <2>2 DEF Told, Tells
  <2>4. upload = FALSE
    BY <2>1, <2>2 DEF Told, Tells
  <2> QED
    BY <2>3, <2>4
<1> QED
  BY <1>1, ShownHolds, PTL

\* Once everything is answered the wizard shows the verdict of the choice it shows,
\* and the right one, unless the analysis of that choice ended in an error: an
\* answer to an earlier choice that comes late is put right by the answer to the
\* last.
THEOREM JudgedAsChosen == Spec => []VerdictIsOfTheChoice
<1>1. Shown => VerdictIsOfTheChoice
  <2> SUFFICES ASSUME Shown, Settled, wizard # None, Choice(wizard) \notin unjudged
               PROVE  wizard.lines = Right(wizard)
    BY DEF VerdictIsOfTheChoice, Right
  <2>1. events = <<>> /\ requests = <<>> /\ Due(wizard)
    BY DEF Shown, Settled, InLoop, Judged
  <2>2. \A t, v : ~Says(t, events, v) /\ ~Says(t, requests, v)
    BY <2>1 DEF Says
  <2> QED
    BY <2>1, <2>2 DEF Due, Tells
<1> QED
  BY <1>1, ShownHolds, PTL
=============================================================================
