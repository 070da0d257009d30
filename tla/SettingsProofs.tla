--------------------------- MODULE SettingsProofs ---------------------------
(***************************************************************************)
(* Theorems about the settings and display.json, for any displays, jobs    *)
(* and values.                                                             *)
(*                                                                         *)
(* Types, and which display a job acts on, hold of any number of processes *)
(* (Types).  What is said of the file holds of one job at a time, any      *)
(* number of them, which fail and die anywhere: the theorems about it say  *)
(* so, and TLC shows that two at once lose settings.  Their invariant      *)
(* (Alone) relates what a job has loaded, what it has sent, what the       *)
(* display shows and what is left to do at each of its steps.              *)
(***************************************************************************)
EXTENDS Settings, SequenceTheorems, FiniteSetTheorems, TLAPS

SaveStep == {"open", "write", "rename"}
Steps ==
    {"load", "connect", "apply", "brightness", "rotate", "fan"} \cup SaveStep \cup DaemonStep

\* A display that can be chosen, the screen the interface keeps.
Links(plugged) == {Chosen(protocol, d) : protocol \in {"legacy", "kanali"}, d \in plugged}
Screens == [media : Media \cup {None}, preset : BOOLEAN, look : Looks]
AllAsks == UNION {Asks(kind) : kind \in JobKinds}

-----------------------------------------------------------------------------
(* The order of the steps.  Each part is about a step and those after it,  *)
(* so what holds of a list of steps holds of its tail.                     *)

Has(todo, step) == \E i \in 1..Len(todo) : todo[i] = step

\* Only some jobs take a step.
Takes(kind, step) ==
    /\ step = "apply" => kind \notin {"brightness", "rotate", "fan", "ui brightness"}
    /\ step = "brightness" => kind \in {"brightness", "several", "ui brightness"}
    /\ step = "rotate" => kind \in {"rotate", "several", "ui layout"}
    /\ step = "fan" => kind \in {"fan", "restore"}

\* x may come before y.
Before(kind, x, y) ==
    /\ y = "connect" => x = "load"
    /\ y = "load" => \/ x = "connect"
                     \/ x = "fan" /\ kind = "fan"
                     \/ x = "brightness" /\ kind = "ui brightness"
    /\ y = "apply" => x \in {"load", "connect", "brightness"}
    /\ y = "fan" => x # "fan"
    /\ y \in DaemonStep => x \in DaemonStep
    /\ x \in SaveStep => y \in SaveStep

\* The step after the one at i, and what it may be.
NextStep(todo, i) == IF i < Len(todo) THEN todo[i + 1] ELSE "none"
MayFollow(kind, x, next) ==
    /\ x = "open" => next = "write"
    /\ x = "write" => next = "rename"
    /\ x = "rename" => next = "none"
    /\ x = "daemon open" => next = "daemon write"
    /\ x = "daemon write" => next = "daemon rename"
    /\ x = "daemon rename" => next \notin DaemonStep
    /\ next = "write" => x = "open"
    /\ next = "rename" => x = "write"
    /\ next = "daemon write" => x = "daemon open"
    /\ next = "daemon rename" => x = "daemon write"
    /\ x \notin {"rename", "daemon rename"} => next # "none"
    /\ x = "fan" /\ kind = "fan" => next = "load"
    /\ x = "brightness" /\ kind = "ui brightness" => next = "load"

\* A job that loads the file applies it, or changes one setting.
ThenApplies(kind, todo, i) ==
    \/ todo[i] # "load"
    \/ kind \in {"brightness", "rotate", "fan", "ui brightness"}
    \/ \E k \in (i + 1)..Len(todo) : todo[k] = "apply"

Followed(kind, todo, i) ==
    MayFollow(kind, todo[i], NextStep(todo, i)) /\ ThenApplies(kind, todo, i)

Proper(kind, todo) ==
    /\ todo \in Seq(Steps)
    /\ \A i \in 1..Len(todo) : Takes(kind, todo[i]) /\ Followed(kind, todo, i)
    /\ \A i, k \in 1..Len(todo) : i < k => Before(kind, todo[i], todo[k])

-----------------------------------------------------------------------------
(* Types.                                                                  *)

\* The display of a job is the one it names, if it names one.
Named(aim, to) == {aim.tty, aim.device} \subseteq {None, to.at}

JobOK(plugged, j) ==
    /\ j \in [kind : JobKinds, aim : Aims \cup {NoAim}, asks : AllAsks,
              screen : Screens \cup {None}, saved : State,
              to : Links(plugged) \cup {Refused}, via : {"direct", "daemon"},
              sent : SUBSET Fields, todo : Seq(Steps)]
    /\ j.asks \in Asks(j.kind)
    /\ j.kind \in UiKinds => j.screen \in Screens
    /\ j.todo # << >> /\ Proper(j.kind, j.todo)
    /\ j.to = Refused => Has(j.todo, "connect") /\ j.kind # "restore"
    /\ j.to # Refused => Named(j.aim, j.to)

\* A file that may be read or not, and the settings it holds.
Files == State \cup {NoFile, Torn}

Types ==
    /\ bus \in Buses
    /\ daemon \in Links(Plugged(bus)) \cup {Refused}
    /\ file \in Files /\ temp \in Files
    /\ fd \in [Actors -> {"none", "temp", "file"}]
    /\ display \in [Plugged(bus) -> Shown]
    /\ ui \in Screens \cup {None}
    /\ job = [a \in Actors |-> job[a]]
    /\ \A a \in Actors : job[a] = NoJob \/ JobOK(Plugged(bus), job[a])
    /\ left \in 0..MaxJobs
    /\ unsure \in [Plugged(bus) -> SUBSET Fields]

-----------------------------------------------------------------------------
(* One job at a time: what is saved (s), what was sent and what the         *)
(* displays show (dis).  u is what is unsure.                               *)

OneAtATime == \A a, b \in Actors : ~Idle(a) /\ ~Idle(b) => a = b

Known(u, j, f) == f \in j.sent \/ (j.to # Refused /\ f \in u[j.to.at])

\* Nobody who does nothing has display.json.tmp open.
Quiet == \A b \in Actors : Idle(b) => fd[b] = "none"

\* The writes: what will be renamed is what the job will have saved.
Writes(a) ==
    /\ file # Torn
    /\ Step(a) \in {"write", "daemon write"} => fd[a] = "temp"
    /\ Step(a) \in {"rename", "daemon rename"} => temp = job[a].saved /\ fd[a] = "none"

\* A display shows what the file says, but for what the job has sent to its
\* own.
Told(s, shown, f) == Wanted(s)[f] \in {None, shown[f]}

FileTold(a) ==
    \A d \in Plugged(bus) : \A f \in Fields \ unsure[d] :
        \/ Told(load(file), display[d], f)
        \/ ~Idle(a) /\ d = job[a].to.at /\ f \in job[a].sent

\* The display shows what the job has sent, and this is what it will save.
SentShown(dis, j) ==
    /\ \A f \in j.sent : Told(j.saved, dis[j.to.at], f)
    /\ Has(j.todo, "connect") => j.sent = {} /\ (j.kind # "restore" => j.to = Refused)
    /\ j.kind = "restore" => /\ Has(j.todo, "apply") => j.sent = {}
                             /\ Has(j.todo, "fan") => "fan" \notin j.sent

\* Two jobs load the file after their request.
LoadsAfter == {"fan", "ui brightness"}
Asked(kind) == IF kind = "fan" THEN "fan" ELSE "brightness"
Unloaded(dis, u, j) ==
    Has(j.todo, "load") =>
        /\ \A f \in j.sent : /\ j.kind \in LoadsAfter /\ f = Asked(j.kind)
                             /\ dis[j.to.at][f] = j.asks[f]
        /\ j.saved.fan = None
        /\ j.kind \in LoadsAfter =>
             Has(j.todo, Asked(j.kind)) \/ Known(u, j, Asked(j.kind))

\* What the job changes in the file has been sent, or is in what apply will
\* send.
Changed(u, s, j) ==
    ~Has(j.todo, "load") =>
        \A f \in Fields :
            \/ Known(u, j, f)
            \/ f # "fan" /\ Has(j.todo, "apply") /\ j.kind # "restore"
            \/ Wanted(j.saved)[f] \in {None, Wanted(s)[f]}

\* A job keeps the settings it is not about.
Kept(s, j) ==
    ~Has(j.todo, "load") /\ j.kind \notin TabKinds =>
        \A x \in (DOMAIN Default) \ About(j.kind) : j.saved[x] = s[x]

Goes(dis, u, s, j) ==
    SentShown(dis, j) /\ Unloaded(dis, u, j) /\ Changed(u, s, j) /\ Kept(s, j)

Alone(a) ==
    /\ Quiet /\ Writes(a) /\ FileTold(a)
    /\ ~Idle(a) => Goes(display, unsure, load(file), job[a])

\* Whoever is the only one at work, or nobody.
Others(a) == \A b \in Actors \ {a} : Idle(b)
IInv == \A a \in Actors : Others(a) => Alone(a)

-----------------------------------------------------------------------------
(* Lists of steps.                                                         *)

LEMMA SuffixProper ==
    ASSUME NEW kind, NEW todo, Proper(kind, todo), NEW m \in 0..Len(todo)
    PROVE  /\ Proper(kind, SubSeq(todo, m + 1, Len(todo)))
           /\ Len(SubSeq(todo, m + 1, Len(todo))) = Len(todo) - m
           /\ \A i \in 1..(Len(todo) - m) :
                SubSeq(todo, m + 1, Len(todo))[i] = todo[m + i]
<1> DEFINE t == SubSeq(todo, m + 1, Len(todo))
<1>1. todo \in Seq(Steps) /\ Len(todo) \in Nat
  BY DEF Proper
<1>2. /\ t \in Seq(Steps) /\ Len(t) = Len(todo) - m
      /\ \A i \in 1..Len(t) : t[i] = todo[m + i]
  <2> DEFINE n == Len(todo)  k == m + 1
  <2>1. \A i \in k..n : todo[i] \in Steps
    BY <1>1
  <2>2. k \in Int /\ n \in Int
    BY <1>1
  <2>3. t = SubSeq(todo, k, n)
    OBVIOUS
  <2> HIDE DEF k, n, t
  <2>4. /\ t \in Seq(Steps) /\ Len(t) = IF k <= n THEN n - k + 1 ELSE 0
        /\ \A i \in 1..(n - k + 1) : t[i] = todo[k + i - 1]
    BY <2>1, <2>2, <2>3, SubSeqProperties
  <2> QED
    BY <1>1, <2>4 DEF k, n
<1> HIDE DEF t
<1>3. \A i \in 1..Len(t) : m + i \in 1..Len(todo)
  BY <1>1, <1>2
<1>4. ASSUME NEW i \in 1..Len(t) PROVE Takes(kind, t[i]) /\ Followed(kind, t, i)
  <2>1. Takes(kind, todo[m + i]) /\ Followed(kind, todo, m + i)
    BY <1>3 DEF Proper
  <2>2. t[i] = todo[m + i] /\ NextStep(t, i) = NextStep(todo, m + i)
    <3>1. t[i] = todo[m + i]
      BY <1>2
    <3>2. i < Len(t) <=> m + i < Len(todo)
      BY <1>1, <1>2
    <3>3. ASSUME i < Len(t) PROVE t[i + 1] = todo[m + i + 1]
      <4>1. i + 1 \in 1..Len(t) /\ m + (i + 1) = m + i + 1
        BY <1>1, <1>2, <3>3
      <4> QED
        BY <1>2, <4>1
    <3> QED
      BY <3>1, <3>2, <3>3 DEF NextStep
  <2>3. ASSUME NEW k \in (m + i + 1)..Len(todo), todo[k] = "apply"
        PROVE  \E l \in (i + 1)..Len(t) : t[l] = "apply"
    <3>1. k - m \in (i + 1)..Len(t) /\ m + (k - m) = k /\ k - m \in 1..Len(t)
      BY <1>1, <1>2
    <3> QED
      BY <1>2, <2>3, <3>1
  <2>4. ThenApplies(kind, t, i)
    BY <2>1, <2>2, <2>3 DEF Followed, ThenApplies
  <2> QED
    BY <2>1, <2>2, <2>4 DEF Followed
<1>5. ASSUME NEW i \in 1..Len(t), NEW k \in 1..Len(t), i < k
      PROVE  Before(kind, t[i], t[k])
  <2>1. t[i] = todo[m + i] /\ t[k] = todo[m + k] /\ m + i < m + k
    BY <1>1, <1>2, <1>5
  <2>2. Before(kind, todo[m + i], todo[m + k])
    BY <1>3, <2>1 DEF Proper
  <2> QED
    BY <2>1, <2>2
<1> QED
  BY <1>2, <1>4, <1>5 DEF Proper, t

LEMMA TailProper ==
    ASSUME NEW kind, NEW todo, Proper(kind, todo), todo # << >>
    PROVE  /\ Len(todo) \in Nat \ {0} /\ Head(todo) = todo[1] /\ Head(todo) \in Steps
           /\ Takes(kind, Head(todo)) /\ Followed(kind, todo, 1)
           /\ Proper(kind, Tail(todo))
           /\ \A s : Has(todo, s) <=> s = Head(todo) \/ Has(Tail(todo), s)
           /\ \A s : Has(Tail(todo), s) => Before(kind, Head(todo), s)
           /\ Tail(todo) = << >> <=> Len(todo) = 1
           /\ Tail(todo) # << >> => Head(Tail(todo)) = todo[2]
           /\ Head(todo) \notin {"rename", "daemon rename"} => Tail(todo) # << >>
<1>1. todo \in Seq(Steps) /\ Len(todo) \in Nat \ {0} /\ 1 \in 1..Len(todo)
  BY EmptySeq DEF Proper
<1>2. Head(todo) = todo[1] /\ Head(todo) \in Steps
  BY <1>1
<1>3. Takes(kind, Head(todo)) /\ Followed(kind, todo, 1)
  BY <1>1, <1>2 DEF Proper
<1>4. Tail(todo) = SubSeq(todo, 1 + 1, Len(todo))
  BY <1>1, TailIsSubSeq
<1>5. /\ Proper(kind, Tail(todo)) /\ Len(Tail(todo)) = Len(todo) - 1
      /\ \A i \in 1..(Len(todo) - 1) : Tail(todo)[i] = todo[1 + i]
  <2> DEFINE m == 1
  <2>1. m \in 0..Len(todo)
    BY <1>1
  <2> HIDE DEF m
  <2>2. /\ Proper(kind, SubSeq(todo, m + 1, Len(todo)))
        /\ Len(SubSeq(todo, m + 1, Len(todo))) = Len(todo) - m
        /\ \A i \in 1..(Len(todo) - m) :
             SubSeq(todo, m + 1, Len(todo))[i] = todo[m + i]
    BY <2>1, SuffixProper
  <2> QED
    BY <1>4, <2>2 DEF m
<1>6. Tail(todo) \in Seq(Steps)
  BY <1>5 DEF Proper
<1>7. ASSUME NEW s PROVE Has(todo, s) <=> s = Head(todo) \/ Has(Tail(todo), s)
  <2>1. ASSUME Has(todo, s), s # Head(todo) PROVE Has(Tail(todo), s)
    <3>1. PICK i \in 1..Len(todo) : todo[i] = s
      BY <2>1 DEF Has
    <3>2. i - 1 \in 1..Len(Tail(todo)) /\ Tail(todo)[i - 1] = todo[1 + (i - 1)]
          /\ 1 + (i - 1) = i
      BY <1>1, <1>2, <1>5, <2>1, <3>1
    <3> QED
      BY <3>1, <3>2 DEF Has
  <2>2. ASSUME Has(Tail(todo), s) PROVE Has(todo, s)
    BY <1>1, <1>5, <2>2 DEF Has
  <2> QED
    BY <1>1, <1>2, <2>1, <2>2 DEF Has
<1>8. ASSUME NEW s, Has(Tail(todo), s) PROVE Before(kind, Head(todo), s)
  <2>1. PICK i \in 1..Len(Tail(todo)) : Tail(todo)[i] = s
    BY <1>8 DEF Has
  <2>2. 1 + i \in 1..Len(todo) /\ 1 < 1 + i /\ todo[1 + i] = s
    BY <1>1, <1>5, <2>1
  <2> QED
    BY <1>1, <1>2, <2>2 DEF Proper
<1>9. Tail(todo) = << >> <=> Len(todo) = 1
  <2>1. Len(Tail(todo)) = 0 <=> Tail(todo) = << >>
    BY <1>6, EmptySeq
  <2> QED
    BY <1>1, <1>5, <2>1
<1>10. ASSUME Tail(todo) # << >> PROVE Head(Tail(todo)) = todo[2]
  <2>1. Len(todo) - 1 \in Nat \ {0} /\ Head(Tail(todo)) = Tail(todo)[1]
    BY <1>1, <1>5, <1>6, <1>9, <1>10, EmptySeq
  <2> QED
    BY <1>5, <2>1
<1>11. Head(todo) \notin {"rename", "daemon rename"} => Tail(todo) # << >>
  <2>1. ASSUME Tail(todo) = << >> PROVE NextStep(todo, 1) = "none"
    <3>1. ~(1 < Len(todo))
      BY <1>9, <2>1
    <3> QED
      BY <3>1 DEF NextStep
  <2>2. todo[1] \notin {"rename", "daemon rename"} => NextStep(todo, 1) # "none"
    BY <1>3 DEF Followed, MayFollow
  <2> QED
    BY <1>2, <2>1, <2>2
<1> QED
  BY <1>1, <1>2, <1>3, <1>5, <1>7, <1>8, <1>9, <1>10, <1>11

LEMMA ThreeSteps ==
    ASSUME NEW S, NEW x \in S, NEW y \in S, NEW z \in S
    PROVE  <<x, y, z>> \in Seq(S)
OBVIOUS

\* The daemon's save before what is left of a job that needs no apply.
LEMMA DaemonProper ==
    ASSUME NEW kind, NEW todo, Proper(kind, todo),
           ~Has(todo, "load"), ~Has(todo, "connect"), ~Has(todo, "apply"),
           \A s \in DaemonStep : ~Has(todo, s),
           todo # << >> => todo[1] \notin {"write", "rename"}
    PROVE  /\ Proper(kind, DaemonSteps \o todo)
           /\ DaemonSteps \o todo # << >>
           /\ \A s : Has(DaemonSteps \o todo, s) <=> s \in DaemonStep \/ Has(todo, s)
           /\ Head(DaemonSteps \o todo) = "daemon open"
<1> DEFINE t == DaemonSteps \o todo
<1>1. todo \in Seq(Steps) /\ Len(todo) \in Nat
  BY DEF Proper
<1>2. /\ DaemonSteps \in Seq(Steps) /\ Len(DaemonSteps) = 3
      /\ DaemonSteps[1] = "daemon open" /\ DaemonSteps[2] = "daemon write"
      /\ DaemonSteps[3] = "daemon rename"
  <2>1. "daemon open" \in Steps /\ "daemon write" \in Steps /\ "daemon rename" \in Steps
    BY DEF Steps, DaemonStep
  <2>2. DaemonSteps \in Seq(Steps)
    BY <2>1, ThreeSteps DEF DaemonSteps
  <2> QED
    BY <2>2 DEF DaemonSteps
<1>3. /\ t \in Seq(Steps) /\ Len(t) = 3 + Len(todo)
      /\ \A i \in 1..(3 + Len(todo)) : t[i] = IF i <= 3 THEN DaemonSteps[i] ELSE todo[i - 3]
  <2>1. /\ t \in Seq(Steps) /\ Len(t) = Len(DaemonSteps) + Len(todo)
        /\ \A i \in 1..(Len(DaemonSteps) + Len(todo)) :
             t[i] = IF i <= Len(DaemonSteps) THEN DaemonSteps[i] ELSE todo[i - Len(DaemonSteps)]
    BY <1>1, <1>2, ConcatProperties
  <2> QED
    BY <1>2, <2>1
<1> HIDE DEF t
<1>4. /\ t[1] = "daemon open" /\ t[2] = "daemon write" /\ t[3] = "daemon rename"
      /\ \A i \in 1..Len(todo) : t[i + 3] = todo[i]
      /\ \A i \in 1..Len(t) : i \in {1, 2, 3} \/ i - 3 \in 1..Len(todo)
      /\ \A i \in 1..Len(t) : i - 3 \in 1..Len(todo) => t[i] = todo[i - 3]
  <2>1. t[1] = DaemonSteps[1] /\ t[2] = DaemonSteps[2] /\ t[3] = DaemonSteps[3]
    BY <1>1, <1>3
  <2>2. ASSUME NEW i \in 1..Len(todo) PROVE t[i + 3] = todo[i]
    <3>1. i + 3 \in 1..(3 + Len(todo)) /\ ~(i + 3 <= 3) /\ (i + 3) - 3 = i
      BY <1>1
    <3> QED
      BY <1>3, <3>1
  <2>3. \A i \in 1..Len(t) : i \in {1, 2, 3} \/ i - 3 \in 1..Len(todo)
    BY <1>1, <1>3
  <2>4. ASSUME NEW i \in 1..Len(t), i - 3 \in 1..Len(todo) PROVE t[i] = todo[i - 3]
    BY <1>1, <1>3, <2>4
  <2> QED
    BY <1>2, <2>1, <2>2, <2>3, <2>4
<1>5. \A i \in 1..Len(todo) : todo[i] \notin {"load", "connect", "apply"} \cup DaemonStep
  BY DEF Has
<1>6. ASSUME NEW i \in 1..Len(t) PROVE Takes(kind, t[i]) /\ Followed(kind, t, i)
  <2>1. CASE i \in {1, 2, 3}
    <3>1. /\ NextStep(t, 1) = "daemon write" /\ NextStep(t, 2) = "daemon rename"
          /\ NextStep(t, 3) \notin DaemonStep \cup {"write", "rename"}
      <4>1. ASSUME 3 < Len(t) PROVE t[3 + 1] \notin DaemonStep \cup {"write", "rename"}
        <5>1. 1 \in 1..Len(todo) /\ Len(todo) # 0
          BY <1>1, <1>3, <4>1
        <5>2. t[1 + 3] = todo[1]
          BY <1>4, <5>1
        <5>3. todo # << >>
          BY <1>1, <5>1, EmptySeq
        <5> QED
          BY <1>5, <5>1, <5>2, <5>3
      <4>2. "none" \notin DaemonStep \cup {"write", "rename"}
        BY DEF DaemonStep
      <4>3. 1 < Len(t) /\ 2 < Len(t)
        BY <1>1, <1>3
      <4>4. NextStep(t, 1) = t[2] /\ NextStep(t, 2) = t[3]
        BY <4>3 DEF NextStep
      <4>5. NextStep(t, 3) \notin DaemonStep \cup {"write", "rename"}
        BY <4>1, <4>2 DEF NextStep
      <4> QED
        BY <1>4, <4>4, <4>5
    <3>2. CASE i = 1
      BY <1>4, <3>1, <3>2 DEF Takes, Followed, MayFollow, ThenApplies, DaemonStep
    <3>3. CASE i = 2
      BY <1>4, <3>1, <3>3 DEF Takes, Followed, MayFollow, ThenApplies, DaemonStep
    <3>4. CASE i = 3
      BY <1>4, <3>1, <3>4 DEF Takes, Followed, MayFollow, ThenApplies, DaemonStep
    <3> QED
      BY <2>1, <3>2, <3>3, <3>4
  <2>2. CASE i - 3 \in 1..Len(todo)
    <3>1. t[i] = todo[i - 3]
      BY <1>4, <2>2
    <3>2. Takes(kind, todo[i - 3]) /\ Followed(kind, todo, i - 3)
      BY <2>2 DEF Proper
    <3>3. NextStep(t, i) = NextStep(todo, i - 3)
      <4>1. i < Len(t) => /\ i - 3 < Len(todo) /\ i + 1 \in 1..Len(t)
                          /\ (i + 1) - 3 \in 1..Len(todo) /\ (i + 1) - 3 = (i - 3) + 1
        BY <1>1, <1>3, <2>2
      <4>2. ~(i < Len(t)) => ~(i - 3 < Len(todo))
        BY <1>1, <1>3, <2>2
      <4>3. i < Len(t) => t[i + 1] = todo[(i - 3) + 1]
        BY <1>4, <4>1
      <4> QED
        BY <4>1, <4>2, <4>3 DEF NextStep
    <3>4. todo[i - 3] # "load"
      BY <1>5, <2>2
    <3> QED
      BY <3>1, <3>2, <3>3, <3>4 DEF Followed, ThenApplies
  <2> QED
    BY <1>4, <2>1, <2>2
<1>7. ASSUME NEW i \in 1..Len(t), NEW k \in 1..Len(t), i < k
      PROVE  Before(kind, t[i], t[k])
  <2>1. CASE i \in {1, 2, 3}
    <3>1. t[i] \in DaemonStep /\ t[i] \notin SaveStep /\ t[i] # "fan"
      BY <1>4, <2>1 DEF DaemonStep, SaveStep
    <3>2. t[k] \notin {"load", "connect", "apply"}
      BY <1>4, <1>5
    <3> QED
      BY <3>1, <3>2 DEF Before
  <2>2. CASE i - 3 \in 1..Len(todo)
    <3>1. k - 3 \in 1..Len(todo) /\ i - 3 < k - 3
      BY <1>1, <1>3, <1>7, <2>2
    <3>2. t[i] = todo[i - 3] /\ t[k] = todo[k - 3]
      BY <1>4, <2>2, <3>1
    <3> QED
      BY <2>2, <3>1, <3>2 DEF Proper
  <2> QED
    BY <1>4, <2>1, <2>2
<1>8. ASSUME NEW s PROVE Has(t, s) <=> s \in DaemonStep \/ Has(todo, s)
  <2>1. ASSUME NEW i \in 1..Len(t), t[i] = s PROVE s \in DaemonStep \/ Has(todo, s)
    BY <1>4, <2>1 DEF Has, DaemonStep
  <2>2. ASSUME s \in DaemonStep PROVE Has(t, s)
    <3>1. 1 \in 1..Len(t) /\ 2 \in 1..Len(t) /\ 3 \in 1..Len(t)
      BY <1>1, <1>3
    <3> QED
      BY <1>4, <2>2, <3>1 DEF Has, DaemonStep
  <2>3. ASSUME NEW i \in 1..Len(todo), todo[i] = s PROVE Has(t, s)
    <3>1. i + 3 \in 1..Len(t)
      BY <1>1, <1>3
    <3> QED
      BY <1>4, <2>3, <3>1 DEF Has
  <2> QED
    BY <2>1, <2>2, <2>3 DEF Has
<1>9. t # << >> /\ Head(t) = "daemon open"
  <2>1. Len(t) # 0 /\ Len(<< >>) = 0
    BY <1>1, <1>3
  <2>2. t # << >>
    BY <2>1
  <2>3. Head(t) = t[1]
    BY <1>3, <2>1
  <2> QED
    BY <1>4, <2>2, <2>3
<1> QED
  BY <1>3, <1>6, <1>7, <1>8, <1>9 DEF Proper, t

\* What a job does before it saves.
Front(kind, f) ==
    /\ f \in Seq(Steps) /\ Len(f) > 0
    /\ \A i \in 1..Len(f) :
        /\ f[i] \notin SaveStep \cup DaemonStep
        /\ Takes(kind, f[i]) /\ ThenApplies(kind, f, i)
        /\ (f[i] = "fan" /\ kind = "fan") \/ (f[i] = "brightness" /\ kind = "ui brightness")
             => i < Len(f) /\ f[i + 1] = "load"
    /\ \A i, k \in 1..Len(f) : i < k => Before(kind, f[i], f[k])

LEMMA WithSave ==
    ASSUME NEW kind, NEW f, Front(kind, f)
    PROVE  /\ Proper(kind, f \o SaveSteps) /\ f \o SaveSteps # << >>
           /\ \A s : Has(f, s) => Has(f \o SaveSteps, s)
<1> DEFINE n == Len(f)  t == f \o SaveSteps
<1>1. f \in Seq(Steps) /\ n \in Nat /\ n > 0
  <2>1. f \in Seq(Steps) /\ Len(f) > 0
    BY DEF Front
  <2> QED
    BY <2>1
<1>2. /\ SaveSteps \in Seq(Steps) /\ Len(SaveSteps) = 3
      /\ SaveSteps[1] = "open" /\ SaveSteps[2] = "write" /\ SaveSteps[3] = "rename"
  <2>1. "open" \in Steps /\ "write" \in Steps /\ "rename" \in Steps
    BY DEF Steps, SaveStep
  <2>2. SaveSteps \in Seq(Steps)
    BY <2>1, ThreeSteps DEF SaveSteps
  <2> QED
    BY <2>2 DEF SaveSteps
<1>3. /\ t \in Seq(Steps) /\ Len(t) = n + 3
      /\ \A i \in 1..(n + 3) : t[i] = IF i <= n THEN f[i] ELSE SaveSteps[i - n]
  <2>1. /\ t \in Seq(Steps) /\ Len(t) = n + Len(SaveSteps)
        /\ \A i \in 1..(n + Len(SaveSteps)) : t[i] = IF i <= n THEN f[i] ELSE SaveSteps[i - n]
    BY <1>1, <1>2, ConcatProperties
  <2> QED
    BY <1>2, <2>1
<1> HIDE DEF n, t
<1>4. /\ \A i \in 1..n : t[i] = f[i]
      /\ t[n + 1] = "open" /\ t[n + 2] = "write" /\ t[n + 3] = "rename"
      /\ \A i \in 1..Len(t) : i \in 1..n \/ i = n + 1 \/ i = n + 2 \/ i = n + 3
  <2>1. t[n + 1] = SaveSteps[1] /\ t[n + 2] = SaveSteps[2] /\ t[n + 3] = SaveSteps[3]
    <3>1. /\ n + 1 \in 1..(n + 3) /\ ~(n + 1 <= n) /\ (n + 1) - n = 1
          /\ n + 2 \in 1..(n + 3) /\ ~(n + 2 <= n) /\ (n + 2) - n = 2
          /\ n + 3 \in 1..(n + 3) /\ ~(n + 3 <= n) /\ (n + 3) - n = 3
      BY <1>1
    <3> QED
      BY <1>3, <3>1
  <2>2. \A i \in 1..n : i \in 1..(n + 3) /\ i <= n
    BY <1>1
  <2>3. \A i \in 1..Len(t) : i \in 1..n \/ i = n + 1 \/ i = n + 2 \/ i = n + 3
    BY <1>1, <1>3
  <2> QED
    BY <1>2, <1>3, <2>1, <2>2, <2>3
<1>5. /\ \A i \in 1..n : NextStep(t, i) = IF i < n THEN f[i + 1] ELSE "open"
      /\ NextStep(t, n + 1) = "write" /\ NextStep(t, n + 2) = "rename"
      /\ NextStep(t, n + 3) = "none"
  <2>1. /\ n + 1 < Len(t) /\ n + 2 < Len(t) /\ ~(n + 3 < Len(t))
        /\ (n + 1) + 1 = n + 2 /\ (n + 2) + 1 = n + 3
    BY <1>1, <1>3
  <2>2. ASSUME NEW i \in 1..n PROVE NextStep(t, i) = IF i < n THEN f[i + 1] ELSE "open"
    <3>1. /\ i < Len(t) /\ (i < n => i + 1 \in 1..n) /\ (~(i < n) => i + 1 = n + 1)
      BY <1>1, <1>3
    <3> QED
      BY <1>4, <3>1 DEF NextStep
  <2>3. /\ NextStep(t, n + 1) = t[n + 2] /\ NextStep(t, n + 2) = t[n + 3]
        /\ NextStep(t, n + 3) = "none"
    BY <2>1 DEF NextStep
  <2> QED
    BY <1>4, <2>2, <2>3
<1>6. ASSUME NEW i \in 1..Len(t) PROVE Takes(kind, t[i]) /\ Followed(kind, t, i)
  <2>1. CASE i \in 1..n
    <3>1. /\ f[i] \notin SaveStep \cup DaemonStep
          /\ Takes(kind, f[i]) /\ ThenApplies(kind, f, i)
          /\ (f[i] = "fan" /\ kind = "fan") \/ (f[i] = "brightness" /\ kind = "ui brightness")
               => i < n /\ f[i + 1] = "load"
      BY <2>1 DEF Front, n
    <3>2. t[i] = f[i] /\ NextStep(t, i) = IF i < n THEN f[i + 1] ELSE "open"
      BY <1>4, <1>5, <2>1
    <3>3. i < n => f[i + 1] # "none" /\ f[i + 1] \notin SaveStep \cup DaemonStep
      <4>1. ASSUME i < n
            PROVE  f[i + 1] \in Steps /\ f[i + 1] \notin SaveStep \cup DaemonStep
        <5>1. i + 1 \in 1..n
          BY <1>1, <2>1, <4>1
        <5>2. f[i + 1] \in Steps
          BY <1>1, <5>1 DEF n
        <5> QED
          BY <5>1, <5>2 DEF Front, n
      <4> QED
        BY <4>1 DEF Steps, SaveStep, DaemonStep
    <3>4. MayFollow(kind, t[i], NextStep(t, i))
      BY <3>1, <3>2, <3>3 DEF MayFollow, SaveStep, DaemonStep
    <3>5. ASSUME NEW k \in (i + 1)..n, f[k] = "apply"
          PROVE  \E l \in (i + 1)..Len(t) : t[l] = "apply"
      <4>1. k \in 1..n /\ k \in (i + 1)..Len(t)
        BY <1>1, <1>3, <2>1
      <4> QED
        BY <1>4, <3>5, <4>1
    <3>6. ThenApplies(kind, t, i)
      BY <3>1, <3>2, <3>5 DEF ThenApplies, n
    <3> QED
      BY <3>1, <3>2, <3>4, <3>6 DEF Followed
  <2>2. CASE i = n + 1
    BY <1>4, <1>5, <2>2 DEF Takes, Followed, MayFollow, ThenApplies
  <2>3. CASE i = n + 2
    BY <1>4, <1>5, <2>3 DEF Takes, Followed, MayFollow, ThenApplies
  <2>4. CASE i = n + 3
    BY <1>4, <1>5, <2>4 DEF Takes, Followed, MayFollow, ThenApplies
  <2> QED
    BY <1>4, <2>1, <2>2, <2>3, <2>4
<1>7. ASSUME NEW i \in 1..Len(t), NEW k \in 1..Len(t), i < k
      PROVE  Before(kind, t[i], t[k])
  <2>1. CASE k \in 1..n
    <3>1. i \in 1..n
      BY <1>1, <1>7, <2>1
    <3> QED
      BY <1>4, <1>7, <2>1, <3>1 DEF Front, n
  <2>2. CASE k \notin 1..n
    BY <1>4, <2>2 DEF Before, SaveStep, DaemonStep
  <2> QED
    BY <2>1, <2>2
<1>8. ASSUME NEW s, Has(f, s) PROVE Has(t, s)
  <2>1. \A i \in 1..n : i \in 1..Len(t)
    BY <1>1, <1>3
  <2> QED
    BY <1>4, <1>8, <2>1 DEF Has, n
<1>9. t # << >>
  <2>1. Len(t) # 0 /\ Len(<< >>) = 0
    BY <1>1, <1>3
  <2> QED
    BY <2>1
<1> QED
  BY <1>3, <1>6, <1>7, <1>8, <1>9 DEF Proper, t

\* What is asked of the lists below: a job that applies loads first, the others
\* that load last do so after their request.
LoadsFirst(kind, x, later) ==
    \/ kind \in {"brightness", "rotate", "fan", "ui brightness"}
    \/ x = "load" /\ "load" \notin later /\ "apply" \in later
LoadsLast(kind, x, y, z) ==
    /\ kind = "fan" => y = "fan" /\ z = "load" /\ x # "fan"
    /\ kind = "ui brightness" => y = "brightness" /\ z = "load" /\ x # "brightness"
LoadsNotLast(kind) == kind \notin {"fan", "ui brightness"}

LEMMA Front3 ==
    ASSUME NEW kind, NEW x \in Steps, NEW y \in Steps, NEW z \in Steps,
           {x, y, z} \cap (SaveStep \cup DaemonStep) = {},
           Takes(kind, x) /\ Takes(kind, y) /\ Takes(kind, z),
           /\ Before(kind, x, y) /\ Before(kind, x, z) /\ Before(kind, y, z),
           LoadsFirst(kind, x, {y, z}),
           LoadsLast(kind, x, y, z)
    PROVE  Front(kind, <<x, y, z>>) /\ \A s \in {x, y, z} : Has(<<x, y, z>>, s)
<1> DEFINE f == <<x, y, z>>
<1>1. f \in Seq(Steps) /\ Len(f) = 3
  OBVIOUS
<1>2. f[1] = x /\ f[2] = y /\ f[3] = z
  OBVIOUS
<1> HIDE DEF f
<1>3. \A i \in 1..Len(f) : i = 1 \/ i = 2 \/ i = 3
  BY <1>1
<1>4. 1 \in 1..Len(f) /\ 2 \in 1..Len(f) /\ 3 \in 1..Len(f)
  BY <1>1
<1>5. \A i \in 1..Len(f) : f[i] \notin SaveStep \cup DaemonStep /\ Takes(kind, f[i])
  BY <1>2, <1>3
<1>6. ASSUME NEW i \in 1..Len(f) PROVE ThenApplies(kind, f, i)
  <2>1. CASE kind \in {"brightness", "rotate", "fan", "ui brightness"}
    BY <2>1 DEF ThenApplies
  <2>2. CASE x = "load" /\ "load" \notin {y, z} /\ "apply" \in {y, z}
    <3>1. CASE i = 1
      <4>1. \E k \in (i + 1)..Len(f) : f[k] = "apply"
        <5>2. i + 1 = 2
          BY <3>1
        <5>1. 2 \in 2..Len(f) /\ 3 \in 2..Len(f)
          BY <1>1
        <5> QED
          BY <1>2, <2>2, <5>1, <5>2
      <4> QED
        BY <4>1 DEF ThenApplies
    <3>2. CASE i # 1
      <4>1. f[i] # "load"
        BY <1>2, <1>3, <2>2, <3>2
      <4> QED
        BY <4>1 DEF ThenApplies
    <3> QED
      BY <3>1, <3>2
  <2> QED
    BY <2>1, <2>2 DEF LoadsFirst
<1>7. ASSUME NEW i \in 1..Len(f),
             (f[i] = "fan" /\ kind = "fan") \/ (f[i] = "brightness" /\ kind = "ui brightness")
      PROVE  i < Len(f) /\ f[i + 1] = "load"
  <2>1. i = 2 /\ z = "load"
    BY <1>2, <1>3, <1>7 DEF LoadsLast
  <2>2. 2 < Len(f) /\ 2 + 1 = 3
    BY <1>1
  <2> QED
    BY <1>2, <2>1, <2>2
<1>8. ASSUME NEW i \in 1..Len(f), NEW k \in 1..Len(f), i < k
      PROVE  Before(kind, f[i], f[k])
  BY <1>2, <1>3, <1>8
<1>9. Front(kind, f)
  <2>1. Len(f) > 0
    BY <1>1
  <2> QED
    BY <1>1, <1>5, <1>6, <1>7, <1>8, <2>1 DEF Front
<1>10. \A s \in {x, y, z} : Has(f, s)
  BY <1>2, <1>4 DEF Has
<1> QED
  BY <1>9, <1>10 DEF f

LEMMA Front4 ==
    ASSUME NEW kind, NEW x \in Steps, NEW y \in Steps, NEW z \in Steps, NEW v \in Steps,
           {x, y, z, v} \cap (SaveStep \cup DaemonStep) = {},
           Takes(kind, x) /\ Takes(kind, y) /\ Takes(kind, z) /\ Takes(kind, v),
           /\ Before(kind, x, y) /\ Before(kind, x, z) /\ Before(kind, x, v)
           /\ Before(kind, y, z) /\ Before(kind, y, v) /\ Before(kind, z, v),
           LoadsFirst(kind, x, {y, z, v}),
           LoadsNotLast(kind)
    PROVE  Front(kind, <<x, y, z, v>>) /\ \A s \in {x, y, z, v} : Has(<<x, y, z, v>>, s)
<1> DEFINE f == <<x, y, z, v>>
<1>1. f \in Seq(Steps) /\ Len(f) = 4
  OBVIOUS
<1>2. f[1] = x /\ f[2] = y /\ f[3] = z /\ f[4] = v
  OBVIOUS
<1> HIDE DEF f
<1>3. \A i \in 1..Len(f) : i = 1 \/ i = 2 \/ i = 3 \/ i = 4
  BY <1>1
<1>4. 1 \in 1..Len(f) /\ 2 \in 1..Len(f) /\ 3 \in 1..Len(f) /\ 4 \in 1..Len(f)
  BY <1>1
<1>5. \A i \in 1..Len(f) : f[i] \notin SaveStep \cup DaemonStep /\ Takes(kind, f[i])
  BY <1>2, <1>3
<1>6. ASSUME NEW i \in 1..Len(f) PROVE ThenApplies(kind, f, i)
  <2>1. CASE kind \in {"brightness", "rotate", "fan", "ui brightness"}
    BY <2>1 DEF ThenApplies
  <2>2. CASE x = "load" /\ "load" \notin {y, z, v} /\ "apply" \in {y, z, v}
    <3>1. CASE i = 1
      <4>1. \E k \in (i + 1)..Len(f) : f[k] = "apply"
        <5>2. i + 1 = 2
          BY <3>1
        <5>1. 2 \in 2..Len(f) /\ 3 \in 2..Len(f) /\ 4 \in 2..Len(f)
          BY <1>1
        <5> QED
          BY <1>2, <2>2, <5>1, <5>2
      <4> QED
        BY <4>1 DEF ThenApplies
    <3>2. CASE i # 1
      <4>1. f[i] # "load"
        BY <1>2, <1>3, <2>2, <3>2
      <4> QED
        BY <4>1 DEF ThenApplies
    <3> QED
      BY <3>1, <3>2
  <2> QED
    BY <2>1, <2>2 DEF LoadsFirst
<1>7. ASSUME NEW i \in 1..Len(f),
             (f[i] = "fan" /\ kind = "fan") \/ (f[i] = "brightness" /\ kind = "ui brightness")
      PROVE  i < Len(f) /\ f[i + 1] = "load"
  BY <1>7 DEF LoadsNotLast
<1>8. ASSUME NEW i \in 1..Len(f), NEW k \in 1..Len(f), i < k
      PROVE  Before(kind, f[i], f[k])
  BY <1>2, <1>3, <1>8
<1>9. Front(kind, f)
  <2>1. Len(f) > 0
    BY <1>1
  <2> QED
    BY <1>1, <1>5, <1>6, <1>7, <1>8, <2>1 DEF Front
<1>10. \A s \in {x, y, z, v} : Has(f, s)
  BY <1>2, <1>4 DEF Has
<1> QED
  BY <1>9, <1>10 DEF f

LEMMA Front5 ==
    ASSUME NEW kind, NEW x \in Steps, NEW y \in Steps, NEW z \in Steps, NEW v \in Steps, NEW w \in Steps,
           {x, y, z, v, w} \cap (SaveStep \cup DaemonStep) = {},
           Takes(kind, x) /\ Takes(kind, y) /\ Takes(kind, z) /\ Takes(kind, v) /\ Takes(kind, w),
           /\ Before(kind, x, y) /\ Before(kind, x, z) /\ Before(kind, x, v)
           /\ Before(kind, x, w) /\ Before(kind, y, z) /\ Before(kind, y, v)
           /\ Before(kind, y, w) /\ Before(kind, z, v) /\ Before(kind, z, w)
           /\ Before(kind, v, w),
           LoadsFirst(kind, x, {y, z, v, w}),
           LoadsNotLast(kind)
    PROVE  Front(kind, <<x, y, z, v, w>>) /\ \A s \in {x, y, z, v, w} : Has(<<x, y, z, v, w>>, s)
<1> DEFINE f == <<x, y, z, v, w>>
<1>1. f \in Seq(Steps) /\ Len(f) = 5
  OBVIOUS
<1>2. f[1] = x /\ f[2] = y /\ f[3] = z /\ f[4] = v /\ f[5] = w
  OBVIOUS
<1> HIDE DEF f
<1>3. \A i \in 1..Len(f) : i = 1 \/ i = 2 \/ i = 3 \/ i = 4 \/ i = 5
  BY <1>1
<1>4. 1 \in 1..Len(f) /\ 2 \in 1..Len(f) /\ 3 \in 1..Len(f) /\ 4 \in 1..Len(f) /\ 5 \in 1..Len(f)
  BY <1>1
<1>5. \A i \in 1..Len(f) : f[i] \notin SaveStep \cup DaemonStep /\ Takes(kind, f[i])
  BY <1>2, <1>3
<1>6. ASSUME NEW i \in 1..Len(f) PROVE ThenApplies(kind, f, i)
  <2>1. CASE kind \in {"brightness", "rotate", "fan", "ui brightness"}
    BY <2>1 DEF ThenApplies
  <2>2. CASE x = "load" /\ "load" \notin {y, z, v, w} /\ "apply" \in {y, z, v, w}
    <3>1. CASE i = 1
      <4>1. \E k \in (i + 1)..Len(f) : f[k] = "apply"
        <5>2. i + 1 = 2
          BY <3>1
        <5>1. 2 \in 2..Len(f) /\ 3 \in 2..Len(f) /\ 4 \in 2..Len(f) /\ 5 \in 2..Len(f)
          BY <1>1
        <5> QED
          BY <1>2, <2>2, <5>1, <5>2
      <4> QED
        BY <4>1 DEF ThenApplies
    <3>2. CASE i # 1
      <4>1. f[i] # "load"
        BY <1>2, <1>3, <2>2, <3>2
      <4> QED
        BY <4>1 DEF ThenApplies
    <3> QED
      BY <3>1, <3>2
  <2> QED
    BY <2>1, <2>2 DEF LoadsFirst
<1>7. ASSUME NEW i \in 1..Len(f),
             (f[i] = "fan" /\ kind = "fan") \/ (f[i] = "brightness" /\ kind = "ui brightness")
      PROVE  i < Len(f) /\ f[i + 1] = "load"
  BY <1>7 DEF LoadsNotLast
<1>8. ASSUME NEW i \in 1..Len(f), NEW k \in 1..Len(f), i < k
      PROVE  Before(kind, f[i], f[k])
  BY <1>2, <1>3, <1>8
<1>9. Front(kind, f)
  <2>1. Len(f) > 0
    BY <1>1
  <2> QED
    BY <1>1, <1>5, <1>6, <1>7, <1>8, <2>1 DEF Front
<1>10. \A s \in {x, y, z, v, w} : Has(f, s)
  BY <1>2, <1>4 DEF Has
<1> QED
  BY <1>9, <1>10 DEF f

\* Every job is a proper list, which connects and loads; the two that load
\* last send what they were asked before that.
LEMMA ScriptProper ==
    ASSUME NEW kind \in JobKinds
    PROVE  /\ Proper(kind, Script(kind)) /\ Script(kind) # << >>
           /\ Has(Script(kind), "connect") /\ Has(Script(kind), "load")
           /\ kind = "fan" => Has(Script(kind), "fan")
           /\ kind = "ui brightness" => Has(Script(kind), "brightness")
<1> DEFINE Fine(f) ==
        /\ Front(kind, f) /\ Has(f, "connect") /\ Has(f, "load")
        /\ kind = "fan" => Has(f, "fan")
        /\ kind = "ui brightness" => Has(f, "brightness")
<1>1. ASSUME NEW f, Script(kind) = f \o SaveSteps, Fine(f)
      PROVE  /\ Proper(kind, Script(kind)) /\ Script(kind) # << >>
             /\ Has(Script(kind), "connect") /\ Has(Script(kind), "load")
             /\ kind = "fan" => Has(Script(kind), "fan")
             /\ kind = "ui brightness" => Has(Script(kind), "brightness")
  <2>1. /\ Proper(kind, f \o SaveSteps) /\ f \o SaveSteps # << >>
        /\ \A s : Has(f, s) => Has(f \o SaveSteps, s)
    BY <1>1, WithSave
  <2> QED
    BY <1>1, <2>1
<1>2. CASE kind \in {"show", "preset", "look", "metrics", "upload", "replace",
                     "ui show", "ui overlay", "push"}
  <2>1. Script(kind) = <<"load", "connect", "apply">> \o SaveSteps
    BY <1>2 DEF Script
  <2>2. /\ "load" \in Steps /\ "connect" \in Steps /\ "apply" \in Steps
        /\ {"load", "connect", "apply"} \cap (SaveStep \cup DaemonStep) = {}
    BY DEF Steps, SaveStep, DaemonStep
  <2>3. /\ Takes(kind, "load") /\ Takes(kind, "connect") /\ Takes(kind, "apply")
    BY <1>2 DEF Takes
  <2>4. /\ Before(kind, "load", "connect") /\ Before(kind, "load", "apply")
        /\ Before(kind, "connect", "apply")
    BY <1>2 DEF Before, SaveStep, DaemonStep
  <2>5. LoadsFirst(kind, "load", {"connect", "apply"}) /\ LoadsLast(kind, "load", "connect", "apply")
    BY <1>2 DEF LoadsFirst, LoadsLast, LoadsNotLast
  <2>6. Front(kind, <<"load", "connect", "apply">>) /\ \A s \in {"load", "connect", "apply"} : Has(<<"load", "connect", "apply">>, s)
    BY <2>2, <2>3, <2>4, <2>5, Front3
  <2> QED
    BY <1>1, <1>2, <2>1, <2>6
<1>3. CASE kind = "brightness"
  <2>1. Script(kind) = <<"load", "connect", "brightness">> \o SaveSteps
    BY <1>3 DEF Script
  <2>2. /\ "load" \in Steps /\ "connect" \in Steps /\ "brightness" \in Steps
        /\ {"load", "connect", "brightness"} \cap (SaveStep \cup DaemonStep) = {}
    BY DEF Steps, SaveStep, DaemonStep
  <2>3. /\ Takes(kind, "load") /\ Takes(kind, "connect") /\ Takes(kind, "brightness")
    BY <1>3 DEF Takes
  <2>4. /\ Before(kind, "load", "connect") /\ Before(kind, "load", "brightness")
        /\ Before(kind, "connect", "brightness")
    BY <1>3 DEF Before, SaveStep, DaemonStep
  <2>5. LoadsFirst(kind, "load", {"connect", "brightness"}) /\ LoadsLast(kind, "load", "connect", "brightness")
    BY <1>3 DEF LoadsFirst, LoadsLast, LoadsNotLast
  <2>6. Front(kind, <<"load", "connect", "brightness">>) /\ \A s \in {"load", "connect", "brightness"} : Has(<<"load", "connect", "brightness">>, s)
    BY <2>2, <2>3, <2>4, <2>5, Front3
  <2> QED
    BY <1>1, <1>3, <2>1, <2>6
<1>4. CASE kind = "rotate"
  <2>1. Script(kind) = <<"load", "connect", "rotate">> \o SaveSteps
    BY <1>4 DEF Script
  <2>2. /\ "load" \in Steps /\ "connect" \in Steps /\ "rotate" \in Steps
        /\ {"load", "connect", "rotate"} \cap (SaveStep \cup DaemonStep) = {}
    BY DEF Steps, SaveStep, DaemonStep
  <2>3. /\ Takes(kind, "load") /\ Takes(kind, "connect") /\ Takes(kind, "rotate")
    BY <1>4 DEF Takes
  <2>4. /\ Before(kind, "load", "connect") /\ Before(kind, "load", "rotate")
        /\ Before(kind, "connect", "rotate")
    BY <1>4 DEF Before, SaveStep, DaemonStep
  <2>5. LoadsFirst(kind, "load", {"connect", "rotate"}) /\ LoadsLast(kind, "load", "connect", "rotate")
    BY <1>4 DEF LoadsFirst, LoadsLast, LoadsNotLast
  <2>6. Front(kind, <<"load", "connect", "rotate">>) /\ \A s \in {"load", "connect", "rotate"} : Has(<<"load", "connect", "rotate">>, s)
    BY <2>2, <2>3, <2>4, <2>5, Front3
  <2> QED
    BY <1>1, <1>4, <2>1, <2>6
<1>5. CASE kind = "several"
  <2>1. Script(kind) = <<"load", "connect", "brightness", "apply", "rotate">> \o SaveSteps
    BY <1>5 DEF Script
  <2>2. /\ "load" \in Steps /\ "connect" \in Steps /\ "brightness" \in Steps
        /\ "apply" \in Steps /\ "rotate" \in Steps
        /\ {"load", "connect", "brightness", "apply", "rotate"} \cap (SaveStep \cup DaemonStep) = {}
    BY DEF Steps, SaveStep, DaemonStep
  <2>3. /\ Takes(kind, "load") /\ Takes(kind, "connect") /\ Takes(kind, "brightness")
        /\ Takes(kind, "apply") /\ Takes(kind, "rotate")
    BY <1>5 DEF Takes
  <2>4. /\ Before(kind, "load", "connect") /\ Before(kind, "load", "brightness")
        /\ Before(kind, "load", "apply") /\ Before(kind, "load", "rotate")
        /\ Before(kind, "connect", "brightness") /\ Before(kind, "connect", "apply")
        /\ Before(kind, "connect", "rotate") /\ Before(kind, "brightness", "apply")
        /\ Before(kind, "brightness", "rotate") /\ Before(kind, "apply", "rotate")
    BY <1>5 DEF Before, SaveStep, DaemonStep
  <2>5. LoadsFirst(kind, "load", {"connect", "brightness", "apply", "rotate"}) /\ LoadsNotLast(kind)
    BY <1>5 DEF LoadsFirst, LoadsLast, LoadsNotLast
  <2>6. Front(kind, <<"load", "connect", "brightness", "apply", "rotate">>) /\ \A s \in {"load", "connect", "brightness", "apply", "rotate"} : Has(<<"load", "connect", "brightness", "apply", "rotate">>, s)
    BY <2>2, <2>3, <2>4, <2>5, Front5
  <2> QED
    BY <1>1, <1>5, <2>1, <2>6
<1>6. CASE kind = "fan"
  <2>1. Script(kind) = <<"connect", "fan", "load">> \o SaveSteps
    BY <1>6 DEF Script
  <2>2. /\ "connect" \in Steps /\ "fan" \in Steps /\ "load" \in Steps
        /\ {"connect", "fan", "load"} \cap (SaveStep \cup DaemonStep) = {}
    BY DEF Steps, SaveStep, DaemonStep
  <2>3. /\ Takes(kind, "connect") /\ Takes(kind, "fan") /\ Takes(kind, "load")
    BY <1>6 DEF Takes
  <2>4. /\ Before(kind, "connect", "fan") /\ Before(kind, "connect", "load")
        /\ Before(kind, "fan", "load")
    BY <1>6 DEF Before, SaveStep, DaemonStep
  <2>5. LoadsFirst(kind, "connect", {"fan", "load"}) /\ LoadsLast(kind, "connect", "fan", "load")
    BY <1>6 DEF LoadsFirst, LoadsLast, LoadsNotLast
  <2>6. Front(kind, <<"connect", "fan", "load">>) /\ \A s \in {"connect", "fan", "load"} : Has(<<"connect", "fan", "load">>, s)
    BY <2>2, <2>3, <2>4, <2>5, Front3
  <2> QED
    BY <1>1, <1>6, <2>1, <2>6
<1>7. CASE kind = "ui brightness"
  <2>1. Script(kind) = <<"connect", "brightness", "load">> \o SaveSteps
    BY <1>7 DEF Script
  <2>2. /\ "connect" \in Steps /\ "brightness" \in Steps /\ "load" \in Steps
        /\ {"connect", "brightness", "load"} \cap (SaveStep \cup DaemonStep) = {}
    BY DEF Steps, SaveStep, DaemonStep
  <2>3. /\ Takes(kind, "connect") /\ Takes(kind, "brightness") /\ Takes(kind, "load")
    BY <1>7 DEF Takes
  <2>4. /\ Before(kind, "connect", "brightness") /\ Before(kind, "connect", "load")
        /\ Before(kind, "brightness", "load")
    BY <1>7 DEF Before, SaveStep, DaemonStep
  <2>5. LoadsFirst(kind, "connect", {"brightness", "load"}) /\ LoadsLast(kind, "connect", "brightness", "load")
    BY <1>7 DEF LoadsFirst, LoadsLast, LoadsNotLast
  <2>6. Front(kind, <<"connect", "brightness", "load">>) /\ \A s \in {"connect", "brightness", "load"} : Has(<<"connect", "brightness", "load">>, s)
    BY <2>2, <2>3, <2>4, <2>5, Front3
  <2> QED
    BY <1>1, <1>7, <2>1, <2>6
<1>8. CASE kind = "ui layout"
  <2>1. Script(kind) = <<"load", "connect", "apply", "rotate">> \o SaveSteps
    BY <1>8 DEF Script
  <2>2. /\ "load" \in Steps /\ "connect" \in Steps /\ "apply" \in Steps
        /\ "rotate" \in Steps
        /\ {"load", "connect", "apply", "rotate"} \cap (SaveStep \cup DaemonStep) = {}
    BY DEF Steps, SaveStep, DaemonStep
  <2>3. /\ Takes(kind, "load") /\ Takes(kind, "connect") /\ Takes(kind, "apply")
        /\ Takes(kind, "rotate")
    BY <1>8 DEF Takes
  <2>4. /\ Before(kind, "load", "connect") /\ Before(kind, "load", "apply")
        /\ Before(kind, "load", "rotate") /\ Before(kind, "connect", "apply")
        /\ Before(kind, "connect", "rotate") /\ Before(kind, "apply", "rotate")
    BY <1>8 DEF Before, SaveStep, DaemonStep
  <2>5. LoadsFirst(kind, "load", {"connect", "apply", "rotate"}) /\ LoadsNotLast(kind)
    BY <1>8 DEF LoadsFirst, LoadsLast, LoadsNotLast
  <2>6. Front(kind, <<"load", "connect", "apply", "rotate">>) /\ \A s \in {"load", "connect", "apply", "rotate"} : Has(<<"load", "connect", "apply", "rotate">>, s)
    BY <2>2, <2>3, <2>4, <2>5, Front4
  <2> QED
    BY <1>1, <1>8, <2>1, <2>6
<1>9. CASE kind = "restore"
  <2>1. Script(kind) = <<"load", "connect", "apply", "fan">> \o SaveSteps
    BY <1>9 DEF Script
  <2>2. /\ "load" \in Steps /\ "connect" \in Steps /\ "apply" \in Steps
        /\ "fan" \in Steps
        /\ {"load", "connect", "apply", "fan"} \cap (SaveStep \cup DaemonStep) = {}
    BY DEF Steps, SaveStep, DaemonStep
  <2>3. /\ Takes(kind, "load") /\ Takes(kind, "connect") /\ Takes(kind, "apply")
        /\ Takes(kind, "fan")
    BY <1>9 DEF Takes
  <2>4. /\ Before(kind, "load", "connect") /\ Before(kind, "load", "apply")
        /\ Before(kind, "load", "fan") /\ Before(kind, "connect", "apply")
        /\ Before(kind, "connect", "fan") /\ Before(kind, "apply", "fan")
    BY <1>9 DEF Before, SaveStep, DaemonStep
  <2>5. LoadsFirst(kind, "load", {"connect", "apply", "fan"}) /\ LoadsNotLast(kind)
    BY <1>9 DEF LoadsFirst, LoadsLast, LoadsNotLast
  <2>6. Front(kind, <<"load", "connect", "apply", "fan">>) /\ \A s \in {"load", "connect", "apply", "fan"} : Has(<<"load", "connect", "apply", "fan">>, s)
    BY <2>2, <2>3, <2>4, <2>5, Front4
  <2> QED
    BY <1>1, <1>9, <2>1, <2>6
<1> QED
  BY <1>2, <1>3, <1>4, <1>5, <1>6, <1>7, <1>8, <1>9 DEF JobKinds, UiKinds

-----------------------------------------------------------------------------
(* What is left of a job when the daemon's save fails, or only the daemon   *)
(* goes on.                                                                 *)

\* The steps of the daemon's save that are left, as DaemonLeft counts them.
Remaining(step) ==
    CASE step = "daemon open" -> 3
      [] step = "daemon write" -> 2
      [] step = "daemon rename" -> 1
      [] OTHER -> 0

\* The daemon's steps are the first n.
FirstAreDaemon(todo, n) ==
    (\A i \in 1..n : todo[i] \in DaemonStep) /\ todo[n] = "daemon rename"

LEMMA DaemonPart ==
    ASSUME NEW kind, NEW todo, Proper(kind, todo), todo # << >>,
           Head(todo) \in DaemonStep
    PROVE  /\ Remaining(Head(todo)) \in 1..Len(todo)
           /\ FirstAreDaemon(todo, Remaining(Head(todo)))
<1> DEFINE n == Remaining(Head(todo))
<1> HIDE DEF n
<1>1. /\ Len(todo) \in Nat \ {0} /\ Head(todo) = todo[1]
      /\ \A i \in 1..Len(todo) : MayFollow(kind, todo[i], NextStep(todo, i))
  BY TailProper DEF Proper, Followed
<1>a. Len(todo) \in Nat
  BY <1>1
<1>2. ASSUME NEW i \in 1..Len(todo), todo[i] = "daemon open"
      PROVE  i + 1 \in 1..Len(todo) /\ todo[i + 1] = "daemon write"
  <2>1. NextStep(todo, i) = "daemon write"
    BY <1>1, <1>2 DEF MayFollow
  <2>2. i < Len(todo)
    BY <2>1 DEF NextStep
  <2>3. todo[i + 1] = "daemon write"
    BY <2>1, <2>2 DEF NextStep
  <2>4. i + 1 \in 1..Len(todo)
    BY <1>a, <2>2
  <2> QED
    BY <2>3, <2>4
<1>3. ASSUME NEW i \in 1..Len(todo), todo[i] = "daemon write"
      PROVE  i + 1 \in 1..Len(todo) /\ todo[i + 1] = "daemon rename"
  <2>1. NextStep(todo, i) = "daemon rename"
    BY <1>1, <1>3 DEF MayFollow
  <2>2. i < Len(todo)
    BY <2>1 DEF NextStep
  <2>3. todo[i + 1] = "daemon rename"
    BY <2>1, <2>2 DEF NextStep
  <2>4. i + 1 \in 1..Len(todo)
    BY <1>a, <2>2
  <2> QED
    BY <2>3, <2>4
<1>4. 1 \in 1..Len(todo)
  BY <1>1
<1>5. CASE Head(todo) = "daemon open"
  <2>1. 1 + 1 \in 1..Len(todo) /\ todo[1 + 1] = "daemon write"
    BY <1>1, <1>2, <1>4, <1>5
  <2>2. (1 + 1) + 1 \in 1..Len(todo) /\ todo[(1 + 1) + 1] = "daemon rename"
    BY <1>3, <2>1
  <2>3. 1 + 1 = 2 /\ (1 + 1) + 1 = 3 /\ \A i \in 1..3 : i = 1 \/ i = 2 \/ i = 3
    OBVIOUS
  <2>4. n = 3
    BY <1>5 DEF n, Remaining
  <2>5. todo[1] \in DaemonStep /\ todo[2] \in DaemonStep /\ todo[3] \in DaemonStep
    BY <1>1, <1>5, <2>1, <2>2, <2>3 DEF DaemonStep
  <2>6. 3 \in 1..Len(todo) /\ todo[3] = "daemon rename"
    BY <2>2, <2>3
  <2> QED
    BY <2>3, <2>4, <2>5, <2>6 DEF FirstAreDaemon, n
<1>6. CASE Head(todo) = "daemon write"
  <2>1. 1 + 1 \in 1..Len(todo) /\ todo[1 + 1] = "daemon rename"
    BY <1>1, <1>3, <1>4, <1>6
  <2>2. 1 + 1 = 2 /\ \A i \in 1..2 : i = 1 \/ i = 2
    OBVIOUS
  <2>3. n = 2
    BY <1>6 DEF n, Remaining
  <2>4. todo[1] \in DaemonStep /\ todo[2] \in DaemonStep
    BY <1>1, <1>6, <2>1, <2>2 DEF DaemonStep
  <2>5. 2 \in 1..Len(todo) /\ todo[2] = "daemon rename"
    BY <2>1, <2>2
  <2> QED
    BY <2>2, <2>3, <2>4, <2>5 DEF FirstAreDaemon, n
<1>7. CASE Head(todo) = "daemon rename"
  <2>1. \A i \in 1..1 : i = 1
    OBVIOUS
  <2>2. n = 1
    BY <1>7 DEF n, Remaining
  <2>3. todo[1] = "daemon rename" /\ todo[1] \in DaemonStep
    BY <1>1, <1>7 DEF DaemonStep
  <2> QED
    BY <1>4, <2>1, <2>2, <2>3 DEF FirstAreDaemon, n
<1> QED
  BY <1>5, <1>6, <1>7 DEF DaemonStep

\* The daemon's steps alone.
LEMMA PrefixProper ==
    ASSUME NEW kind, NEW todo, Proper(kind, todo), todo # << >>,
           NEW n \in 1..Len(todo), FirstAreDaemon(todo, n)
    PROVE  /\ Proper(kind, SubSeq(todo, 1, n)) /\ SubSeq(todo, 1, n) # << >>
           /\ Head(SubSeq(todo, 1, n)) = Head(todo)
           /\ \A s : Has(SubSeq(todo, 1, n), s) => Has(todo, s)
<1> DEFINE m == 1  t == SubSeq(todo, m, n)
<1>1. todo \in Seq(Steps) /\ Len(todo) \in Nat \ {0} /\ Head(todo) = todo[1]
  BY TailProper DEF Proper
<1>2. m \in Int /\ n \in Int /\ m <= n /\ \A i \in m..n : todo[i] \in Steps
  BY <1>1
<1>3. m = 1 /\ t = SubSeq(todo, 1, n) /\ t = SubSeq(todo, m, n)
  OBVIOUS
<1> HIDE DEF m, t
<1>4. /\ t \in Seq(Steps) /\ Len(t) = n
      /\ \A i \in 1..n : t[i] = todo[i]
  <2>1. /\ t \in Seq(Steps) /\ Len(t) = IF m <= n THEN n - m + 1 ELSE 0
        /\ \A i \in 1..(n - m + 1) : t[i] = todo[m + i - 1]
    BY <1>2, <1>3, SubSeqProperties
  <2> QED
    BY <1>2, <1>3, <2>1
<1>5. \A i \in 1..n : i \in 1..Len(todo)
  BY <1>1
<1>6. ASSUME NEW i \in 1..Len(t) PROVE Takes(kind, t[i]) /\ Followed(kind, t, i)
  <2>1. Takes(kind, todo[i]) /\ MayFollow(kind, todo[i], NextStep(todo, i))
    BY <1>4, <1>5 DEF Proper, Followed
  <2>2. t[i] = todo[i] /\ todo[i] \in DaemonStep
    BY <1>4 DEF FirstAreDaemon
  <2>3. CASE i < n
    <3>1. i + 1 \in 1..n /\ i < Len(t) /\ i < Len(todo)
      BY <1>4, <1>5, <2>3
    <3>2. NextStep(t, i) = NextStep(todo, i)
      BY <1>4, <3>1 DEF NextStep
    <3> QED
      BY <2>1, <2>2, <3>2 DEF Followed, ThenApplies, DaemonStep
  <2>4. CASE i = n
    <3>1. NextStep(t, i) = "none"
      BY <1>4, <2>4 DEF NextStep
    <3> QED
      BY <2>1, <2>2, <2>4, <3>1
         DEF Followed, ThenApplies, DaemonStep, MayFollow, FirstAreDaemon
  <2> QED
    BY <1>4, <2>3, <2>4
<1>7. ASSUME NEW i \in 1..Len(t), NEW k \in 1..Len(t), i < k
      PROVE  Before(kind, t[i], t[k])
  BY <1>4, <1>5, <1>7 DEF Proper
<1>8. \A s : Has(t, s) => Has(todo, s)
  BY <1>4, <1>5 DEF Has
<1>9. t # << >> /\ Head(t) = todo[1]
  <2>1. Len(t) # 0 /\ Len(<< >>) = 0 /\ 1 \in 1..n
    BY <1>4
  <2>2. t # << >>
    BY <2>1
  <2>3. Head(t) = t[1]
    BY <1>4, <2>1
  <2> QED
    BY <1>4, <2>1, <2>2, <2>3
<1>10. Proper(kind, t)
  BY <1>4, <1>6, <1>7 DEF Proper
<1> QED
  BY <1>1, <1>3, <1>8, <1>9, <1>10

\* The steps after the daemon's.
After(todo, n) == SubSeq(todo, n + 1, Len(todo))

LEMMA SuffixSteps ==
    ASSUME NEW kind, NEW todo, Proper(kind, todo), todo # << >>,
           NEW n \in 1..Len(todo), FirstAreDaemon(todo, n), After(todo, n) # << >>
    PROVE  /\ Proper(kind, After(todo, n))
           /\ Head(After(todo, n)) \notin {"write", "rename"} \cup DaemonStep
           /\ \A s : Has(After(todo, n), s) => Has(todo, s)
<1> DEFINE t == After(todo, n)
<1>0. t = SubSeq(todo, n + 1, Len(todo)) /\ t # << >>
  BY DEF After
<1> HIDE DEF t
<1>1. todo \in Seq(Steps) /\ Len(todo) \in Nat /\ n \in 0..Len(todo)
  BY DEF Proper
<1>2. /\ Proper(kind, t) /\ Len(t) = Len(todo) - n
      /\ \A i \in 1..(Len(todo) - n) : t[i] = todo[n + i]
  BY <1>0, <1>1, SuffixProper
<1>3. t \in Seq(Steps) /\ Len(t) \in Nat \ {0} /\ Head(t) = t[1]
  <2>1. t \in Seq(Steps)
    BY <1>2 DEF Proper
  <2>2. Len(t) \in Nat \ {0}
    BY <1>0, <2>1, EmptySeq
  <2> QED
    BY <2>1, <2>2
<1>4. 1 \in 1..(Len(todo) - n) /\ n < Len(todo) /\ t[1] = todo[n + 1]
  BY <1>1, <1>2, <1>3
<1>5. NextStep(todo, n) = Head(t)
  BY <1>3, <1>4 DEF NextStep
<1>6. MayFollow(kind, "daemon rename", Head(t))
  BY <1>5 DEF Proper, Followed, FirstAreDaemon
<1>7. ASSUME NEW s, Has(t, s) PROVE Has(todo, s)
  <2>1. \A i \in 1..Len(t) : n + i \in 1..Len(todo) /\ t[i] = todo[n + i]
    BY <1>1, <1>2
  <2> QED
    BY <1>7, <2>1 DEF Has
<1> QED
  BY <1>2, <1>6, <1>7 DEF MayFollow, DaemonStep, t

-----------------------------------------------------------------------------
(* Settings.                                                               *)

LEMMA FieldNames == Fields = {"plays", "look", "brightness", "rotation", "fan"}
BY DEF Fields, Factory

LEMMA WantedShown ==
    ASSUME NEW s \in State
    PROVE  Wanted(s) \in Shown
BY DEF State, Wanted, Shown

LEMMA DefaultState == Default \in State
BY SettingsAssumption, LooksAssumption DEF Default, State

LEMMA LoadState ==
    ASSUME NEW f \in Files
    PROVE  /\ load(f) \in State
           /\ f \in State => load(f) = f
BY DefaultState, FilesAssumption DEF Files, load

\* A request sets fields to values that they may have.
MayShow(fields, values) ==
    /\ fields \in SUBSET Fields
    /\ "plays" \in fields => values.plays \in Media \cup {Preset, None}
    /\ "look" \in fields => values.look \in Looks \cup {None}
    /\ "brightness" \in fields => values.brightness \in Levels \cup {None}
    /\ "rotation" \in fields => values.rotation \in Degrees \cup {None}
    /\ "fan" \in fields => values.fan \in Speeds \cup {None}

LEMMA PutShown ==
    ASSUME NEW shown \in Shown, NEW fields, NEW values, MayShow(fields, values)
    PROVE  /\ Put(shown, fields, values) \in Shown
           /\ \A f \in Fields : Put(shown, fields, values)[f] =
                IF f \in fields THEN values[f] ELSE shown[f]
<1> DEFINE p == Put(shown, fields, values)
<1>1. p = [f \in {"plays", "look", "brightness", "rotation", "fan"} |->
             IF f \in fields THEN values[f] ELSE shown[f]]
  BY FieldNames DEF Put
<1>2. p.plays \in Media \cup {Preset, None}
  BY <1>1 DEF Shown, MayShow
<1>3. p.look \in Looks \cup {None}
  BY <1>1 DEF Shown, MayShow
<1>4. /\ p.brightness \in Levels \cup {None} /\ p.rotation \in Degrees \cup {None}
      /\ p.fan \in Speeds \cup {None}
  BY <1>1 DEF Shown, MayShow
<1>5. p = [plays |-> p.plays, look |-> p.look, brightness |-> p.brightness,
           rotation |-> p.rotation, fan |-> p.fan]
  BY <1>1
<1>6. p \in Shown
  BY <1>2, <1>3, <1>4, <1>5 DEF Shown
<1> QED
  BY <1>6 DEF Put

LEMMA MayShowPart ==
    ASSUME NEW fields, NEW values, MayShow(fields, values), NEW some \in SUBSET fields
    PROVE  MayShow(some, values)
BY DEF MayShow

\* What apply sends is what the state wants, or the default brightness.
LEMMA SentMayShow ==
    ASSUME NEW s \in State, NEW to
    PROVE  /\ MayShow(Sends(to, s), Sent(to, s))
           /\ Partial(to, s) \subseteq SUBSET Sends(to, s)
           /\ \A f \in Sends(to, s) : Wanted(s)[f] \in {None, Sent(to, s)[f]}
           /\ \A f \in Fields \ Sends(to, s) : f = "fan" \/ Wanted(s)[f] = None
           /\ "fan" \notin Sends(to, s)
<1>1. Wanted(s) \in Shown
  BY WantedShown
<1>2. Sends(to, s) \subseteq {"look", "plays", "brightness", "rotation"}
  BY DEF Sends
<1>3. Sent(to, s) \in Shown
  BY <1>1, SettingsAssumption DEF Sent, Shown
<1>4. MayShow(Sends(to, s), Sent(to, s))
  BY <1>2, <1>3, FieldNames DEF MayShow, Shown
<1>5. Partial(to, s) \subseteq SUBSET Sends(to, s)
  BY DEF Partial, Sends
<1>6. ASSUME NEW f \in Fields PROVE Wanted(s)[f] \in {None, Sent(to, s)[f]}
  <2>1. CASE to.protocol = "legacy" /\ s.brightness = None
    <3>1. Wanted(s).brightness = None
      BY <2>1 DEF Wanted
    <3>2. f # "brightness" => Sent(to, s)[f] = Wanted(s)[f]
      BY <1>1, <2>1, FieldNames DEF Sent, Shown
    <3> QED
      BY <3>1, <3>2
  <2>2. CASE ~(to.protocol = "legacy" /\ s.brightness = None)
    BY <2>2 DEF Sent
  <2> QED
    BY <2>1, <2>2
<1>7. ASSUME NEW f \in Fields \ Sends(to, s) PROVE f = "fan" \/ Wanted(s)[f] = None
  BY FieldNames DEF Sends
<1> QED
  BY <1>2, <1>4, <1>5, <1>6, <1>7, FieldNames

-----------------------------------------------------------------------------
(* What is asked.                                                          *)

LEMMA AskedValues ==
    ASSUME NEW kind \in JobKinds, NEW asks \in Asks(kind)
    PROVE  /\ kind \in {"show", "upload", "replace", "ui show"} => asks.media \in Media
           /\ kind \in {"look", "metrics", "several"} => asks.look \in Looks
           /\ kind \in {"brightness", "ui brightness", "several"} => asks.brightness \in Levels
           /\ kind \in {"rotate", "several", "ui layout"} => asks.rotation \in Degrees
           /\ kind = "fan" => asks.fan \in Speeds \cup {None}
<1>1. CASE kind \in {"show", "upload", "replace", "ui show"}
  BY <1>1 DEF Asks
<1>2. CASE kind \in {"look", "metrics"}
  BY <1>2 DEF Asks
<1>3. CASE kind \in {"brightness", "ui brightness"}
  BY <1>3 DEF Asks
<1>4. CASE kind \in {"rotate", "ui layout"}
  BY <1>4 DEF Asks
<1>5. CASE kind = "several"
  BY <1>5 DEF Asks
<1>6. CASE kind = "fan"
  BY <1>6 DEF Asks
<1> QED
  BY <1>1, <1>2, <1>3, <1>4, <1>5, <1>6

\* How an edited state differs from the one that was loaded.
EditKeeps(j, s, edited) ==
    /\ j.kind # "fan" => Wanted(edited).fan = Wanted(s).fan
    /\ j.kind = "fan" => /\ Wanted(edited).fan = j.asks.fan
                         /\ \A f \in Fields \ {"fan"} : Wanted(edited)[f] = Wanted(s)[f]
    /\ j.kind = "ui brightness" =>
         /\ Wanted(edited).brightness = j.asks.brightness
         /\ \A f \in Fields \ {"brightness"} : Wanted(edited)[f] = Wanted(s)[f]
    /\ j.kind \in {"brightness", "rotate", "restore"} => edited = s
    /\ j.kind \notin TabKinds => \A y \in (DOMAIN Default) \ About(j.kind) : edited[y] = s[y]

LEMMA EditedState ==
    ASSUME NEW plugged, NEW j, JobOK(plugged, j), NEW s \in State
    PROVE  Edited(j, s) \in State /\ EditKeeps(j, s, Edited(j, s))
<1> DEFINE E == Edited(j, s)
<1>1. /\ j.kind \in JobKinds /\ j.asks \in Asks(j.kind)
      /\ j.kind \in UiKinds => j.screen \in Screens
  BY DEF JobOK
<1>2. DOMAIN Default = {"media", "preset", "look", "brightness", "rotation", "fan"}
  BY DEF Default
<1>3. CASE j.kind \in {"show", "ui show"}
  <2>1. E = [s EXCEPT !.preset = FALSE, !.media = j.asks.media]
    BY <1>3 DEF Edited
  <2>2. j.asks.media \in Media /\ About(j.kind) = {"media", "preset"}
    BY <1>1, <1>3, AskedValues DEF About
  <2> HIDE DEF E
  <2>3. E \in State /\ \A x \in {"look", "brightness", "rotation", "fan"} : E[x] = s[x]
    BY <2>1, <2>2 DEF State
  <2> QED
    BY <1>2, <1>3, <2>2, <2>3 DEF E, Wanted, EditKeeps
<1>4. CASE j.kind = "preset"
  <2>1. E = [s EXCEPT !.preset = TRUE] /\ About(j.kind) = {"preset"}
    BY <1>4 DEF Edited, About
  <2> HIDE DEF E
  <2>2. E \in State /\ \A x \in {"media", "look", "brightness", "rotation", "fan"} : E[x] = s[x]
    BY <2>1 DEF State
  <2> QED
    BY <1>2, <1>4, <2>1, <2>2 DEF E, Wanted, EditKeeps
<1>5. CASE j.kind = "upload"
  <2>1. E = [s EXCEPT !.media = j.asks.media]
    BY <1>5 DEF Edited
  <2>2. j.asks.media \in Media /\ About(j.kind) = {"media", "preset"}
    BY <1>1, <1>5, AskedValues DEF About
  <2> HIDE DEF E
  <2>3. E \in State /\ \A x \in {"preset", "look", "brightness", "rotation", "fan"} : E[x] = s[x]
    BY <2>1, <2>2 DEF State
  <2> QED
    BY <1>2, <1>5, <2>2, <2>3 DEF E, Wanted, EditKeeps
<1>6. CASE j.kind \in {"look", "metrics", "several"}
  <2>1. E = [s EXCEPT !.look = j.asks.look]
    BY <1>6 DEF Edited
  <2>2. j.asks.look \in Looks /\ "look" \in About(j.kind)
    BY <1>1, <1>6, AskedValues DEF About
  <2> HIDE DEF E
  <2>3. E \in State /\ \A x \in {"media", "preset", "brightness", "rotation", "fan"} : E[x] = s[x]
    BY <2>1, <2>2 DEF State
  <2> QED
    BY <1>2, <1>6, <2>2, <2>3 DEF E, Wanted, EditKeeps
<1>7. CASE j.kind \in {"ui overlay", "ui layout"}
  <2>1. E = [s EXCEPT !.media = j.screen.media, !.preset = j.screen.preset,
                      !.look = j.screen.look]
    BY <1>7 DEF Edited
  <2>2. j.screen \in Screens /\ j.kind \in TabKinds
    BY <1>1, <1>7 DEF UiKinds, TabKinds
  <2> HIDE DEF E
  <2>3. E \in State /\ E.fan = s.fan
    BY <2>1, <2>2 DEF State, Screens
  <2> QED
    BY <1>7, <2>2, <2>3 DEF E, Wanted, EditKeeps
<1>8. CASE j.kind = "fan"
  <2>1. E = [s EXCEPT !.fan = j.asks.fan] /\ About(j.kind) = {"fan"}
    BY <1>8 DEF Edited, About
  <2>2. j.asks.fan \in Speeds \cup {None}
    BY <1>1, <1>8, AskedValues
  <2> HIDE DEF E
  <2>3. /\ E \in State /\ \A x \in {"media", "preset", "look", "brightness", "rotation"} : E[x] = s[x]
        /\ E.fan = j.asks.fan
    BY <2>1, <2>2 DEF State
  <2>4. \A f \in {"plays", "look", "brightness", "rotation"} : Wanted(E)[f] = Wanted(s)[f]
    BY <2>3 DEF Wanted
  <2> QED
    BY ZenonT(60), <1>2, <1>8, <2>1, <2>3, <2>4, FieldNames DEF E, Wanted, EditKeeps
<1>9. CASE j.kind = "ui brightness"
  <2>1. E = [s EXCEPT !.brightness = j.asks.brightness] /\ About(j.kind) = {"brightness"}
    BY <1>9 DEF Edited, About
  <2>2. j.asks.brightness \in Levels
    BY <1>1, <1>9, AskedValues
  <2> HIDE DEF E
  <2>3. /\ E \in State /\ \A x \in {"media", "preset", "look", "rotation", "fan"} : E[x] = s[x]
        /\ E.brightness = j.asks.brightness
    BY <2>1, <2>2 DEF State
  <2>4. \A f \in {"plays", "look", "rotation", "fan"} : Wanted(E)[f] = Wanted(s)[f]
    BY <2>3 DEF Wanted
  <2> QED
    BY ZenonT(60), <1>2, <1>9, <2>1, <2>3, <2>4, FieldNames DEF E, Wanted, EditKeeps
<1>10. CASE j.kind \in {"brightness", "rotate", "restore", "push", "replace"}
  <2>1. E = s
    BY <1>10 DEF Edited
  <2> QED
    BY <1>10, <2>1 DEF E, EditKeeps
<1> QED
  BY <1>1, <1>3, <1>4, <1>5, <1>6, <1>7, <1>8, <1>9, <1>10 DEF JobKinds, UiKinds

-----------------------------------------------------------------------------
(* Selection.                                                              *)

LEMMA LinkFields ==
    ASSUME NEW plugged, NEW to \in Links(plugged)
    PROVE  /\ to # Refused /\ to.at \in plugged /\ to.protocol \in {"legacy", "kanali"}
BY DEF Links, Chosen, Refused

LEMMA Selected ==
    ASSUME NEW b, NEW aim \in Aims \cup {NoAim}
    PROVE  /\ select_backend(b, aim) \in Links(Plugged(b)) \cup {Refused}
           /\ select_backend(b, aim) # Refused => Named(aim, select_backend(b, aim))
<1> DEFINE L == Links(Plugged(b)) \cup {Refused}
<1>1. aim.tty = None \/ aim.device = None
  BY AimsAssumption DEF NoAim
<1>2. \A d \in Plugged(b) : Chosen("legacy", d) \in L /\ Chosen("kanali", d) \in L
  BY DEF Links
<1>3. Refused \in L /\ Refused.at = None
  BY DEF Refused
<1>4. /\ legacy_devices(b) \subseteq Plugged(b)
      /\ Candidates(b) \subseteq Plugged(b)
  BY DEF legacy_devices, Candidates, printer_devices
<1>5. ASSUME NEW S, Cardinality(S) = 1 PROVE (CHOOSE d \in S : TRUE) \in S
  <2>1. S # {}
    BY <1>5, FS_EmptySet
  <2> QED
    BY <2>1
<1>6. ASSUME NEW d \in Plugged(b)
      PROVE  ready(b, d) \in L /\ ready(b, d) \in {Refused, Chosen("kanali", d)}
  BY <1>2, <1>3 DEF ready
<1>7. ASSUME NEW id
      PROVE  /\ kanali_select(b, id) \in L
             /\ id # None => kanali_select(b, id) \in {Refused, Chosen("kanali", id)}
  <2>1. CASE id # None
    BY <1>3, <1>4, <1>6, <2>1 DEF kanali_select
  <2>2. CASE id = None
    <3>1. Cardinality(Candidates(b)) = 1 =>
            (CHOOSE d \in Candidates(b) : TRUE) \in Plugged(b)
      BY <1>4, <1>5
    <3> QED
      BY <1>3, <1>6, <2>2, <3>1 DEF kanali_select
  <2> QED
    BY <2>1, <2>2
<1>8. ASSUME NEW tty
      PROVE  /\ legacy_select(b, tty) \in L
             /\ tty # None => legacy_select(b, tty) \in {Refused, Chosen("legacy", tty)}
  <2>1. CASE tty # None
    BY <1>2, <1>3, <1>4, <2>1 DEF legacy_select
  <2>2. CASE tty = None
    <3>1. Cardinality(legacy_devices(b)) = 1 =>
            (CHOOSE d \in legacy_devices(b) : TRUE) \in Plugged(b)
      BY <1>4, <1>5
    <3> QED
      BY <1>2, <1>3, <2>2, <3>1 DEF legacy_select
  <2> QED
    BY <2>1, <2>2
<1> HIDE DEF L
<1>9. CASE aim.tty # None
  <2>1. select_backend(b, aim) = legacy_select(b, aim.tty)
    BY <1>9 DEF select_backend
  <2>2. select_backend(b, aim) \in {Refused, Chosen("legacy", aim.tty)}
    BY <1>8, <1>9, <2>1
  <2>3. aim.device = None
    BY <1>1, <1>9
  <2> QED
    BY <1>8, <2>1, <2>2, <2>3 DEF Named, Chosen, L
<1>10. CASE aim.tty = None /\ aim.device # None
  <2>1. select_backend(b, aim) = kanali_select(b, aim.device)
    BY <1>10 DEF select_backend
  <2>2. select_backend(b, aim) \in {Refused, Chosen("kanali", aim.device)}
    BY <1>7, <1>10, <2>1
  <2> QED
    BY <1>7, <1>10, <2>1, <2>2 DEF Named, Chosen, L
<1>11. CASE aim.tty = None /\ aim.device = None
  <2>1. select_backend(b, aim) \in L
    BY <1>7, <1>8, <1>11 DEF select_backend
  <2> QED
    BY <1>11, <2>1 DEF Named, L
<1> QED
  BY <1>9, <1>10, <1>11

LEMMA Connected ==
    ASSUME NEW b, NEW aim \in Aims \cup {NoAim},
           NEW status \in Links(Plugged(b)) \cup {Refused}
    PROVE  /\ connect(b, aim, status).to \in Links(Plugged(b)) \cup {Refused}
           /\ connect(b, aim, status).via \in {"direct", "daemon"}
           /\ connect(b, aim, status).to # Refused =>
                Named(aim, connect(b, aim, status).to)
<1>1. aim.tty = None \/ aim.device = None
  BY AimsAssumption DEF NoAim
<1>2. CASE ~aim.direct /\ status # Refused /\ daemon_owns_target(aim, status)
  <2>1. connect(b, aim, status) = [via |-> "daemon", to |-> status]
    BY <1>2 DEF connect
  <2>2. Named(aim, status)
    BY <1>1, <1>2 DEF Named, daemon_owns_target
  <2> QED
    BY <2>1, <2>2
<1>3. CASE ~(~aim.direct /\ status # Refused /\ daemon_owns_target(aim, status))
  <2>1. connect(b, aim, status) = [via |-> "direct", to |-> select_backend(b, aim)]
    BY <1>3 DEF connect
  <2> QED
    BY <2>1, Selected
<1> QED
  BY <1>2, <1>3

-----------------------------------------------------------------------------
(* Jobs that go on.                                                        *)

\* The job j with other values of what its steps change.
Job(j, saved, to, via, sent, todo) ==
    [kind |-> j.kind, aim |-> j.aim, asks |-> j.asks, screen |-> j.screen,
     saved |-> saved, to |-> to, via |-> via, sent |-> sent, todo |-> todo]

LEMMA JobIs ==
    ASSUME NEW plugged, NEW j, JobOK(plugged, j), NEW saved \in State,
           NEW to \in Links(plugged) \cup {Refused}, NEW via \in {"direct", "daemon"},
           NEW sent \in SUBSET Fields, NEW todo, Proper(j.kind, todo), todo # << >>,
           to = Refused => Has(todo, "connect") /\ j.kind # "restore",
           to # Refused => Named(j.aim, to)
    PROVE  JobOK(plugged, Job(j, saved, to, via, sent, todo))
<1> DEFINE x == Job(j, saved, to, via, sent, todo)
<1>1. /\ j.kind \in JobKinds /\ j.aim \in Aims \cup {NoAim} /\ j.asks \in AllAsks
      /\ j.screen \in Screens \cup {None} /\ j.asks \in Asks(j.kind)
      /\ j.kind \in UiKinds => j.screen \in Screens
  BY DEF JobOK
<1>2. /\ x.kind = j.kind /\ x.aim = j.aim /\ x.asks = j.asks /\ x.screen = j.screen
      /\ x.saved = saved /\ x.to = to /\ x.via = via /\ x.sent = sent /\ x.todo = todo
  BY DEF Job
<1>3. todo \in Seq(Steps)
  BY DEF Proper
<1>4. x \in [kind : JobKinds, aim : Aims \cup {NoAim}, asks : AllAsks,
             screen : Screens \cup {None}, saved : State,
             to : Links(plugged) \cup {Refused}, via : {"direct", "daemon"},
             sent : SUBSET Fields, todo : Seq(Steps)]
  BY <1>1, <1>3 DEF Job
<1> HIDE DEF x
<1> QED
  BY <1>1, <1>2, <1>4 DEF JobOK, x

LEMMA JobFields ==
    ASSUME NEW j, NEW saved, NEW to, NEW via, NEW sent, NEW todo, NEW x,
           x = Job(j, saved, to, via, sent, todo)
    PROVE  /\ x.kind = j.kind /\ x.aim = j.aim /\ x.asks = j.asks /\ x.screen = j.screen
           /\ x.saved = saved /\ x.to = to /\ x.via = via /\ x.sent = sent /\ x.todo = todo
BY DEF Job

\* The updates that the steps make.
LEMMA JobSelf ==
    ASSUME NEW plugged, NEW j, JobOK(plugged, j)
    PROVE  j = Job(j, j.saved, j.to, j.via, j.sent, j.todo)
<1>1. j = [kind |-> j.kind, aim |-> j.aim, asks |-> j.asks, screen |-> j.screen,
           saved |-> j.saved, to |-> j.to, via |-> j.via, sent |-> j.sent, todo |-> j.todo]
  BY DEF JobOK
<1> QED
  BY <1>1 DEF Job

LEMMA JobTodo ==
    ASSUME NEW plugged, NEW j, JobOK(plugged, j), NEW t
    PROVE  [j EXCEPT !.todo = t] = Job(j, j.saved, j.to, j.via, j.sent, t)
<1>1. [Job(j, j.saved, j.to, j.via, j.sent, j.todo) EXCEPT !.todo = t]
        = Job(j, j.saved, j.to, j.via, j.sent, t)
  BY DEF Job
<1> QED
  BY <1>1, JobSelf, Zenon

LEMMA JobUnsent ==
    ASSUME NEW plugged, NEW j, JobOK(plugged, j), NEW v
    PROVE  [j EXCEPT !.sent = v] = Job(j, j.saved, j.to, j.via, v, j.todo)
<1>1. [Job(j, j.saved, j.to, j.via, j.sent, j.todo) EXCEPT !.sent = v]
        = Job(j, j.saved, j.to, j.via, v, j.todo)
  BY DEF Job
<1> QED
  BY <1>1, JobSelf, Zenon

LEMMA JobLoaded ==
    ASSUME NEW plugged, NEW j, JobOK(plugged, j), NEW v, NEW t
    PROVE  [j EXCEPT !.saved = v, !.todo = t] = Job(j, v, j.to, j.via, j.sent, t)
<1> DEFINE x == [j EXCEPT !.saved = v]
<1>1. [Job(j, j.saved, j.to, j.via, j.sent, j.todo) EXCEPT !.saved = v]
        = Job(j, v, j.to, j.via, j.sent, j.todo)
  BY DEF Job
<1>2. x = Job(j, v, j.to, j.via, j.sent, j.todo)
  BY <1>1, JobSelf, Zenon
<1>3. [j EXCEPT !.saved = v, !.todo = t] = [x EXCEPT !.todo = t]
  OBVIOUS
<1> HIDE DEF x
<1>4. [Job(j, v, j.to, j.via, j.sent, j.todo) EXCEPT !.todo = t]
        = Job(j, v, j.to, j.via, j.sent, t)
  BY DEF Job
<1> QED
  BY <1>2, <1>3, <1>4

Linking(j, v, w, t) == [j EXCEPT !.to = v, !.via = w, !.todo = t]

LEMMA JobLinked ==
    ASSUME NEW plugged, NEW j, JobOK(plugged, j), NEW v, NEW w, NEW t
    PROVE  Linking(j, v, w, t) = Job(j, j.saved, v, w, j.sent, t)
<1> DEFINE x == [j EXCEPT !.to = v]  y == [x EXCEPT !.via = w]
<1>1. [Job(j, j.saved, j.to, j.via, j.sent, j.todo) EXCEPT !.to = v]
        = Job(j, j.saved, v, j.via, j.sent, j.todo)
  BY DEF Job
<1>2. x = Job(j, j.saved, v, j.via, j.sent, j.todo)
  BY <1>1, JobSelf, Zenon
<1>3. Linking(j, v, w, t) = [y EXCEPT !.todo = t]
  BY DEF Linking
<1>4. [Job(j, j.saved, v, j.via, j.sent, j.todo) EXCEPT !.via = w]
        = Job(j, j.saved, v, w, j.sent, j.todo)
  BY DEF Job
<1> HIDE DEF x
<1>5. y = Job(j, j.saved, v, w, j.sent, j.todo)
  BY <1>2, <1>4
<1>6. [Job(j, j.saved, v, w, j.sent, j.todo) EXCEPT !.todo = t]
        = Job(j, j.saved, v, w, j.sent, t)
  BY DEF Job
<1> HIDE DEF y
<1> QED
  BY <1>3, <1>5, <1>6

\* A request answered adds to what was sent.
Adding(x, v) == [x EXCEPT !.sent = @ \cup v]

LEMMA JobSends ==
    ASSUME NEW j, NEW s, NEW t, NEW v, NEW x, x = Job(j, s, j.to, j.via, j.sent, t)
    PROVE  Adding(x, v) = Job(j, s, j.to, j.via, j.sent \cup v, t)
<1>1. x.sent = j.sent
  BY DEF Job
<1>2. Adding(x, v) = [x EXCEPT !.sent = j.sent \cup v]
  BY <1>1 DEF Adding
<1>3. [Job(j, s, j.to, j.via, j.sent, t) EXCEPT !.sent = j.sent \cup v]
        = Job(j, s, j.to, j.via, j.sent \cup v, t)
  BY DEF Job
<1> QED
  BY <1>2, <1>3

\* A command that sets one setting puts it in what it loaded.
Brighter(j, w, t) == [j EXCEPT !.todo = t, !.saved.brightness = w]
Turned(j, w, t) == [j EXCEPT !.todo = t, !.saved.rotation = w]

LEMMA JobSets ==
    ASSUME NEW plugged, NEW j, JobOK(plugged, j), NEW w, NEW t
    PROVE  /\ Brighter(j, w, t)
                = Job(j, [j.saved EXCEPT !.brightness = w], j.to, j.via, j.sent, t)
           /\ Turned(j, w, t)
                = Job(j, [j.saved EXCEPT !.rotation = w], j.to, j.via, j.sent, t)
<1> DEFINE jt == [j EXCEPT !.todo = t]
<1>1. jt = Job(j, j.saved, j.to, j.via, j.sent, t)
  BY JobTodo, Zenon
<1>2. /\ Brighter(j, w, t) = [jt EXCEPT !.saved = [jt.saved EXCEPT !.brightness = w]]
      /\ Turned(j, w, t) = [jt EXCEPT !.saved = [jt.saved EXCEPT !.rotation = w]]
  BY DEF Brighter, Turned
<1> HIDE DEF jt
<1>3. jt.saved = j.saved
  BY <1>1 DEF Job
<1>4. ASSUME NEW s
      PROVE  [Job(j, j.saved, j.to, j.via, j.sent, t) EXCEPT !.saved = s]
               = Job(j, s, j.to, j.via, j.sent, t)
  BY DEF Job
<1>5. \A s : [jt EXCEPT !.saved = s] = Job(j, s, j.to, j.via, j.sent, t)
  BY <1>1, <1>4, Zenon
<1> QED
  BY <1>2, <1>3, <1>5, Zenon

\* A job that runs: its next step, and the steps after it.
LEMMA Doing ==
    ASSUME Types, NEW a \in Actors, ~Idle(a)
    PROVE  /\ JobOK(Plugged(bus), job[a])
           /\ Step(a) = Head(job[a].todo) /\ Step(a) \in Steps
           /\ Rest(a) = Tail(job[a].todo) /\ Proper(job[a].kind, Rest(a))
           /\ Step(a) \notin {"rename", "daemon rename"} => Rest(a) # << >>
           /\ \A s : Has(Rest(a), s) => Has(job[a].todo, s)
           /\ Step(a) # "connect" /\ job[a].to = Refused => Has(Rest(a), "connect")
<1>1. JobOK(Plugged(bus), job[a])
  BY DEF Types, Idle, NoJob
<1>2. Proper(job[a].kind, job[a].todo) /\ job[a].todo # << >>
  BY <1>1 DEF JobOK
<1>3. Step(a) = Head(job[a].todo) /\ Rest(a) = Tail(job[a].todo)
  BY DEF Step, Rest
<1>4. job[a].to = Refused => Has(job[a].todo, "connect")
  BY <1>1 DEF JobOK
<1> QED
  BY ZenonT(60), <1>1, <1>2, <1>3, <1>4, TailProper

LEMMA Stepping ==
    ASSUME NEW a \in Actors, Step(a) # "none"
    PROVE  ~Idle(a)
BY DEF Step

\* A request, or a step after it, is one of a job that is connected.
LEMMA Linked ==
    ASSUME Types, NEW a \in Actors, ~Idle(a), Step(a) \notin {"load", "connect"}
    PROVE  /\ job[a].to \in Links(Plugged(bus)) /\ job[a].to # Refused
           /\ job[a].to.at \in Plugged(bus)
           /\ ~Has(job[a].todo, "connect")
<1>1. /\ JobOK(Plugged(bus), job[a]) /\ Step(a) = Head(job[a].todo)
  BY Doing
<1>2. Proper(job[a].kind, job[a].todo) /\ job[a].todo # << >>
  BY <1>1 DEF JobOK
<1>3. ~Has(job[a].todo, "connect")
  BY <1>1, <1>2, TailProper DEF Before
<1>4. job[a].to \in Links(Plugged(bus)) \cup {Refused} /\ job[a].to # Refused
  BY <1>1, <1>3 DEF JobOK
<1> QED
  BY <1>3, <1>4, LinkFields

\* One job changes: it goes on as x, or is over.
LEMMA OneJob ==
    ASSUME Types, NEW a \in Actors, NEW x, job' = [job EXCEPT ![a] = x]
    PROVE  /\ job' = [b \in Actors |-> job'[b]] /\ job'[a] = x
           /\ \A b \in Actors \ {a} : job'[b] = job[b]
           /\ (x = NoJob \/ JobOK(Plugged(bus), x)) =>
                \A b \in Actors : job'[b] = NoJob \/ JobOK(Plugged(bus), job'[b])
<1>1. job = [b \in Actors |-> job[b]]
  BY DEF Types
<1>2. job' = [b \in Actors |-> IF b = a THEN x ELSE job[b]]
  BY <1>1
<1> QED
  BY <1>2 DEF Types

-----------------------------------------------------------------------------
(* Types hold of any number of processes.                                  *)

LEMMA NewJobOK ==
    ASSUME NEW plugged, NEW kind \in JobKinds, NEW aim \in Aims \cup {NoAim},
           NEW asks \in Asks(kind), NEW screen \in Screens \cup {None},
           kind \in UiKinds => screen \in Screens,
           NEW to \in Links(plugged) \cup {Refused},
           kind = "restore" => to # Refused, to # Refused => Named(aim, to),
           NEW j, j = [NewJob(kind, aim, asks, screen) EXCEPT !.to = to]
    PROVE  JobOK(plugged, j)
<1>1. /\ Proper(kind, Script(kind)) /\ Script(kind) # << >>
      /\ Has(Script(kind), "connect")
  BY ScriptProper
<1>2. Script(kind) \in Seq(Steps)
  BY <1>1 DEF Proper
<1>3. asks \in AllAsks
  BY DEF AllAsks
<1>4. j = [kind |-> kind, aim |-> aim, asks |-> asks, screen |-> screen,
           saved |-> Default, to |-> to, via |-> "direct", sent |-> {},
           todo |-> Script(kind)]
  BY DEF NewJob
<1>5. [kind |-> kind, aim |-> aim, asks |-> asks, screen |-> screen,
       saved |-> Default, to |-> to, via |-> "direct", sent |-> {},
       todo |-> Script(kind)]
        \in [kind : JobKinds, aim : Aims \cup {NoAim}, asks : AllAsks,
             screen : Screens \cup {None}, saved : State,
             to : Links(plugged) \cup {Refused}, via : {"direct", "daemon"},
             sent : SUBSET Fields, todo : Seq(Steps)]
  BY <1>2, <1>3, DefaultState
<1>6. /\ j.kind = kind /\ j.aim = aim /\ j.asks = asks /\ j.screen = screen
      /\ j.to = to /\ j.todo = Script(kind)
  BY <1>4
<1> QED
  BY <1>1, <1>4, <1>5, <1>6 DEF JobOK

\* A job with fewer steps to do.
LEMMA Shorter ==
    ASSUME NEW plugged, NEW j, JobOK(plugged, j), NEW todo, Proper(j.kind, todo),
           todo # << >>, Has(j.todo, "connect") => Has(todo, "connect")
    PROVE  /\ JobOK(plugged, [j EXCEPT !.todo = todo])
           /\ [j EXCEPT !.todo = todo] = Job(j, j.saved, j.to, j.via, j.sent, todo)
<1>1. [j EXCEPT !.todo = todo] = Job(j, j.saved, j.to, j.via, j.sent, todo)
  BY JobTodo, Zenon
<1>2. /\ j.saved \in State /\ j.to \in Links(plugged) \cup {Refused}
      /\ j.via \in {"direct", "daemon"} /\ j.sent \in SUBSET Fields
      /\ j.to = Refused => Has(todo, "connect") /\ j.kind # "restore"
      /\ j.to # Refused => Named(j.aim, j.to)
  BY DEF JobOK
<1>3. JobOK(plugged, Job(j, j.saved, j.to, j.via, j.sent, todo))
  BY <1>2, JobIs
<1> QED
  BY <1>1, <1>3

\* What a job may leave when it is over.
LEMMA IsOver ==
    ASSUME Types, NEW a \in Actors, NEW saved, Over(a, saved)
    PROVE  /\ job' = [job EXCEPT ![a] = NoJob]
           /\ fd' = [fd EXCEPT ![a] = "none"]
           /\ fd' \in [Actors -> {"none", "temp", "file"}]
           /\ unsure' = [d \in Plugged(bus) |->
                IF d = job[a].to.at
                THEN IF saved THEN unsure[d] \ job[a].sent ELSE unsure[d] \cup job[a].sent
                ELSE unsure[d]]
           /\ ~Idle(a) => unsure' \in [Plugged(bus) -> SUBSET Fields]
<1>1. unsure = [d \in Plugged(bus) |-> unsure[d]] /\ unsure \in [Plugged(bus) -> SUBSET Fields]
  BY DEF Types
<1>2. /\ job' = [job EXCEPT ![a] = NoJob] /\ fd' = [fd EXCEPT ![a] = "none"]
      /\ unsure' = IF job[a].to.at \notin Plugged(bus) THEN unsure
                   ELSE [unsure EXCEPT ![job[a].to.at] =
                          IF saved THEN @ \ job[a].sent ELSE @ \cup job[a].sent]
  BY DEF Over
<1>3. fd' \in [Actors -> {"none", "temp", "file"}]
  BY <1>2 DEF Types
<1>4. unsure' = [d \in Plugged(bus) |->
                IF d = job[a].to.at
                THEN IF saved THEN unsure[d] \ job[a].sent ELSE unsure[d] \cup job[a].sent
                ELSE unsure[d]]
  BY <1>1, <1>2
<1>5. ASSUME ~Idle(a) PROVE job[a].sent \in SUBSET Fields
  <2>1. JobOK(Plugged(bus), job[a])
    BY <1>5, Doing
  <2> QED
    BY <2>1 DEF JobOK
<1> QED
  BY <1>1, <1>2, <1>3, <1>4, <1>5

\* A job that goes on with what is left of it, or is over.
LEMMA GoesOn ==
    ASSUME Types, NEW a \in Actors, ~Idle(a), NEW todo, GoOn(a, todo),
           todo # << >> => /\ Proper(job[a].kind, todo)
                           /\ Has(job[a].todo, "connect") => Has(todo, "connect")
    PROVE  /\ \/ /\ todo = << >> /\ Over(a, FALSE)
                 /\ job' = [job EXCEPT ![a] = NoJob]
              \/ /\ todo # << >>
                 /\ job' = [job EXCEPT ![a] = [job[a] EXCEPT !.todo = todo]]
                 /\ UNCHANGED <<fd, unsure>>
           /\ job' = [b \in Actors |-> job'[b]]
           /\ \A b \in Actors : job'[b] = NoJob \/ JobOK(Plugged(bus), job'[b])
           /\ fd' \in [Actors -> {"none", "temp", "file"}]
           /\ unsure' \in [Plugged(bus) -> SUBSET Fields]
<1>1. CASE todo = << >>
  <2>1. Over(a, FALSE)
    BY <1>1 DEF GoOn
  <2>2. job' = [job EXCEPT ![a] = NoJob]
    BY <2>1, IsOver
  <2>3. /\ job' = [b \in Actors |-> job'[b]]
        /\ \A b \in Actors : job'[b] = NoJob \/ JobOK(Plugged(bus), job'[b])
    BY <2>2, OneJob
  <2> QED
    BY <1>1, <2>1, <2>2, <2>3, IsOver
<1>2. CASE todo # << >>
  <2> DEFINE x == [job[a] EXCEPT !.todo = todo]
  <2>1. job' = [job EXCEPT ![a] = x] /\ UNCHANGED <<fd, unsure>>
    BY <1>2 DEF GoOn
  <2>2. JobOK(Plugged(bus), job[a])
    BY Doing
  <2>3. JobOK(Plugged(bus), x)
    BY <1>2, <2>2, Shorter
  <2> HIDE DEF x
  <2>4. /\ job' = [b \in Actors |-> job'[b]]
        /\ \A b \in Actors : job'[b] = NoJob \/ JobOK(Plugged(bus), job'[b])
    BY <2>1, <2>3, OneJob
  <2> QED
    BY <1>2, <2>1, <2>4 DEF Types, x
<1> QED
  BY <1>1, <1>2

\* A job changes, and little else.
LEMMA StepTypes ==
    ASSUME Types, NEW a \in Actors, NEW x, x = NoJob \/ JobOK(Plugged(bus), x),
           job' = [job EXCEPT ![a] = x], bus' = bus,
           daemon' \in Links(Plugged(bus)) \cup {Refused},
           file' \in Files, temp' \in Files,
           fd' \in [Actors -> {"none", "temp", "file"}],
           display' \in [Plugged(bus) -> Shown], ui' \in Screens \cup {None},
           left' \in 0..MaxJobs, unsure' \in [Plugged(bus) -> SUBSET Fields]
    PROVE  Types'
<1>1. /\ job' = [b \in Actors |-> job'[b]]
      /\ \A b \in Actors : job'[b] = NoJob \/ JobOK(Plugged(bus), job'[b])
  BY OneJob
<1>2. bus' \in Buses
  BY DEF Types
<1> QED
  BY <1>1, <1>2 DEF Types

\* Jobs change, and little else.
LEMMA JobsTypes ==
    ASSUME Types, bus' = bus,
           job' = [b \in Actors |-> job'[b]],
           \A b \in Actors : job'[b] = NoJob \/ JobOK(Plugged(bus), job'[b]),
           daemon' \in Links(Plugged(bus)) \cup {Refused},
           file' \in Files, temp' \in Files,
           fd' \in [Actors -> {"none", "temp", "file"}],
           display' \in [Plugged(bus) -> Shown], ui' \in Screens \cup {None},
           left' \in 0..MaxJobs, unsure' \in [Plugged(bus) -> SUBSET Fields]
    PROVE  Types'
<1>1. bus' \in Buses
  BY DEF Types
<1> QED
  BY <1>1 DEF Types

LEMMA Unchanged ==
    ASSUME Types
    PROVE  /\ daemon \in Links(Plugged(bus)) \cup {Refused}
           /\ file \in Files /\ temp \in Files
           /\ fd \in [Actors -> {"none", "temp", "file"}]
           /\ display \in [Plugged(bus) -> Shown]
           /\ ui \in Screens \cup {None}
           /\ left \in 0..MaxJobs /\ (left > 0 => left - 1 \in 0..MaxJobs)
           /\ unsure \in [Plugged(bus) -> SUBSET Fields]
           /\ load(file) \in State
BY SettingsAssumption, LoadState DEF Types

\* How a request may end: answered, and the job is x; failed, and the restore
\* goes on; failed.
At(a) == job[a].to.at
Answered(a, fields, values, claims, x) ==
    /\ display' = [display EXCEPT ![At(a)] = Put(display[At(a)], fields, values)]
    /\ job' = [job EXCEPT ![a] = x]
    /\ unsure' = [unsure EXCEPT ![At(a)] = unsure[At(a)] \cup (fields \ claims)]
    /\ fd' = fd
Missed(a, fields, values, some) ==
    /\ display' = [display EXCEPT ![At(a)] = Put(display[At(a)], some, values)]
    /\ job[a].kind = "restore"
    /\ job' = [job EXCEPT ![a] = [job[a] EXCEPT !.todo = Rest(a)]]
    /\ unsure' = [unsure EXCEPT ![At(a)] = unsure[At(a)] \cup fields]
    /\ fd' = fd
Failed(a, fields, values, some) ==
    /\ display' = [display EXCEPT ![At(a)] = Put(display[At(a)], some, values)]
    /\ job[a].kind # "restore"
    /\ job' = [job EXCEPT ![a] = NoJob]
    /\ unsure' = [unsure EXCEPT ![At(a)] = unsure[At(a)] \cup fields \cup job[a].sent]
    /\ fd' = [fd EXCEPT ![a] = "none"]

Asking(a, fields, values, claims, x) ==
    /\ ~Idle(a) /\ Step(a) \in {"apply", "brightness", "rotate", "fan"}
    /\ MayShow(fields, values) /\ JobOK(Plugged(bus), x)
    /\ UNCHANGED <<bus, daemon, file, temp, ui, left>>
    /\ \/ Answered(a, fields, values, claims, x)
       \/ \E some \in SUBSET fields :
            Missed(a, fields, values, some) \/ Failed(a, fields, values, some)

LEMMA Outcomes ==
    ASSUME NEW a, Step(a) \in {"apply", "brightness", "rotate", "fan"},
           NEW fields, NEW values, MayShow(fields, values), NEW claims,
           NEW partial, partial \subseteq SUBSET fields, NEW next,
           NEW x, x = Adding(next, claims), JobOK(Plugged(bus), x),
           Request(a, fields, values, claims, partial, next)
    PROVE  Asking(a, fields, values, claims, x)
<1>1. ~Idle(a)
  BY DEF Step
<1>2. /\ UNCHANGED <<bus, daemon, file, temp, ui, left>>
      /\ \/ Answered(a, fields, values, claims, x)
         \/ \E some \in partial :
              Missed(a, fields, values, some) \/ Failed(a, fields, values, some)
  BY DEF Request, Answered, Missed, Failed, At, Adding
<1> QED
  BY <1>1, <1>2 DEF Asking

LEMMA RequestTypes ==
    ASSUME Types, NEW a \in Actors, NEW fields, NEW values, NEW claims, NEW x,
           Asking(a, fields, values, claims, x)
    PROVE  Types'
<1> DEFINE at == At(a)
<1>0. ~Idle(a) /\ Step(a) \in {"apply", "brightness", "rotate", "fan"}
  BY DEF Asking
<1>1. /\ job[a].to # Refused /\ at \in Plugged(bus) /\ ~Has(job[a].todo, "connect")
  BY <1>0, Linked DEF At
<1>2. /\ JobOK(Plugged(bus), job[a]) /\ Proper(job[a].kind, Rest(a)) /\ Rest(a) # << >>
  BY <1>0, Doing
<1>3. job[a].sent \in SUBSET Fields /\ fields \in SUBSET Fields
  BY <1>2 DEF JobOK, MayShow, Asking
<1>4. display[at] \in Shown /\ unsure[at] \in SUBSET Fields
  BY <1>1 DEF Types
<1>5. /\ UNCHANGED <<bus, daemon, file, temp, ui, left>> /\ MayShow(fields, values)
      /\ JobOK(Plugged(bus), x)
  BY DEF Asking
<1>6. ASSUME NEW some \in SUBSET fields PROVE Put(display[at], some, values) \in Shown
  BY <1>4, <1>5, MayShowPart, PutShown
<1> HIDE DEF at
<1>7. CASE Answered(a, fields, values, claims, x)
  <2>1. display' \in [Plugged(bus) -> Shown]
    BY <1>1, <1>6, <1>7 DEF Answered, Types, at
  <2>2. unsure' \in [Plugged(bus) -> SUBSET Fields]
    BY <1>1, <1>3, <1>4, <1>7 DEF Answered, Types, at
  <2>3. job' = [job EXCEPT ![a] = x] /\ fd' = fd
    BY <1>7 DEF Answered
  <2> QED
    BY <1>5, <2>1, <2>2, <2>3, Unchanged, StepTypes
<1>8. ASSUME NEW some \in SUBSET fields, Missed(a, fields, values, some) PROVE Types'
  <2>1. display' \in [Plugged(bus) -> Shown]
    BY <1>1, <1>6, <1>8 DEF Missed, Types, at
  <2>2. unsure' \in [Plugged(bus) -> SUBSET Fields]
    BY <1>1, <1>3, <1>4, <1>8 DEF Missed, Types, at
  <2> DEFINE y == [job[a] EXCEPT !.todo = Rest(a)]
  <2>3. job' = [job EXCEPT ![a] = y] /\ fd' = fd
    BY <1>8 DEF Missed
  <2>4. JobOK(Plugged(bus), y)
    BY <1>1, <1>2, Shorter
  <2> HIDE DEF y
  <2> QED
    BY <1>5, <2>1, <2>2, <2>3, <2>4, Unchanged, StepTypes
<1>9. ASSUME NEW some \in SUBSET fields, Failed(a, fields, values, some) PROVE Types'
  <2>1. display' \in [Plugged(bus) -> Shown]
    BY <1>1, <1>6, <1>9 DEF Failed, Types, at
  <2>2. unsure' \in [Plugged(bus) -> SUBSET Fields]
    BY <1>1, <1>3, <1>4, <1>9 DEF Failed, Types, at
  <2>3. /\ job' = [job EXCEPT ![a] = NoJob]
        /\ fd' \in [Actors -> {"none", "temp", "file"}]
    BY <1>9 DEF Failed, Types
  <2> QED
    BY <1>5, <2>1, <2>2, <2>3, Unchanged, StepTypes
<1> QED
  BY <1>7, <1>8, <1>9 DEF Asking

-----------------------------------------------------------------------------
(* Each action keeps the types.                                            *)

LEMMA InitTypes == Init => Types
<1> SUFFICES ASSUME Init PROVE Types
  OBVIOUS
<1>1. NoFile \in Files /\ Factory \in Shown
  BY DEF Files, Factory, Shown
<1>2. display \in [Plugged(bus) -> Shown] /\ unsure \in [Plugged(bus) -> SUBSET Fields]
  BY <1>1 DEF Init
<1>3. left \in 0..MaxJobs
  BY SettingsAssumption DEF Init
<1> QED
  BY <1>1, <1>2, <1>3 DEF Init, Types

LEMMA CommandTypes ==
    ASSUME Types, NEW a \in Actors, NEW kind \in Kinds, NEW aim \in Aims,
           NEW asks \in Asks(kind), Command(a, kind, aim, asks)
    PROVE  Types'
<1> DEFINE j == NewJob(kind, aim, asks, None)
<1>1. /\ kind \in JobKinds \ (UiKinds \cup {"restore"}) /\ left > 0 /\ left' = left - 1
      /\ job' = [job EXCEPT ![a] = j]
      /\ UNCHANGED <<bus, daemon, file, temp, fd, display, ui, unsure>>
  BY KindsAssumption DEF Command, Begin
<1>2. j = [j EXCEPT !.to = Refused]
  BY DEF NewJob
<1>3. JobOK(Plugged(bus), [j EXCEPT !.to = Refused])
  BY <1>1, NewJobOK
<1>4. JobOK(Plugged(bus), j)
  BY <1>2, <1>3
<1> HIDE DEF j
<1> QED
  BY <1>1, <1>4, Unchanged, StepTypes

LEMMA RestoreTypes ==
    ASSUME Types, NEW a \in Actors, NEW aim \in Aims, Restore(a, aim)
    PROVE  Types'
<1> DEFINE to == select_backend(bus, aim)
           j == [NewJob("restore", aim, [none |-> None], None) EXCEPT !.to = to]
<1>1. /\ left > 0 /\ left' = left - 1 /\ to # Refused /\ daemon' = to
      /\ job' = [job EXCEPT ![a] = j]
      /\ UNCHANGED <<bus, file, temp, fd, display, ui, unsure>>
  BY DEF Restore, Begin
<1>2. to \in Links(Plugged(bus)) /\ Named(aim, to)
  BY <1>1, Selected
<1> HIDE DEF to
<1>3. "restore" \in JobKinds /\ "restore" \notin UiKinds
  BY DEF JobKinds, UiKinds
<1>4. [none |-> None] \in Asks("restore")
  BY DEF Asks
<1>5. JobOK(Plugged(bus), j)
  BY <1>1, <1>2, <1>3, <1>4, NewJobOK
<1> HIDE DEF j
<1> QED
  BY <1>1, <1>2, <1>5, Unchanged, StepTypes

LEMMA OpenInterfaceTypes ==
    ASSUME Types, OpenInterface
    PROVE  Types'
<1>1. ui' \in Screens \cup {None}
  BY Unchanged DEF OpenInterface, State, Screens
<1> QED
  BY <1>1, Unchanged, JobsTypes DEF OpenInterface, Types

LEMMA EditInterfaceTypes ==
    ASSUME Types, NEW look \in Looks, EditInterface(look)
    PROVE  Types'
<1>1. ui' \in Screens \cup {None}
  BY DEF EditInterface, Types, Screens
<1> QED
  BY <1>1, Unchanged, JobsTypes DEF EditInterface, Types

LEMMA InterfaceTypes ==
    ASSUME Types, NEW a \in Actors, NEW kind \in Kinds, NEW asks \in Asks(kind),
           Interface(a, kind, asks)
    PROVE  Types'
<1> DEFINE j == NewJob(kind, NoAim, asks, ui')
<1>1. /\ kind \in UiKinds /\ kind \in JobKinds /\ left > 0 /\ left' = left - 1
      /\ job' = [job EXCEPT ![a] = j] /\ ui \in Screens
      /\ UNCHANGED <<bus, daemon, file, temp, fd, display, unsure>>
  BY KindsAssumption DEF Interface, Begin, Types
<1>2. ui' \in Screens
  <2>1. kind = "ui show" => asks.media \in Media
    BY <1>1, AskedValues
  <2> QED
    BY <1>1, <2>1 DEF Interface, Screens
<1>3. j = [j EXCEPT !.to = Refused]
  BY DEF NewJob
<1>4. "restore" \notin UiKinds /\ NoAim \in Aims \cup {NoAim}
  BY DEF UiKinds
<1>5. JobOK(Plugged(bus), [j EXCEPT !.to = Refused])
  <2> DEFINE screen == ui'
  <2>1. j = NewJob(kind, NoAim, asks, screen) /\ screen \in Screens
    BY <1>2
  <2> HIDE DEF j, screen
  <2> QED
    BY <1>1, <1>4, <2>1, NewJobOK
<1>6. JobOK(Plugged(bus), j)
  BY <1>3, <1>5
<1> HIDE DEF j
<1> QED
  BY <1>1, <1>2, <1>6, Unchanged, StepTypes

\* The job after a step that loads.
LEMMA LoadDoes ==
    ASSUME Types, NEW a \in Actors, Load(a)
    PROVE  /\ ~Idle(a) /\ Edited(job[a], load(file)) \in State
           /\ job' = [job EXCEPT ![a] =
                Job(job[a], Edited(job[a], load(file)), job[a].to, job[a].via,
                    job[a].sent, Rest(a))]
           /\ JobOK(Plugged(bus), Job(job[a], Edited(job[a], load(file)), job[a].to,
                                      job[a].via, job[a].sent, Rest(a)))
           /\ UNCHANGED <<bus, daemon, file, temp, fd, display, ui, left, unsure>>
<1> DEFINE E == Edited(job[a], load(file))
<1>1. Step(a) = "load" /\ ~Idle(a)
  BY Stepping DEF Load
<1>2. /\ JobOK(Plugged(bus), job[a]) /\ Proper(job[a].kind, Rest(a)) /\ Rest(a) # << >>
      /\ job[a].to = Refused => Has(Rest(a), "connect")
  BY <1>1, Doing
<1>3. E \in State
  BY <1>2, EditedState, Unchanged
<1>4. /\ job' = [job EXCEPT ![a] = [job[a] EXCEPT !.saved = E, !.todo = Rest(a)]]
      /\ UNCHANGED <<bus, daemon, file, temp, fd, display, ui, left, unsure>>
  BY DEF Load
<1> HIDE DEF E
<1>5. [job[a] EXCEPT !.saved = E, !.todo = Rest(a)]
        = Job(job[a], E, job[a].to, job[a].via, job[a].sent, Rest(a))
  BY <1>2, JobLoaded, Zenon
<1>6. /\ job[a].to \in Links(Plugged(bus)) \cup {Refused} /\ job[a].via \in {"direct", "daemon"}
      /\ job[a].sent \in SUBSET Fields
      /\ job[a].to = Refused => job[a].kind # "restore"
      /\ job[a].to # Refused => Named(job[a].aim, job[a].to)
  BY <1>2 DEF JobOK
<1>7. JobOK(Plugged(bus), Job(job[a], E, job[a].to, job[a].via, job[a].sent, Rest(a)))
  BY <1>2, <1>3, <1>6, JobIs
<1>8. job' = [job EXCEPT ![a] = Job(job[a], E, job[a].to, job[a].via, job[a].sent, Rest(a))]
  BY <1>4, <1>5, Zenon
<1> QED
  BY <1>1, <1>3, <1>4, <1>7, <1>8 DEF E

LEMMA LoadTypes ==
    ASSUME Types, NEW a \in Actors, Load(a)
    PROVE  Types'
<1> DEFINE x == Job(job[a], Edited(job[a], load(file)), job[a].to, job[a].via,
                    job[a].sent, Rest(a))
<1>1. /\ job' = [job EXCEPT ![a] = x] /\ JobOK(Plugged(bus), x)
      /\ UNCHANGED <<bus, daemon, file, temp, fd, display, ui, left, unsure>>
  BY LoadDoes
<1> HIDE DEF x
<1> QED
  BY <1>1, Unchanged, StepTypes

\* A job connects, or is over.
Link(a) ==
    LET j == job[a]
    IN  IF j.kind = "restore" THEN [via |-> "direct", to |-> j.to]
        ELSE IF j.kind = "push"
        THEN [via |-> "direct", to |-> select_backend(bus, j.aim)]
        ELSE connect(bus, j.aim, daemon)

LEMMA ConnectDoes ==
    ASSUME Types, NEW a \in Actors, Connect(a)
    PROVE  /\ ~Idle(a) /\ Step(a) = "connect"
           /\ UNCHANGED <<bus, daemon, file, temp, display, ui, left>>
           /\ \/ Over(a, FALSE)
              \/ /\ Accepts(job[a], Link(a).to)
                 /\ Link(a).to \in Links(Plugged(bus)) /\ Link(a).to # Refused
                 /\ job' = [job EXCEPT ![a] =
                      Job(job[a], job[a].saved, Link(a).to, Link(a).via, job[a].sent, Rest(a))]
                 /\ JobOK(Plugged(bus), Job(job[a], job[a].saved, Link(a).to, Link(a).via,
                                            job[a].sent, Rest(a)))
                 /\ job[a].kind = "restore" => Link(a).to = job[a].to
                 /\ UNCHANGED <<fd, unsure>>
<1>1. Step(a) = "connect" /\ ~Idle(a)
  BY Stepping DEF Connect
<1>2. /\ JobOK(Plugged(bus), job[a]) /\ Proper(job[a].kind, Rest(a)) /\ Rest(a) # << >>
  BY <1>1, Doing
<1>3. /\ job[a].to \in Links(Plugged(bus)) \cup {Refused} /\ job[a].aim \in Aims \cup {NoAim}
      /\ job[a].sent \in SUBSET Fields /\ job[a].saved \in State
      /\ job[a].to = Refused => job[a].kind # "restore"
      /\ job[a].to # Refused => Named(job[a].aim, job[a].to)
  BY <1>2 DEF JobOK
<1>4. daemon \in Links(Plugged(bus)) \cup {Refused}
  BY DEF Types
<1>5. /\ Link(a).to \in Links(Plugged(bus)) \cup {Refused}
      /\ Link(a).via \in {"direct", "daemon"}
      /\ Link(a).to # Refused => Named(job[a].aim, Link(a).to)
      /\ job[a].kind = "restore" => Link(a).to = job[a].to
  <2>1. CASE job[a].kind = "restore"
    BY <1>3, <2>1 DEF Link
  <2>2. CASE job[a].kind = "push"
    <3>1. Link(a) = [via |-> "direct", to |-> select_backend(bus, job[a].aim)]
      BY <2>2 DEF Link
    <3> QED
      BY <1>3, <2>2, <3>1, Selected
  <2>3. CASE job[a].kind \notin {"restore", "push"}
    <3>1. Link(a) = connect(bus, job[a].aim, daemon)
      BY <2>3 DEF Link
    <3> QED
      BY <1>3, <1>4, <2>3, <3>1, Connected
  <2> QED
    BY <2>1, <2>2, <2>3
<1>6. /\ UNCHANGED <<bus, daemon, file, temp, display, ui, left>>
      /\ \/ Over(a, FALSE)
         \/ /\ Accepts(job[a], Link(a).to)
            /\ job' = [job EXCEPT ![a] = Linking(job[a], Link(a).to, Link(a).via, Rest(a))]
            /\ UNCHANGED <<fd, unsure>>
  BY DEF Connect, Link, Linking
<1>7. ASSUME Accepts(job[a], Link(a).to)
      PROVE  /\ Link(a).to \in Links(Plugged(bus)) /\ Link(a).to # Refused
             /\ JobOK(Plugged(bus), Job(job[a], job[a].saved, Link(a).to, Link(a).via,
                                        job[a].sent, Rest(a)))
  <2>1. Link(a).to # Refused
    BY <1>7 DEF Accepts, Refused
  <2> QED
    BY <1>2, <1>3, <1>5, <2>1, JobIs
<1>8. Linking(job[a], Link(a).to, Link(a).via, Rest(a))
        = Job(job[a], job[a].saved, Link(a).to, Link(a).via, job[a].sent, Rest(a))
  BY <1>2, JobLinked
<1> QED
  BY <1>1, <1>5, <1>6, <1>7, <1>8

LEMMA ConnectTypes ==
    ASSUME Types, NEW a \in Actors, Connect(a)
    PROVE  Types'
<1>1. ~Idle(a) /\ UNCHANGED <<bus, daemon, file, temp, display, ui, left>>
  BY ConnectDoes
<1>2. CASE Over(a, FALSE)
  BY <1>1, <1>2, IsOver, Unchanged, StepTypes
<1>3. CASE ~Over(a, FALSE)
  <2> DEFINE x == Job(job[a], job[a].saved, Link(a).to, Link(a).via, job[a].sent, Rest(a))
  <2>1. job' = [job EXCEPT ![a] = x] /\ JobOK(Plugged(bus), x) /\ UNCHANGED <<fd, unsure>>
    BY <1>3, ConnectDoes
  <2> HIDE DEF x
  <2> QED
    BY <1>1, <2>1, Unchanged, StepTypes
<1> QED
  BY <1>2, <1>3

-----------------------------------------------------------------------------
(* The requests, and the job each of them leaves.                          *)

\* The job, having sent fields, with s to save and t to do.
Having(a, s, fields, t) ==
    Job(job[a], s, job[a].to, job[a].via, job[a].sent \cup fields, t)

LEMMA HavingOK ==
    ASSUME Types, NEW a \in Actors, ~Idle(a), Step(a) \notin {"load", "connect"},
           NEW s \in State, NEW fields \in SUBSET Fields,
           NEW t, Proper(job[a].kind, t), t # << >>
    PROVE  JobOK(Plugged(bus), Having(a, s, fields, t))
<1>1. JobOK(Plugged(bus), job[a])
  BY Doing
<1>2. job[a].to \in Links(Plugged(bus)) /\ job[a].to # Refused
  BY Linked
<1>3. /\ job[a].via \in {"direct", "daemon"} /\ job[a].sent \cup fields \in SUBSET Fields
      /\ Named(job[a].aim, job[a].to)
  BY <1>1, <1>2 DEF JobOK
<1> QED
  BY <1>1, <1>2, <1>3, JobIs DEF Having

AfterApply(a) == IF job[a].via = "daemon" THEN DaemonSteps \o Rest(a) ELSE Rest(a)

LEMMA AfterApplyProper ==
    ASSUME Types, NEW a \in Actors, Step(a) = "apply"
    PROVE  /\ Proper(job[a].kind, AfterApply(a)) /\ AfterApply(a) # << >>
           /\ \A s : Has(AfterApply(a), s) => s \in DaemonStep \/ Has(Rest(a), s)
           /\ ~Has(AfterApply(a), "load") /\ ~Has(AfterApply(a), "connect")
           /\ ~Has(AfterApply(a), "apply")
           /\ Head(AfterApply(a)) \in {"daemon open", Head(Rest(a))}
<1> DEFINE j == job[a]
<1>1. /\ ~Idle(a) /\ JobOK(Plugged(bus), j) /\ Rest(a) = Tail(j.todo)
      /\ Head(j.todo) = "apply" /\ Rest(a) # << >> /\ Proper(j.kind, Rest(a))
  BY Stepping, Doing
<1>2. Proper(j.kind, j.todo) /\ j.todo # << >>
  BY <1>1 DEF JobOK
<1>3. /\ \A s : Has(Rest(a), s) => Before(j.kind, "apply", s)
      /\ Followed(j.kind, j.todo, 1) /\ j.todo[1] = "apply"
      /\ Len(j.todo) \in Nat \ {0} /\ (Tail(j.todo) = << >> <=> Len(j.todo) = 1)
      /\ Head(Rest(a)) = j.todo[2]
  BY ZenonT(60), <1>1, <1>2, TailProper
<1>4. /\ ~Has(Rest(a), "load") /\ ~Has(Rest(a), "connect") /\ ~Has(Rest(a), "apply")
      /\ \A s \in DaemonStep : ~Has(Rest(a), s)
  BY <1>3 DEF Before, DaemonStep
<1>5. NextStep(j.todo, 1) = j.todo[2]
  <2>1. 1 < Len(j.todo)
    BY <1>1, <1>3
  <2> QED
    BY <2>1 DEF NextStep
<1>6. Head(Rest(a)) \notin {"write", "rename"}
  BY <1>3, <1>5 DEF Followed, MayFollow
<1>7. Rest(a)[1] = Head(Rest(a))
  BY <1>1 DEF Proper
<1>8. /\ Proper(j.kind, DaemonSteps \o Rest(a)) /\ DaemonSteps \o Rest(a) # << >>
      /\ \A s : Has(DaemonSteps \o Rest(a), s) <=> s \in DaemonStep \/ Has(Rest(a), s)
      /\ Head(DaemonSteps \o Rest(a)) = "daemon open"
  BY <1>1, <1>4, <1>6, <1>7, DaemonProper
<1>9. "load" \notin DaemonStep /\ "connect" \notin DaemonStep /\ "apply" \notin DaemonStep
  BY DEF DaemonStep
<1> QED
  BY <1>1, <1>4, <1>8, <1>9 DEF AfterApply

Applied(a) ==
    Having(a, job[a].saved, Sends(job[a].to, job[a].saved), AfterApply(a))

LEMMA ApplyDoes ==
    ASSUME Types, NEW a \in Actors, Apply(a)
    PROVE  /\ Step(a) = "apply" /\ Applies(job[a])
           /\ Asking(a, Sends(job[a].to, job[a].saved), Sent(job[a].to, job[a].saved),
                     Sends(job[a].to, job[a].saved), Applied(a))
<1> DEFINE j == job[a]  fields == Sends(j.to, j.saved)  values == Sent(j.to, j.saved)
           partial == Partial(j.to, j.saved)  next == [j EXCEPT !.todo = AfterApply(a)]
           x == Applied(a)
<1>1. Step(a) = "apply" /\ Applies(j) /\ ~Idle(a)
  BY Stepping DEF Apply
<1>2. Request(a, fields, values, fields, partial, next)
  BY DEF Apply, AfterApply
<1>3. JobOK(Plugged(bus), j) /\ j.saved \in State
  BY <1>1, Doing DEF JobOK
<1>4. MayShow(fields, values) /\ partial \subseteq SUBSET fields
  BY <1>3, SentMayShow
<1>5. fields \in SUBSET Fields
  BY <1>4 DEF MayShow
<1> HIDE DEF fields
<1>6. x = Having(a, j.saved, fields, AfterApply(a))
  BY DEF Applied, fields
<1>7. JobOK(Plugged(bus), x)
  BY <1>1, <1>3, <1>5, <1>6, HavingOK, AfterApplyProper
<1>8. next = Job(j, j.saved, j.to, j.via, j.sent, AfterApply(a))
  BY <1>3, JobTodo, Zenon
<1> DEFINE s == j.saved  t == AfterApply(a)
<1>a. x = Having(a, s, fields, t) /\ next = Job(j, s, j.to, j.via, j.sent, t)
  BY <1>6, <1>8
<1> HIDE DEF j, values, partial, next, x, s, t
<1>b. Adding(next, fields) = Job(j, s, j.to, j.via, j.sent \cup fields, t)
  BY <1>a, JobSends
<1>9. x = Adding(next, fields)
  BY <1>a, <1>b DEF Having, j
<1>10. Step(a) \in {"apply", "brightness", "rotate", "fan"}
  BY <1>1
<1>11. Asking(a, fields, values, fields, x)
  BY <1>2, <1>4, <1>7, <1>9, <1>10, Outcomes
<1> QED
  BY <1>1, <1>11 DEF j, fields, values, x

\* What a request for one setting loses, what it puts on the display, and what
\* it does; a look that the job has sent is kept.
Losing(a, look) == IF look = display[At(a)].look THEN {} ELSE {"look"}
Tuning(a, f, look) ==
    [g \in {f, "look"} |-> IF g = "look" THEN look ELSE job[a].asks[f]]
Tunes(a, f, x) ==
    \E look \in Looks \cup {None} :
        /\ "look" \in job[a].sent => Losing(a, look) = {}
        /\ Asking(a, {f} \cup Losing(a, look), Tuning(a, f, look), {f}, x)

LEMMA LooksLeftShown ==
    ASSUME Types, NEW a \in Actors, ~Idle(a), Step(a) \notin {"load", "connect"},
           NEW look \in LooksLeft(a)
    PROVE  /\ look \in Looks \cup {None}
           /\ "look" \in job[a].sent => Losing(a, look) = {}
<1>1. At(a) \in Plugged(bus)
  BY Linked DEF At
<1>2. display[At(a)].look \in Looks \cup {None}
  BY <1>1 DEF Types, Shown
<1> QED
  BY <1>2 DEF LooksLeft, Bare, Losing, At

LEMMA TuneDoes ==
    ASSUME Types, NEW a \in Actors, ~Idle(a), Step(a) \in {"brightness", "rotate"},
           NEW f \in {"brightness", "rotation"}, NEW look \in LooksLeft(a),
           f = "brightness" => job[a].asks.brightness \in Levels,
           f = "rotation" => job[a].asks.rotation \in Degrees,
           NEW next, Tune(a, f, look, next),
           NEW x, x = Adding(next, {f}), JobOK(Plugged(bus), x)
    PROVE  Tunes(a, f, x)
<1> DEFINE fields == {f} \cup Losing(a, look)  values == Tuning(a, f, look)
           partial == {{}, {f}, fields}
<1>1. look \in Looks \cup {None} /\ ("look" \in job[a].sent => Losing(a, look) = {})
  BY LooksLeftShown
<1>2. MayShow(fields, values)
  <2>1. values.look = look /\ values[f] = job[a].asks[f]
    BY DEF Tuning
  <2>2. fields \subseteq {f, "look"}
    BY DEF Losing
  <2>3. fields \in SUBSET Fields
    BY <2>2, FieldNames
  <2> HIDE DEF fields, values
  <2> QED
    BY <1>1, <2>1, <2>2, <2>3 DEF MayShow
<1>3. partial \subseteq SUBSET fields
  OBVIOUS
<1>4. Request(a, fields, values, {f}, partial, next)
  BY DEF Tune, Losing, Tuning, At
<1>5. Step(a) \in {"apply", "brightness", "rotate", "fan"}
  OBVIOUS
<1> HIDE DEF fields, values, partial
<1>6. Asking(a, fields, values, {f}, x)
  BY <1>2, <1>3, <1>4, <1>5, Outcomes
<1> QED
  BY <1>1, <1>6 DEF Tunes, fields, values

Brightened(a) ==
    Having(a, [job[a].saved EXCEPT !.brightness = job[a].asks.brightness], {"brightness"},
           Rest(a))

LEMMA BrightnessDoes ==
    ASSUME Types, NEW a \in Actors, Brightness(a)
    PROVE  /\ ~Idle(a) /\ Step(a) = "brightness" /\ job[a].kind \in {"brightness", "several", "ui brightness"}
           /\ job[a].asks.brightness \in Levels
           /\ Tunes(a, "brightness", Brightened(a))
<1> DEFINE j == job[a]  s == [j.saved EXCEPT !.brightness = j.asks.brightness]
           next == Brighter(j, j.asks.brightness, Rest(a))
           fields == {"brightness"}  x == Brightened(a)
<1>1. Step(a) = "brightness" /\ ~Idle(a)
  BY Stepping DEF Brightness
<1>2. /\ JobOK(Plugged(bus), j) /\ Head(j.todo) = "brightness"
      /\ Proper(j.kind, Rest(a)) /\ Rest(a) # << >>
  BY <1>1, Doing
<1>3. j.saved \in State /\ j.kind \in JobKinds /\ j.asks \in Asks(j.kind)
  BY <1>2 DEF JobOK
<1>4. j.kind \in {"brightness", "several", "ui brightness"}
  BY <1>2, TailProper DEF JobOK, Takes
<1>5. j.asks.brightness \in Levels
  BY <1>3, <1>4, AskedValues
<1>6. s \in State
  BY <1>3, <1>5 DEF State
<1>7. PICK look \in LooksLeft(a) : Tune(a, "brightness", look, next)
  BY DEF Brightness, Brighter
<1>8. fields \in SUBSET Fields
  BY FieldNames
<1>9. next = Job(j, s, j.to, j.via, j.sent, Rest(a))
  BY ZenonT(60), <1>2, JobSets
<1>10. x = Having(a, s, fields, Rest(a))
  BY DEF Brightened
<1> HIDE DEF j, s, next, fields, x
<1>11. JobOK(Plugged(bus), x)
  BY <1>1, <1>2, <1>6, <1>8, <1>10, HavingOK DEF j
<1>12. x = Adding(next, fields)
  <2> DEFINE t == Rest(a)
  <2>1. x = Having(a, s, fields, t) /\ next = Job(j, s, j.to, j.via, j.sent, t)
    BY <1>9, <1>10
  <2> HIDE DEF t
  <2>2. Adding(next, fields) = Job(j, s, j.to, j.via, j.sent \cup fields, t)
    BY <2>1, JobSends
  <2> QED
    BY <2>1, <2>2 DEF Having, j
<1>13. /\ Step(a) \in {"brightness", "rotate"}
       /\ job[a].asks.brightness \in Levels
  BY <1>1, <1>5 DEF j
<1>14. Tunes(a, "brightness", x)
  BY <1>1, <1>7, <1>11, <1>12, <1>13, TuneDoes DEF fields
<1> QED
  BY <1>1, <1>4, <1>5, <1>14 DEF j, x

Rotated(a) ==
    Having(a, [job[a].saved EXCEPT !.rotation = job[a].asks.rotation], {"rotation"},
           Rest(a))

LEMMA RotateDoes ==
    ASSUME Types, NEW a \in Actors, Rotate(a)
    PROVE  /\ ~Idle(a) /\ Step(a) = "rotate" /\ job[a].kind \in {"rotate", "several", "ui layout"}
           /\ job[a].asks.rotation \in Degrees
           /\ Tunes(a, "rotation", Rotated(a))
<1> DEFINE j == job[a]  s == [j.saved EXCEPT !.rotation = j.asks.rotation]
           next == Turned(j, j.asks.rotation, Rest(a))
           fields == {"rotation"}  x == Rotated(a)
<1>1. Step(a) = "rotate" /\ ~Idle(a)
  BY Stepping DEF Rotate
<1>2. /\ JobOK(Plugged(bus), j) /\ Head(j.todo) = "rotate"
      /\ Proper(j.kind, Rest(a)) /\ Rest(a) # << >>
  BY <1>1, Doing
<1>3. j.saved \in State /\ j.kind \in JobKinds /\ j.asks \in Asks(j.kind)
  BY <1>2 DEF JobOK
<1>4. j.kind \in {"rotate", "several", "ui layout"}
  BY <1>2, TailProper DEF JobOK, Takes
<1>5. j.asks.rotation \in Degrees
  BY <1>3, <1>4, AskedValues
<1>6. s \in State
  BY <1>3, <1>5 DEF State
<1>7. PICK look \in LooksLeft(a) : Tune(a, "rotation", look, next)
  BY DEF Rotate, Turned
<1>8. fields \in SUBSET Fields
  BY FieldNames
<1>9. next = Job(j, s, j.to, j.via, j.sent, Rest(a))
  BY ZenonT(60), <1>2, JobSets
<1>10. x = Having(a, s, fields, Rest(a))
  BY DEF Rotated
<1> HIDE DEF j, s, next, fields, x
<1>11. JobOK(Plugged(bus), x)
  BY <1>1, <1>2, <1>6, <1>8, <1>10, HavingOK DEF j
<1>12. x = Adding(next, fields)
  <2> DEFINE t == Rest(a)
  <2>1. x = Having(a, s, fields, t) /\ next = Job(j, s, j.to, j.via, j.sent, t)
    BY <1>9, <1>10
  <2> HIDE DEF t
  <2>2. Adding(next, fields) = Job(j, s, j.to, j.via, j.sent \cup fields, t)
    BY <2>1, JobSends
  <2> QED
    BY <2>1, <2>2 DEF Having, j
<1>13. /\ Step(a) \in {"brightness", "rotate"}
       /\ job[a].asks.rotation \in Degrees
  BY <1>1, <1>5 DEF j
<1>14. Tunes(a, "rotation", x)
  BY <1>1, <1>7, <1>11, <1>12, <1>13, TuneDoes DEF fields
<1> QED
  BY <1>1, <1>4, <1>5, <1>14 DEF j, x

Speed(a) == IF job[a].kind = "restore" THEN job[a].saved.fan ELSE job[a].asks.fan
Fanned(a) == Having(a, job[a].saved, {"fan"}, Rest(a))

LEMMA FanDoes ==
    ASSUME Types, NEW a \in Actors, Fan(a)
    PROVE  /\ ~Idle(a) /\ Step(a) = "fan" /\ job[a].kind \in {"fan", "restore"}
           /\ \/ Asking(a, {"fan"}, [fan |-> Speed(a)], {"fan"}, Fanned(a))
              \/ /\ job[a].kind = "restore"
                 /\ Speed(a) = None \/ job[a].to.protocol # "legacy"
                 /\ job' = [job EXCEPT ![a] = [job[a] EXCEPT !.todo = Rest(a)]]
                 /\ UNCHANGED <<bus, daemon, file, temp, fd, display, ui, left, unsure>>
<1> DEFINE j == job[a]  next == [j EXCEPT !.todo = Rest(a)]  values == [fan |-> Speed(a)]
           fields == {"fan"}  partial == {{}, {"fan"}}  x == Fanned(a)
<1>1. Step(a) = "fan" /\ ~Idle(a)
  BY Stepping DEF Fan
<1>2. /\ JobOK(Plugged(bus), j) /\ Head(j.todo) = "fan"
      /\ Proper(j.kind, Rest(a)) /\ Rest(a) # << >>
  BY <1>1, Doing
<1>3. j.saved \in State /\ j.kind \in JobKinds /\ j.asks \in Asks(j.kind)
  BY <1>2 DEF JobOK
<1>4. j.kind \in {"fan", "restore"}
  <2>1. Proper(j.kind, j.todo) /\ j.todo # << >>
    BY <1>2 DEF JobOK
  <2>2. Takes(j.kind, "fan")
    BY <1>2, <2>1, TailProper
  <2> QED
    BY <2>2 DEF Takes
<1>5. Speed(a) \in Speeds \cup {None}
  BY <1>3, <1>4, AskedValues DEF Speed, State
<1>6. MayShow(fields, values) /\ partial \subseteq SUBSET fields /\ fields \in SUBSET Fields
  BY <1>5, FieldNames DEF MayShow
<1>7. CASE j.kind = "restore" /\ (Speed(a) = None \/ j.to.protocol # "legacy")
  BY <1>1, <1>4, <1>7 DEF Fan, Speed
<1>8. CASE ~(j.kind = "restore" /\ (Speed(a) = None \/ j.to.protocol # "legacy"))
  <2>1. Request(a, fields, values, fields, partial, next)
    BY <1>8 DEF Fan, Speed
  <2>2. next = Job(j, j.saved, j.to, j.via, j.sent, Rest(a))
    BY <1>2, JobTodo, Zenon
  <2> DEFINE s == j.saved
  <2>3. x = Having(a, s, fields, Rest(a)) /\ next = Job(j, s, j.to, j.via, j.sent, Rest(a))
    BY <2>2 DEF Fanned
  <2> HIDE DEF j, s, next, fields, values, partial, x
  <2>4. JobOK(Plugged(bus), x)
    BY <1>1, <1>2, <1>3, <1>6, <2>3, HavingOK DEF j, s
  <2>5. x = Adding(next, fields)
    BY <2>3, JobSends DEF Having, j
  <2>6. Step(a) \in {"apply", "brightness", "rotate", "fan"}
    BY <1>1
  <2>7. Asking(a, fields, values, fields, x)
    BY <1>6, <2>1, <2>4, <2>5, <2>6, Outcomes
  <2> QED
    BY <1>1, <1>4, <2>7 DEF j, fields, values, x
<1> QED
  BY <1>7, <1>8

LEMMA RequestsTypes ==
    ASSUME Types, NEW a \in Actors, Apply(a) \/ Brightness(a) \/ Rotate(a) \/ Fan(a)
    PROVE  Types'
<1>1. CASE Apply(a)
  BY <1>1, ApplyDoes, RequestTypes
<1>2. CASE Brightness(a)
  BY <1>2, BrightnessDoes, RequestTypes DEF Tunes
<1>3. CASE Rotate(a)
  BY <1>3, RotateDoes, RequestTypes DEF Tunes
<1>4. CASE Fan(a)
  <2>1. CASE Asking(a, {"fan"}, [fan |-> Speed(a)], {"fan"}, Fanned(a))
    BY <2>1, RequestTypes
  <2>2. CASE ~Asking(a, {"fan"}, [fan |-> Speed(a)], {"fan"}, Fanned(a))
    <3> DEFINE y == [job[a] EXCEPT !.todo = Rest(a)]
    <3>1. /\ ~Idle(a) /\ Step(a) = "fan" /\ job' = [job EXCEPT ![a] = y]
          /\ UNCHANGED <<bus, daemon, file, temp, fd, display, ui, left, unsure>>
      BY <1>4, <2>2, FanDoes
    <3>2. /\ JobOK(Plugged(bus), job[a]) /\ Proper(job[a].kind, Rest(a)) /\ Rest(a) # << >>
          /\ ~Has(job[a].todo, "connect")
      BY <3>1, Doing, Linked
    <3>3. JobOK(Plugged(bus), y)
      BY <3>2, Shorter
    <3> HIDE DEF y
    <3> QED
      BY <3>1, <3>3, Unchanged, StepTypes
  <2> QED
    BY <2>1, <2>2
<1> QED
  BY <1>1, <1>2, <1>3, <1>4

-----------------------------------------------------------------------------
(* The other steps.                                                        *)

\* What a request that is not answered leaves to do.
LEMMA UnansweredLeaves ==
    ASSUME Types, NEW a \in Actors, Unanswered(a) \/ SkipApply(a)
    PROVE  /\ ~Idle(a) /\ Step(a) \in {"apply", "brightness", "rotate", "fan"}
           /\ UNCHANGED <<bus, daemon, file, temp, display, ui, left>>
           /\ \/ job[a].kind = "restore" /\ GoOn(a, Rest(a))
              \/ job[a].kind # "restore" /\ GoOn(a, << >>)
           /\ Rest(a) # << >> /\ Proper(job[a].kind, Rest(a))
           /\ ~Has(job[a].todo, "connect")
<1>1. ~Idle(a) /\ Step(a) \in {"apply", "brightness", "rotate", "fan"}
  BY Stepping DEF Unanswered, SkipApply
<1>2. /\ UNCHANGED <<bus, daemon, file, temp, display, ui, left>>
      /\ \/ job[a].kind = "restore" /\ GoOn(a, Rest(a))
         \/ job[a].kind # "restore" /\ GoOn(a, << >>)
  BY DEF Unanswered, SkipApply
<1>3. Rest(a) # << >> /\ Proper(job[a].kind, Rest(a)) /\ ~Has(job[a].todo, "connect")
  BY <1>1, Doing, Linked
<1> QED
  BY <1>1, <1>2, <1>3

LEMMA UnansweredTypes ==
    ASSUME Types, NEW a \in Actors, Unanswered(a) \/ SkipApply(a)
    PROVE  Types'
<1>1. /\ ~Idle(a) /\ UNCHANGED <<bus, daemon, file, temp, display, ui, left>>
      /\ \E todo : /\ GoOn(a, todo)
                   /\ todo # << >> => /\ Proper(job[a].kind, todo)
                                      /\ ~Has(job[a].todo, "connect")
  BY UnansweredLeaves
<1>2. /\ job' = [b \in Actors |-> job'[b]]
      /\ \A b \in Actors : job'[b] = NoJob \/ JobOK(Plugged(bus), job'[b])
      /\ fd' \in [Actors -> {"none", "temp", "file"}]
      /\ unsure' \in [Plugged(bus) -> SUBSET Fields]
  BY <1>1, GoesOn
<1> QED
  BY <1>1, <1>2, Unchanged, JobsTypes

LEMMA LeftOverFiles ==
    ASSUME Types, NEW a
    PROVE  LeftOver(a) \in Files
BY DEF LeftOver, Types, Files

\* One step of a save, of a job that goes on.
LEMMA SaveStepDoes ==
    ASSUME Types, NEW a \in Actors,
           Step(a) \in {"open", "write", "rename"} \cup DaemonStep, Rest(a) # << >>
    PROVE  /\ ~Idle(a) /\ JobOK(Plugged(bus), job[a]) /\ ~Has(job[a].todo, "connect")
           /\ job[a].to \in Links(Plugged(bus)) /\ job[a].saved \in State
           /\ JobOK(Plugged(bus), [job[a] EXCEPT !.todo = Rest(a)])
           /\ [job[a] EXCEPT !.todo = Rest(a)]
                = Job(job[a], job[a].saved, job[a].to, job[a].via, job[a].sent, Rest(a))
<1>1. ~Idle(a) /\ Step(a) \notin {"load", "connect"}
  BY Stepping DEF DaemonStep
<1>2. /\ JobOK(Plugged(bus), job[a]) /\ Proper(job[a].kind, Rest(a))
      /\ ~Has(job[a].todo, "connect") /\ job[a].to \in Links(Plugged(bus))
  BY <1>1, Doing, Linked
<1>3. job[a].saved \in State
  BY <1>2 DEF JobOK
<1> QED
  BY <1>1, <1>2, <1>3, Shorter

LEMMA OpenTempTypes ==
    ASSUME Types, NEW a \in Actors, OpenTemp(a)
    PROVE  Types'
<1> DEFINE x == [job[a] EXCEPT !.todo = Rest(a)]
<1>1. /\ Step(a) \in {"open", "daemon open"} /\ job' = [job EXCEPT ![a] = x]
      /\ temp' = Torn /\ fd' = [fd EXCEPT ![a] = "temp"]
      /\ UNCHANGED <<bus, daemon, file, display, ui, left, unsure>>
  BY DEF OpenTemp
<1>2. Step(a) \in {"open", "write", "rename"} \cup DaemonStep /\ Rest(a) # << >>
  BY <1>1, Stepping, Doing DEF DaemonStep
<1>3. JobOK(Plugged(bus), x)
  BY <1>2, SaveStepDoes
<1> HIDE DEF x
<1>4. temp' \in Files /\ fd' \in [Actors -> {"none", "temp", "file"}]
  BY <1>1 DEF Types, Files
<1> QED
  BY <1>1, <1>3, <1>4, Unchanged, StepTypes

LEMMA WriteTempTypes ==
    ASSUME Types, NEW a \in Actors, WriteTemp(a)
    PROVE  Types'
<1> DEFINE x == [job[a] EXCEPT !.todo = Rest(a)]
<1>1. /\ Step(a) \in {"write", "daemon write"} /\ job' = [job EXCEPT ![a] = x]
      /\ fd' = [fd EXCEPT ![a] = "none"]
      /\ UNCHANGED <<bus, daemon, display, ui, left, unsure>>
  BY DEF WriteTemp
<1>2. Step(a) \in {"open", "write", "rename"} \cup DaemonStep /\ Rest(a) # << >>
  BY <1>1, Stepping, Doing DEF DaemonStep
<1>3. JobOK(Plugged(bus), x) /\ job[a].saved \in State
  BY <1>2, SaveStepDoes
<1> HIDE DEF x
<1>4. PICK bytes \in {job[a].saved, Torn} :
        /\ temp' = IF fd[a] = "temp" THEN bytes ELSE temp
        /\ file' = IF fd[a] = "file" THEN bytes ELSE file
  BY DEF WriteTemp
<1>5. temp' \in Files /\ file' \in Files
  BY <1>3, <1>4 DEF Types, Files
<1>6. fd' \in [Actors -> {"none", "temp", "file"}]
  BY <1>1 DEF Types
<1> QED
  BY <1>1, <1>3, <1>5, <1>6, Unchanged, StepTypes

\* What a rename does to the descriptors and to what is unsure.
LEMMA RenameDoes ==
    ASSUME Types, NEW a \in Actors, Rename(a)
    PROVE  /\ ~Idle(a) /\ Step(a) \in {"rename", "daemon rename"} /\ temp # NoFile
           /\ file' = temp /\ temp' = NoFile
           /\ UNCHANGED <<bus, daemon, display, ui, left>>
           /\ fd' = [b \in Actors |-> IF fd[b] = "temp" THEN "file" ELSE "none"]
           /\ \A d \in Plugged(bus) \ {job[a].to.at} :
                unsure'[d] = IF load(file') # load(file) THEN Fields ELSE unsure[d]
           /\ unsure'[job[a].to.at] =
                IF Rest(a) # << >> THEN unsure[job[a].to.at]
                ELSE unsure[job[a].to.at] \ job[a].sent
           /\ unsure' \in [Plugged(bus) -> SUBSET Fields]
           /\ job[a].to.at \in Plugged(bus)
           /\ \/ /\ Rest(a) # << >>
                 /\ job' = [job EXCEPT ![a] = [job[a] EXCEPT !.todo = Rest(a)]]
              \/ Rest(a) = << >> /\ job' = [job EXCEPT ![a] = NoJob]
<1>1. ~Idle(a) /\ Step(a) \in {"rename", "daemon rename"}
  BY Stepping DEF Rename
<1>2. job[a].to.at \in Plugged(bus)
  BY <1>1, Linked
<1> DEFINE at == job[a].to.at
           others == [d \in Plugged(bus) |->
                        IF d # at /\ load(file') # load(file) THEN Fields ELSE unsure[d]]
<1>3. /\ temp # NoFile /\ file' = temp /\ temp' = NoFile
      /\ UNCHANGED <<bus, daemon, display, ui, left>>
      /\ fd' = [b \in Actors |-> IF fd[b] = "temp" THEN "file" ELSE "none"]
      /\ \/ /\ Rest(a) # << >> /\ unsure' = others
            /\ job' = [job EXCEPT ![a] = [job[a] EXCEPT !.todo = Rest(a)]]
         \/ /\ Rest(a) = << >> /\ job' = [job EXCEPT ![a] = NoJob]
            /\ unsure' = [d \in Plugged(bus) |->
                            IF d = at THEN unsure[d] \ job[a].sent ELSE others[d]]
  BY DEF Rename
<1>4. \A d \in Plugged(bus) : unsure[d] \in SUBSET Fields
  BY DEF Types
<1>5. unsure' \in [Plugged(bus) -> SUBSET Fields]
  BY <1>3, <1>4
<1> HIDE DEF at
<1>6. \A d \in Plugged(bus) \ {at} :
        unsure'[d] = IF load(file') # load(file) THEN Fields ELSE unsure[d]
  BY <1>3
<1>7. at \in Plugged(bus) =>
        unsure'[at] = IF Rest(a) # << >> THEN unsure[at] ELSE unsure[at] \ job[a].sent
  BY <1>3
<1> QED
  BY <1>1, <1>2, <1>3, <1>5, <1>6, <1>7 DEF at

LEMMA RenameTypes ==
    ASSUME Types, NEW a \in Actors, Rename(a)
    PROVE  Types'
<1>1. /\ Step(a) \in {"rename", "daemon rename"}
      /\ file' = temp /\ temp' = NoFile
      /\ UNCHANGED <<bus, daemon, display, ui, left>>
      /\ unsure' \in [Plugged(bus) -> SUBSET Fields]
      /\ fd' = [b \in Actors |-> IF fd[b] = "temp" THEN "file" ELSE "none"]
  BY RenameDoes
<1>2. file' \in Files /\ temp' \in Files /\ fd' \in [Actors -> {"none", "temp", "file"}]
  BY <1>1 DEF Files, Types
<1>3. CASE Rest(a) # << >>
  <2> DEFINE x == [job[a] EXCEPT !.todo = Rest(a)]
  <2>1. job' = [job EXCEPT ![a] = x]
    BY <1>3, RenameDoes
  <2>2. Step(a) \in {"open", "write", "rename"} \cup DaemonStep
    BY <1>1 DEF DaemonStep
  <2>3. JobOK(Plugged(bus), x)
    BY <1>3, <2>2, SaveStepDoes
  <2> HIDE DEF x
  <2> QED
    BY <1>1, <1>2, <2>1, <2>3, Unchanged, StepTypes
<1>4. CASE Rest(a) = << >>
  <2>1. job' = [job EXCEPT ![a] = NoJob]
    BY <1>4, RenameDoes
  <2> QED
    BY <1>1, <1>2, <2>1, Unchanged, StepTypes
<1> QED
  BY <1>3, <1>4

\* A save that fails ends the daemon's part, or the job.
LEMMA SaveFailsLeaves ==
    ASSUME Types, NEW a \in Actors, SaveFails(a)
    PROVE  /\ ~Idle(a) /\ UNCHANGED <<bus, daemon, file, display, ui, left>>
           /\ Step(a) \in {"open", "write", "rename"} \cup DaemonStep
           /\ temp' = LeftOver(a)
           /\ \E todo :
                /\ GoOn(a, todo)
                /\ todo # << >> => /\ Proper(job[a].kind, todo)
                                   /\ \A s : Has(todo, s) => Has(job[a].todo, s)
                                   /\ Head(todo) \notin {"write", "rename"} \cup DaemonStep
           /\ ~Has(job[a].todo, "connect")
<1>1. ~Idle(a) /\ Step(a) \in {"open", "write", "rename"} \cup DaemonStep
  BY Stepping DEF SaveFails, DaemonStep
<1>2. Step(a) \notin {"load", "connect"}
  BY <1>1 DEF DaemonStep
<1>3. /\ Proper(job[a].kind, job[a].todo) /\ job[a].todo # << >>
      /\ Step(a) = Head(job[a].todo) /\ ~Has(job[a].todo, "connect")
  BY <1>1, <1>2, Doing, Linked DEF JobOK
<1>4. UNCHANGED <<bus, daemon, file, display, ui, left>> /\ temp' = LeftOver(a)
  BY DEF SaveFails
<1>5. CASE Step(a) \in DaemonStep
  <2> DEFINE n == Remaining(Step(a))  todo == After(job[a].todo, n)
  <2>1. n \in 1..Len(job[a].todo) /\ FirstAreDaemon(job[a].todo, n)
    BY <1>3, <1>5, DaemonPart
  <2>2. DaemonLeft(a) = n
    BY DEF DaemonLeft, Remaining
  <2>3. GoOn(a, todo)
    BY <1>5, <2>2 DEF SaveFails, After
  <2> HIDE DEF n
  <2>5. todo # << >> => /\ Proper(job[a].kind, todo)
                        /\ \A s : Has(todo, s) => Has(job[a].todo, s)
                        /\ Head(todo) \notin {"write", "rename"} \cup DaemonStep
    BY <1>3, <2>1, SuffixSteps
  <2> HIDE DEF todo
  <2> QED
    BY <1>1, <1>3, <1>4, <2>3, <2>5
<1>6. CASE Step(a) \notin DaemonStep
  <2>1. GoOn(a, << >>)
    BY <1>6 DEF SaveFails
  <2> QED
    BY <1>1, <1>3, <1>4, <2>1
<1> QED
  BY <1>5, <1>6

\* What outlives a process is the daemon's part.
LEMMA DieLeaves ==
    ASSUME Types, NEW a \in Actors, Die(a)
    PROVE  /\ ~Idle(a) /\ UNCHANGED <<bus, file, display, ui, left>>
           /\ daemon' \in {daemon, Refused}
           /\ temp' = IF Step(a) \in DaemonStep THEN temp ELSE LeftOver(a)
           /\ \E todo :
                /\ GoOn(a, todo)
                /\ Step(a) \notin DaemonStep => todo = << >>
                /\ todo # << >> => /\ Proper(job[a].kind, todo)
                                   /\ \A s : Has(todo, s) => Has(job[a].todo, s)
                                   /\ Head(todo) = Step(a)
                                   /\ ~Has(job[a].todo, "connect")
<1>1. ~Idle(a) /\ UNCHANGED <<bus, file, display, ui, left>> /\ daemon' \in {daemon, Refused}
      /\ temp' = IF Step(a) \in DaemonStep THEN temp ELSE LeftOver(a)
  BY DEF Die
<1>2. /\ Proper(job[a].kind, job[a].todo) /\ job[a].todo # << >>
      /\ Step(a) = Head(job[a].todo)
  BY <1>1, Doing DEF JobOK
<1> DEFINE n == Remaining(Step(a))  todo == SubSeq(job[a].todo, 1, n)
<1>3. DaemonLeft(a) = n
  BY DEF DaemonLeft, Remaining
<1>4. GoOn(a, todo)
  BY <1>3 DEF Die
<1>5. CASE Step(a) \in DaemonStep
  <2>1. n \in 1..Len(job[a].todo) /\ FirstAreDaemon(job[a].todo, n)
    BY <1>2, <1>5, DaemonPart
  <2> HIDE DEF n
  <2>2. /\ Proper(job[a].kind, todo) /\ Head(todo) = Step(a)
        /\ \A s : Has(todo, s) => Has(job[a].todo, s)
    BY <1>2, <2>1, PrefixProper
  <2>3. ~Has(job[a].todo, "connect")
    <3>1. Step(a) \notin {"load", "connect"}
      BY <1>5 DEF DaemonStep
    <3> QED
      BY <1>1, <3>1, Linked
  <2> HIDE DEF todo
  <2> QED
    BY <1>1, <1>4, <1>5, <2>2, <2>3
<1>6. CASE Step(a) \notin DaemonStep
  <2>1. n = 0
    BY <1>6 DEF Remaining, DaemonStep
  <2>2. todo = << >>
    <3>1. SubSeq(job[a].todo, 1, 0) = << >>
      <4> DEFINE m == 1  k == 0
      <4>1. m \in Int /\ k \in Int /\ \A i \in m..k : job[a].todo[i] \in Steps
        OBVIOUS
      <4>2. ~(m <= k)
        OBVIOUS
      <4> HIDE DEF m, k
      <4>3. SubSeq(job[a].todo, m, k) \in Seq(Steps) /\ Len(SubSeq(job[a].todo, m, k)) = 0
        BY <4>1, <4>2, SubSeqProperties
      <4>4. SubSeq(job[a].todo, m, k) = << >>
        BY <4>3, EmptySeq
      <4> QED
        BY <4>4 DEF m, k
    <3> QED
      BY <2>1, <3>1
  <2> HIDE DEF todo
  <2> QED
    BY <1>1, <1>4, <1>6, <2>2
<1> QED
  BY <1>5, <1>6

LEMMA SaveFailsTypes ==
    ASSUME Types, NEW a \in Actors, SaveFails(a)
    PROVE  Types'
<1>1. /\ ~Idle(a) /\ UNCHANGED <<bus, daemon, file, display, ui, left>>
      /\ temp' \in Files
      /\ \E todo : /\ GoOn(a, todo)
                   /\ todo # << >> => /\ Proper(job[a].kind, todo)
                                      /\ ~Has(job[a].todo, "connect")
  BY SaveFailsLeaves, LeftOverFiles
<1>2. /\ job' = [b \in Actors |-> job'[b]]
      /\ \A b \in Actors : job'[b] = NoJob \/ JobOK(Plugged(bus), job'[b])
      /\ fd' \in [Actors -> {"none", "temp", "file"}]
      /\ unsure' \in [Plugged(bus) -> SUBSET Fields]
  BY <1>1, GoesOn
<1> QED
  BY <1>1, <1>2, Unchanged, JobsTypes

LEMMA DieTypes ==
    ASSUME Types, NEW a \in Actors, Die(a)
    PROVE  Types'
<1>1. /\ ~Idle(a) /\ UNCHANGED <<bus, file, display, ui, left>>
      /\ temp' \in Files /\ daemon' \in Links(Plugged(bus)) \cup {Refused}
      /\ \E todo : /\ GoOn(a, todo)
                   /\ todo # << >> => /\ Proper(job[a].kind, todo)
                                      /\ ~Has(job[a].todo, "connect")
  BY DieLeaves, LeftOverFiles, Unchanged
<1>2. /\ job' = [b \in Actors |-> job'[b]]
      /\ \A b \in Actors : job'[b] = NoJob \/ JobOK(Plugged(bus), job'[b])
      /\ fd' \in [Actors -> {"none", "temp", "file"}]
      /\ unsure' \in [Plugged(bus) -> SUBSET Fields]
  BY <1>1, GoesOn
<1> QED
  BY <1>1, <1>2, Unchanged, JobsTypes

LEMMA DaemonDiesTypes ==
    ASSUME Types, DaemonDies
    PROVE  Types'
<1>1. daemon' = Refused /\ UNCHANGED <<bus, file, display, ui, left>>
  BY DEF DaemonDies
<1>2. CASE \E a \in Actors : Step(a) \in DaemonStep
  <2>1. PICK a \in Actors : /\ Step(a) \in DaemonStep /\ Over(a, FALSE)
                            /\ temp' = LeftOver(a)
    BY <1>2 DEF DaemonDies
  <2>2. ~Idle(a)
    BY <2>1, Stepping DEF DaemonStep
  <2>3. /\ job' = [job EXCEPT ![a] = NoJob]
        /\ fd' \in [Actors -> {"none", "temp", "file"}]
        /\ unsure' \in [Plugged(bus) -> SUBSET Fields] /\ temp' \in Files
    BY <2>1, <2>2, IsOver, LeftOverFiles
  <2> QED
    BY <1>1, <2>3, Unchanged, StepTypes
<1>3. CASE ~\E a \in Actors : Step(a) \in DaemonStep
  <2>1. UNCHANGED <<job, fd, unsure, temp>>
    BY <1>3 DEF DaemonDies
  <2> QED
    BY <1>1, <2>1, Unchanged, JobsTypes DEF Types
<1> QED
  BY <1>2, <1>3

\* A job forgets what it sent to a display that has lost it.
LEMMA UnsentOK ==
    ASSUME NEW plugged, NEW j, JobOK(plugged, j)
    PROVE  /\ JobOK(plugged, [j EXCEPT !.sent = {}])
           /\ [j EXCEPT !.sent = {}] = Job(j, j.saved, j.to, j.via, {}, j.todo)
<1>1. [j EXCEPT !.sent = {}] = Job(j, j.saved, j.to, j.via, {}, j.todo)
  BY JobUnsent, Zenon
<1>2. /\ j.saved \in State /\ j.to \in Links(plugged) \cup {Refused}
      /\ j.via \in {"direct", "daemon"} /\ {} \in SUBSET Fields
      /\ j.to = Refused => Has(j.todo, "connect") /\ j.kind # "restore"
      /\ j.to # Refused => Named(j.aim, j.to)
      /\ Proper(j.kind, j.todo) /\ j.todo # << >>
  BY DEF JobOK
<1>3. JobOK(plugged, Job(j, j.saved, j.to, j.via, {}, j.todo))
  BY <1>2, JobIs
<1> QED
  BY <1>1, <1>3

LEMMA PowerCycleTypes ==
    ASSUME Types, NEW d \in Plugged(bus), PowerCycle(d)
    PROVE  Types'
<1>1. /\ display' = [display EXCEPT ![d] = Factory]
      /\ unsure' = [unsure EXCEPT ![d] = Fields]
      /\ job' = [a \in Actors |-> IF ~Idle(a) /\ job[a].to.at = d
                                  THEN [job[a] EXCEPT !.sent = {}] ELSE job[a]]
      /\ UNCHANGED <<bus, daemon, file, temp, fd, ui, left>>
  BY DEF PowerCycle
<1>2. display' \in [Plugged(bus) -> Shown] /\ unsure' \in [Plugged(bus) -> SUBSET Fields]
  <2>1. Factory \in Shown
    BY DEF Factory, Shown
  <2> QED
    BY <1>1, <2>1 DEF Types
<1>3. ASSUME NEW b \in Actors PROVE job'[b] = NoJob \/ JobOK(Plugged(bus), job'[b])
  <2>1. CASE ~Idle(b) /\ job[b].to.at = d
    <3>1. JobOK(Plugged(bus), [job[b] EXCEPT !.sent = {}])
      BY <2>1, Doing, UnsentOK
    <3>2. job'[b] = [job[b] EXCEPT !.sent = {}]
      BY <1>1, <2>1
    <3> QED
      BY <3>1, <3>2
  <2>2. CASE ~(~Idle(b) /\ job[b].to.at = d)
    <3>1. job'[b] = job[b]
      BY <1>1, <2>2
    <3> QED
      BY <3>1 DEF Types
  <2> QED
    BY <2>1, <2>2
<1>4. job' = [b \in Actors |-> job'[b]]
  BY <1>1
<1> QED
  BY <1>1, <1>2, <1>3, <1>4, Unchanged, JobsTypes

LEMMA StutterTypes == Types /\ UNCHANGED vars => Types'
BY DEF Types, vars

LEMMA NextTypes == Types /\ [Next]_vars => Types'
<1> SUFFICES ASSUME Types, Next PROVE Types'
  BY StutterTypes
<1>1. ASSUME NEW a \in Actors, NEW kind \in Kinds, NEW aim \in Aims, NEW asks \in Asks(kind),
             Command(a, kind, aim, asks)
      PROVE  Types'
  BY <1>1, CommandTypes
<1>2. ASSUME NEW a \in Actors, NEW aim \in Aims, Restore(a, aim) PROVE Types'
  BY <1>2, RestoreTypes
<1>3. ASSUME NEW a \in Actors, NEW kind \in Kinds, NEW asks \in Asks(kind),
             Interface(a, kind, asks)
      PROVE  Types'
  BY <1>3, InterfaceTypes
<1>4. ASSUME NEW a \in Actors, Load(a) \/ Connect(a) \/ Unanswered(a) \/ SkipApply(a)
      PROVE  Types'
  BY <1>4, LoadTypes, ConnectTypes, UnansweredTypes
<1>5. ASSUME NEW a \in Actors, Apply(a) \/ Brightness(a) \/ Rotate(a) \/ Fan(a)
      PROVE  Types'
  BY <1>5, RequestsTypes
<1>6. ASSUME NEW a \in Actors,
             OpenTemp(a) \/ WriteTemp(a) \/ Rename(a) \/ SaveFails(a) \/ Die(a)
      PROVE  Types'
  BY <1>6, OpenTempTypes, WriteTempTypes, RenameTypes, SaveFailsTypes, DieTypes
<1>7. CASE OpenInterface \/ \E look \in Looks : EditInterface(look)
  BY <1>7, OpenInterfaceTypes, EditInterfaceTypes
<1>8. CASE DaemonDies
  BY <1>8, DaemonDiesTypes
<1>9. ASSUME NEW d \in Plugged(bus), PowerCycle(d) PROVE Types'
  BY <1>9, PowerCycleTypes
<1> QED
  BY <1>1, <1>2, <1>3, <1>4, <1>5, <1>6, <1>7, <1>8, <1>9 DEF Next

-----------------------------------------------------------------------------
(* Theorems of any number of processes.                                    *)

\* The types, with the display, the screen and the steps of every job.
THEOREM TypesHold == Spec => []Types
<1>1. Init => Types
  BY InitTypes
<1>2. Types /\ [Next]_vars => Types'
  BY NextTypes
<1> QED
  BY <1>1, <1>2, PTL DEF Spec

\* Every variable keeps its type, whatever runs together, fails or dies.
THEOREM TypeCorrect == Spec => []TypeOK
<1>1. Types => TypeOK
  <2> SUFFICES ASSUME Types PROVE TypeOK
    OBVIOUS
  <2>1. Plugged(bus) \subseteq Places
    BY BusesAssumption DEF Types, Plugged
  <2>2. Links(Plugged(bus)) \subseteq {Chosen(p, d) : p \in {"legacy", "kanali"}, d \in Places}
    BY <2>1 DEF Links
  <2> QED
    BY <2>2 DEF Types, TypeOK, Files
<1> QED
  BY <1>1, TypesHold, PTL

\* A request reaches the display that its job names.
NamedOnly ==
    \A d \in Plugged(bus) :
        display'[d] \notin {display[d], Factory} =>
            \E a \in Actors :
                /\ ~Idle(a) /\ job[a].to.at = d
                /\ {job[a].aim.tty, job[a].aim.device} \subseteq {None, d}

LEMMA RequestNamed ==
    ASSUME Types, NEW a \in Actors, NEW fields, NEW values, NEW claims, NEW x,
           Asking(a, fields, values, claims, x)
    PROVE  NamedOnly
<1>1. ~Idle(a) /\ Step(a) \notin {"load", "connect"}
  BY DEF Asking
<1>2. JobOK(Plugged(bus), job[a]) /\ job[a].to # Refused
  BY <1>1, Doing, Linked
<1>3. Named(job[a].aim, job[a].to)
  BY <1>2 DEF JobOK
<1>4. \E shown : display' = [display EXCEPT ![At(a)] = shown]
  BY DEF Asking, Answered, Missed, Failed
<1>5. ASSUME NEW d \in Plugged(bus), d # At(a) PROVE display'[d] = display[d]
  BY <1>4, <1>5 DEF Types
<1> QED
  BY <1>1, <1>3, <1>5 DEF NamedOnly, Named, At

LEMMA Untouched == UNCHANGED display => NamedOnly
BY DEF NamedOnly

LEMMA NextNamed == Types /\ [Next]_vars => NamedOnly
<1> SUFFICES ASSUME Types, [Next]_vars PROVE NamedOnly
  OBVIOUS
<1>1. CASE UNCHANGED vars
  BY <1>1, Untouched DEF vars
<1>2. ASSUME NEW a \in Actors,
             \/ \E kind \in Kinds, aim \in Aims : \E asks \in Asks(kind) :
                    Command(a, kind, aim, asks)
             \/ \E aim \in Aims : Restore(a, aim)
             \/ \E kind \in Kinds : \E asks \in Asks(kind) : Interface(a, kind, asks)
             \/ Load(a) \/ Connect(a) \/ Unanswered(a) \/ SkipApply(a)
             \/ OpenTemp(a) \/ WriteTemp(a) \/ Rename(a) \/ SaveFails(a) \/ Die(a)
      PROVE  NamedOnly
  <2>1. UNCHANGED display
    BY <1>2 DEF Command, Restore, Interface, Load, Connect, Unanswered, SkipApply, OpenTemp,
                WriteTemp, Rename, SaveFails, Die
  <2> QED
    BY <2>1, Untouched
<1>3. CASE OpenInterface \/ (\E look \in Looks : EditInterface(look)) \/ DaemonDies
  BY <1>3, Untouched DEF OpenInterface, EditInterface, DaemonDies
<1>4. ASSUME NEW a \in Actors, Apply(a) \/ Brightness(a) \/ Rotate(a) PROVE NamedOnly
  BY <1>4, ApplyDoes, BrightnessDoes, RotateDoes, RequestNamed DEF Tunes
<1>5. ASSUME NEW a \in Actors, Fan(a) PROVE NamedOnly
  BY <1>5, FanDoes, RequestNamed, Untouched
<1>6. ASSUME NEW d \in Plugged(bus), PowerCycle(d) PROVE NamedOnly
  <2>1. \A e \in Plugged(bus) : display'[e] \in {display[e], Factory}
    BY <1>6 DEF PowerCycle, Types
  <2> QED
    BY <2>1 DEF NamedOnly
<1> QED
  BY <1>1, <1>2, <1>3, <1>4, <1>5, <1>6 DEF Next

\* A command that names a display changes that one or none, whatever the daemon
\* holds and whatever else runs.  (legacy.rs, daemon_owns_target.)
THEOREM OnTheNamedDisplay == Spec => ActsOnNamed
<1>1. Types /\ [Next]_vars => NamedOnly
  BY NextNamed
<1>2. Spec => [][NamedOnly]_vars
  BY <1>1, TypesHold, PTL DEF Spec
<1> QED
  BY <1>2, PTL DEF ActsOnNamed, NamedOnly

-----------------------------------------------------------------------------
(* One job at a time.  First, what the lemmas on each step have in common. *)

\* The step after this one.
LEMMA NextOf ==
    ASSUME Types, NEW a \in Actors, ~Idle(a)
    PROVE  /\ \A s : Has(job[a].todo, s) <=> s = Step(a) \/ Has(Rest(a), s)
           /\ \A s : Has(Rest(a), s) => Before(job[a].kind, Step(a), s)
           /\ Takes(job[a].kind, Step(a))
           /\ Rest(a) # << >> => MayFollow(job[a].kind, Step(a), Head(Rest(a)))
           /\ Rest(a) # << >> => Head(Rest(a)) \in Steps
<1> DEFINE kind == job[a].kind  todo == job[a].todo
<1>1. /\ Proper(kind, todo) /\ todo # << >> /\ Step(a) = Head(todo) /\ Rest(a) = Tail(todo)
      /\ Proper(kind, Rest(a))
  BY Doing DEF JobOK
<1> HIDE DEF kind, todo
<1>2. /\ \A s : Has(todo, s) <=> s = Step(a) \/ Has(Rest(a), s)
      /\ \A s : Has(Rest(a), s) => Before(kind, Step(a), s)
      /\ Takes(kind, Step(a)) /\ Followed(kind, todo, 1) /\ todo[1] = Step(a)
      /\ Len(todo) \in Nat \ {0} /\ (Rest(a) = << >> <=> Len(todo) = 1)
      /\ Rest(a) # << >> => Head(Rest(a)) = todo[2]
  <2>1. /\ \A s : Has(todo, s) <=> s = Head(todo) \/ Has(Tail(todo), s)
        /\ \A s : Has(Tail(todo), s) => Before(kind, Head(todo), s)
        /\ Takes(kind, Head(todo)) /\ Followed(kind, todo, 1) /\ Head(todo) = todo[1]
        /\ Len(todo) \in Nat \ {0} /\ (Tail(todo) = << >> <=> Len(todo) = 1)
        /\ Tail(todo) # << >> => Head(Tail(todo)) = todo[2]
    BY <1>1, TailProper
  <2> QED
    BY <1>1, <2>1
<1>3. ASSUME Rest(a) # << >> PROVE MayFollow(kind, Step(a), Head(Rest(a)))
  <2>1. NextStep(todo, 1) = todo[2]
    <3>1. 1 < Len(todo)
      BY <1>2, <1>3
    <3> QED
      BY <3>1 DEF NextStep
  <2> QED
    BY <1>2, <1>3, <2>1 DEF Followed
<1>4. ASSUME Rest(a) # << >> PROVE Head(Rest(a)) \in Steps
  BY <1>1, <1>4, TailProper
<1> QED
  BY <1>2, <1>3, <1>4 DEF kind, todo

\* What the steps that come late say of those to come.
LEMMA Late ==
    ASSUME Types, NEW a \in Actors, ~Idle(a)
    PROVE  /\ Step(a) \in {"open", "write", "rename"} \cup DaemonStep =>
                ~Has(job[a].todo, "load") /\ ~Has(job[a].todo, "apply")
           /\ Step(a) = "apply" => ~Has(job[a].todo, "load")
           /\ Step(a) = "load" => ~Has(Rest(a), "load")
           /\ Step(a) \notin {"open", "write", "daemon open", "daemon write"} /\ Rest(a) # << >> =>
                Head(Rest(a)) \notin {"write", "daemon write", "rename", "daemon rename"}
           /\ Step(a) = "open" => Head(Rest(a)) = "write"
           /\ Step(a) = "write" => Head(Rest(a)) = "rename"
           /\ Step(a) = "daemon open" => Head(Rest(a)) = "daemon write"
           /\ Step(a) = "daemon write" => Head(Rest(a)) = "daemon rename"
<1>1. Step(a) \notin {"rename", "daemon rename"} => Rest(a) # << >>
  BY Doing
<1>2. ASSUME Step(a) \in {"open", "write", "rename"} \cup DaemonStep
      PROVE  ~Has(job[a].todo, "load") /\ ~Has(job[a].todo, "apply")
  BY <1>2, NextOf DEF Before, DaemonStep
<1>3. Step(a) = "apply" => ~Has(job[a].todo, "load")
  BY NextOf DEF Before
<1>4. Step(a) = "load" => ~Has(Rest(a), "load")
  BY NextOf DEF Before
<1>5. ASSUME Rest(a) # << >> PROVE MayFollow(job[a].kind, Step(a), Head(Rest(a)))
  BY <1>5, NextOf
<1> QED
  BY <1>1, <1>2, <1>3, <1>4, <1>5 DEF MayFollow

\* A job that loads and is asked one setting has sent it before it loads.
LEMMA AskedBefore ==
    ASSUME NEW kind \in LoadsAfter, NEW todo, Proper(kind, todo), todo # << >>,
           Head(todo) = "load"
    PROVE  ~Has(todo, Asked(kind))
<1>1. /\ todo \in Seq(Steps) /\ Len(todo) \in Nat \ {0} /\ todo[1] = "load"
  BY TailProper DEF Proper
<1>2. ASSUME NEW i \in 1..Len(todo), todo[i] = Asked(kind) PROVE FALSE
  <2>1. i # 1
    BY <1>1, <1>2 DEF Asked
  <2>2. NextStep(todo, i) = "load"
    <3>1. MayFollow(kind, todo[i], NextStep(todo, i))
      BY DEF Proper, Followed
    <3> QED
      BY <1>2, <3>1 DEF MayFollow, Asked, LoadsAfter
  <2>3. i < Len(todo)
    BY <2>2 DEF NextStep
  <2>4. todo[i + 1] = "load"
    BY <2>2, <2>3 DEF NextStep
  <2>5. 1 \in 1..Len(todo) /\ i + 1 \in 1..Len(todo) /\ 1 < i + 1
    BY <1>1, <2>3
  <2>6. Before(kind, todo[1], todo[i + 1])
    BY <2>5 DEF Proper
  <2> QED
    BY <1>1, <2>4, <2>6 DEF Before
<1> QED
  BY <1>2 DEF Has

\* What a step leaves of the actor that takes it.
LEMMA StillBusy ==
    ASSUME NEW a \in Actors, NEW plugged, NEW x, JobOK(plugged, x), job'[a] = x
    PROVE  ~Idle(a)' /\ Step(a)' = Head(x.todo)
<1>1. x.kind # "none"
  BY DEF JobOK, JobKinds, UiKinds
<1> QED
  BY <1>1 DEF Idle, Step

LEMMA NowIdle ==
    ASSUME NEW a \in Actors, job'[a] = NoJob
    PROVE  Idle(a)' /\ Step(a)' = "none"
BY DEF Idle, Step, NoJob

LEMMA StillQuiet ==
    ASSUME Types, NEW a \in Actors, Quiet, ~Idle(a)' \/ fd'[a] = "none",
           \A b \in Actors \ {a} : job'[b] = job[b] /\ (fd[b] = "none" => fd'[b] = "none")
    PROVE  Quiet'
BY DEF Quiet, Idle

\* A job is over with a file and displays as they were: what it has sent is
\* unsure.
LEMMA OverAlone ==
    ASSUME Types, NEW a \in Actors, ~Idle(a), Alone(a), Over(a, FALSE),
           UNCHANGED <<bus, file, display>>
    PROVE  Alone(a)'
<1>1. /\ job' = [job EXCEPT ![a] = NoJob] /\ fd' = [fd EXCEPT ![a] = "none"]
      /\ unsure' = [d \in Plugged(bus) |->
            IF d = job[a].to.at THEN unsure[d] \cup job[a].sent ELSE unsure[d]]
  <2>1. /\ job' = [job EXCEPT ![a] = NoJob] /\ fd' = [fd EXCEPT ![a] = "none"]
        /\ unsure' = [d \in Plugged(bus) |->
                IF d = job[a].to.at
                THEN IF FALSE THEN unsure[d] \ job[a].sent ELSE unsure[d] \cup job[a].sent
                ELSE unsure[d]]
    BY IsOver, Zenon
  <2> QED
    BY <2>1
<1>2. job'[a] = NoJob /\ \A b \in Actors \ {a} : job'[b] = job[b]
  BY <1>1, OneJob
<1>3. Idle(a)' /\ Step(a)' = "none"
  BY <1>2, NowIdle
<1>4. Quiet'
  BY <1>1, <1>2, StillQuiet DEF Alone, Types
<1>5. FileTold(a)'
  <2>1. ASSUME NEW d \in Plugged(bus), NEW f \in Fields \ unsure'[d]
        PROVE  Told(load(file), display[d], f)
    <3>1. f \notin unsure[d] /\ (d = job[a].to.at => f \notin job[a].sent)
      BY <1>1
    <3> QED
      BY <3>1 DEF Alone, FileTold
  <2> QED
    BY <2>1 DEF FileTold
<1>6. Writes(a)'
  BY <1>3 DEF Alone, Writes
<1> QED
  BY <1>3, <1>4, <1>5, <1>6 DEF Alone

\* A job with fewer steps to do says what it said.
LEMMA FewerGoes ==
    ASSUME NEW dis, NEW u, NEW s, NEW j, NEW t, Goes(dis, u, s, j),
           \A step : Has(t, step) => Has(j.todo, step),
           Has(j.todo, "load") => Has(t, "load"),
           Has(t, "load") => j.kind \notin LoadsAfter,
           j.kind = "restore" \/ (Has(j.todo, "apply") => Has(t, "apply")),
           NEW x, x = Job(j, j.saved, j.to, j.via, j.sent, t)
    PROVE  Goes(dis, u, s, x)
<1>1. /\ x.kind = j.kind /\ x.asks = j.asks /\ x.saved = j.saved /\ x.to = j.to
      /\ x.sent = j.sent /\ x.todo = t
  BY JobFields
<1>2. SentShown(dis, x)
  BY <1>1 DEF Goes, SentShown
<1>3. Unloaded(dis, u, x)
  BY <1>1 DEF Goes, Unloaded
<1>4. \A f : Known(u, j, f) => Known(u, x, f)
  BY <1>1 DEF Known
<1>5. Changed(u, s, x)
  BY <1>1, <1>4 DEF Goes, Changed
<1>6. Kept(s, x)
  BY <1>1 DEF Goes, Kept
<1> QED
  BY <1>2, <1>3, <1>5, <1>6 DEF Goes

\* What the file tells does not change when only steps are done.
LEMMA StillTold ==
    ASSUME Types, NEW a \in Actors, ~Idle(a), FileTold(a), ~Idle(a)',
           UNCHANGED <<bus, file, display, unsure>>,
           job'[a].to = job[a].to, job[a].sent \subseteq job'[a].sent
    PROVE  FileTold(a)'
BY DEF FileTold

\* A job goes on with t.
LEMMA FewerAlone ==
    ASSUME Types, NEW a \in Actors, ~Idle(a), Alone(a), NEW t,
           job' = [job EXCEPT ![a] = [job[a] EXCEPT !.todo = t]],
           Proper(job[a].kind, t), t # << >>,
           \A step : Has(t, step) => Has(job[a].todo, step),
           Has(job[a].todo, "connect") => Has(t, "connect"),
           Has(job[a].todo, "load") => Has(t, "load"),
           Has(t, "load") => job[a].kind \notin LoadsAfter,
           job[a].kind = "restore" \/ (Has(job[a].todo, "apply") => Has(t, "apply")),
           UNCHANGED <<bus, file, display, unsure>>,
           \A b \in Actors \ {a} : fd'[b] = fd[b]
    PROVE  /\ Step(a)' = Head(t) /\ job'[a].saved = job[a].saved
           /\ Writes(a)' => Alone(a)'
<1> DEFINE j == job[a]  x == [j EXCEPT !.todo = t]
<1>1. JobOK(Plugged(bus), j)
  BY Doing
<1>2. JobOK(Plugged(bus), x) /\ x = Job(j, j.saved, j.to, j.via, j.sent, t)
  BY <1>1, Shorter
<1>3. /\ x.saved = j.saved /\ x.to = j.to /\ x.sent = j.sent /\ x.todo = t
  BY <1>2, JobFields
<1>4. job' = [job EXCEPT ![a] = x]
  OBVIOUS
<1> HIDE DEF x
<1>5. job'[a] = x /\ \A b \in Actors \ {a} : job'[b] = job[b]
  BY <1>4, OneJob
<1>6. ~Idle(a)' /\ Step(a)' = Head(t)
  BY <1>2, <1>3, <1>5, StillBusy
<1>7. Goes(display, unsure, load(file), x)
  BY <1>2, FewerGoes DEF Alone
<1>8. Goes(display, unsure, load(file), job[a])'
  BY <1>5, <1>7
<1>9. Quiet'
  BY <1>5, <1>6, StillQuiet DEF Alone
<1>10. FileTold(a)'
  BY <1>3, <1>5, <1>6, StillTold DEF Alone
<1> QED
  BY <1>3, <1>5, <1>6, <1>8, <1>9, <1>10 DEF Alone

-----------------------------------------------------------------------------
(* One job at a time: it begins, loads, connects.                          *)

\* A job that begins has sent nothing and will load.
LEMMA BeginAlone ==
    ASSUME Types, NEW a \in Actors, Idle(a), Alone(a),
           NEW kind \in JobKinds, NEW aim, NEW asks, NEW screen, NEW to,
           kind # "restore" => to = Refused,
           NEW j, j = [NewJob(kind, aim, asks, screen) EXCEPT !.to = to],
           JobOK(Plugged(bus), j), job' = [job EXCEPT ![a] = j],
           UNCHANGED <<bus, file, temp, fd, display, unsure>>
    PROVE  Alone(a)'
<1>1. /\ j.kind = kind /\ j.saved = Default /\ j.to = to /\ j.sent = {}
      /\ j.todo = Script(kind)
  BY DEF NewJob
<1>2. job'[a] = j /\ \A b \in Actors \ {a} : job'[b] = job[b]
  BY OneJob
<1>3. ~Idle(a)' /\ Step(a)' = Head(Script(kind))
  <2>1. ~Idle(a)' /\ Step(a)' = Head(j.todo)
    BY <1>2, StillBusy, Zenon
  <2> QED
    BY <1>1, <2>1
<1>4. Head(Script(kind)) \in {"load", "connect"}
  <2>1. /\ Proper(kind, Script(kind)) /\ Script(kind) # << >>
        /\ Has(Script(kind), "connect")
    BY ScriptProper
  <2>2. Head(Script(kind)) = "connect" \/ Before(kind, Head(Script(kind)), "connect")
    BY <2>1, TailProper
  <2> QED
    BY <2>2 DEF Before
<1>5. Quiet'
  BY <1>2, <1>3, StillQuiet DEF Alone
<1>6. Writes(a)'
  BY <1>3, <1>4 DEF Alone, Writes
<1>7. FileTold(a)'
  BY DEF Alone, FileTold
<1>8. SentShown(display, j)
  BY <1>1 DEF SentShown
<1>9. Unloaded(display, unsure, j)
  <2>1. Default.fan = None
    BY DEF Default
  <2>2. kind \in LoadsAfter => Has(Script(kind), Asked(kind))
    BY ScriptProper DEF LoadsAfter, Asked
  <2> QED
    BY <1>1, <2>1, <2>2 DEF Unloaded
<1>10. Has(j.todo, "load")
  BY <1>1, ScriptProper
<1>11. Goes(display, unsure, load(file), j)
  BY <1>8, <1>9, <1>10 DEF Goes, Changed, Kept
<1>12. Goes(display, unsure, load(file), job[a])'
  BY <1>2, <1>11
<1> QED
  BY <1>5, <1>6, <1>7, <1>12 DEF Alone

LEMMA BeginsAlone ==
    ASSUME Types, NEW a \in Actors, Alone(a),
           \/ \E kind \in Kinds, aim \in Aims : \E asks \in Asks(kind) :
                  Command(a, kind, aim, asks)
           \/ \E aim \in Aims : Restore(a, aim)
           \/ \E kind \in Kinds : \E asks \in Asks(kind) : Interface(a, kind, asks)
    PROVE  Alone(a)'
<1>1. ASSUME NEW kind \in Kinds, NEW aim \in Aims, NEW asks \in Asks(kind),
             Command(a, kind, aim, asks)
      PROVE  Alone(a)'
  <2> DEFINE j == NewJob(kind, aim, asks, None)
  <2>1. /\ kind \in JobKinds \ (UiKinds \cup {"restore"}) /\ Idle(a)
        /\ job' = [job EXCEPT ![a] = j]
        /\ UNCHANGED <<bus, daemon, file, temp, fd, display, ui, unsure>>
    BY <1>1, KindsAssumption DEF Command, Begin
  <2>2. j = [j EXCEPT !.to = Refused]
    BY DEF NewJob
  <2>3. JobOK(Plugged(bus), [j EXCEPT !.to = Refused])
    BY <2>1, NewJobOK
  <2> QED
    BY <2>1, <2>2, <2>3, BeginAlone
<1>2. ASSUME NEW aim \in Aims, Restore(a, aim) PROVE Alone(a)'
  <2> DEFINE to == select_backend(bus, aim)
             j == [NewJob("restore", aim, [none |-> None], None) EXCEPT !.to = to]
  <2>1. /\ to # Refused /\ Idle(a) /\ job' = [job EXCEPT ![a] = j]
        /\ UNCHANGED <<bus, file, temp, fd, display, ui, unsure>>
    BY <1>2 DEF Restore, Begin
  <2>2. to \in Links(Plugged(bus)) /\ Named(aim, to)
    BY <2>1, Selected
  <2> HIDE DEF to
  <2>3. "restore" \in JobKinds /\ "restore" \notin UiKinds
    BY DEF JobKinds, UiKinds
  <2>4. [none |-> None] \in Asks("restore")
    BY DEF Asks
  <2>5. JobOK(Plugged(bus), j)
    BY <2>1, <2>2, <2>3, <2>4, NewJobOK
  <2>6. j = [NewJob("restore", aim, [none |-> None], None) EXCEPT !.to = to]
    OBVIOUS
  <2> HIDE DEF j
  <2> QED
    BY <2>1, <2>3, <2>5, <2>6, BeginAlone
<1>3. ASSUME NEW kind \in Kinds, NEW asks \in Asks(kind), Interface(a, kind, asks)
      PROVE  Alone(a)'
  <2> DEFINE screen == ui'  j == NewJob(kind, NoAim, asks, screen)
  <2>1. /\ kind \in UiKinds /\ kind \in JobKinds /\ Idle(a)
        /\ job' = [job EXCEPT ![a] = j] /\ ui \in Screens
        /\ UNCHANGED <<bus, daemon, file, temp, fd, display, unsure>>
    BY <1>3, KindsAssumption DEF Interface, Begin, Types
  <2>2. screen \in Screens
    <3>1. kind = "ui show" => asks.media \in Media
      BY <2>1, AskedValues
    <3> QED
      BY <1>3, <2>1, <3>1 DEF Interface, Screens
  <2>3. "restore" \notin UiKinds /\ NoAim \in Aims \cup {NoAim}
    BY DEF UiKinds
  <2> HIDE DEF screen
  <2>4. j = [j EXCEPT !.to = Refused]
    BY DEF NewJob
  <2>5. JobOK(Plugged(bus), [j EXCEPT !.to = Refused])
    BY <2>1, <2>2, <2>3, NewJobOK
  <2> QED
    BY <2>1, <2>3, <2>4, <2>5, BeginAlone
<1> QED
  BY <1>1, <1>2, <1>3

\* What is loaded is edited, and what was asked before is in it.
LEMMA LoadGoes ==
    ASSUME NEW dis, NEW u, NEW plugged, NEW j, JobOK(plugged, j),
           NEW s \in State, Goes(dis, u, s, j), Head(j.todo) = "load",
           NEW x, x = Job(j, Edited(j, s), j.to, j.via, j.sent, Tail(j.todo))
    PROVE  Goes(dis, u, s, x)
<1> DEFINE t == Tail(j.todo)  E == Edited(j, s)
<1>1. /\ x.kind = j.kind /\ x.asks = j.asks /\ x.saved = E /\ x.to = j.to
      /\ x.sent = j.sent /\ x.todo = t
  BY JobFields
<1>2. Proper(j.kind, j.todo) /\ j.todo # << >> /\ j.kind \in JobKinds
  BY DEF JobOK
<1>3. /\ \A step : Has(j.todo, step) <=> step = "load" \/ Has(t, step)
      /\ \A step : Has(t, step) => Before(j.kind, "load", step)
      /\ Followed(j.kind, j.todo, 1)
  BY <1>2, TailProper
<1>4. Has(j.todo, "load") /\ ~Has(t, "load")
  BY <1>3 DEF Before
<1>5. /\ j.kind # "fan" => Wanted(E).fan = Wanted(s).fan
      /\ j.kind = "fan" => /\ Wanted(E).fan = j.asks.fan
                           /\ \A f \in Fields \ {"fan"} : Wanted(E)[f] = Wanted(s)[f]
      /\ j.kind = "ui brightness" =>
           /\ Wanted(E).brightness = j.asks.brightness
           /\ \A f \in Fields \ {"brightness"} : Wanted(E)[f] = Wanted(s)[f]
      /\ j.kind \in {"brightness", "rotate", "restore"} => E = s
      /\ j.kind \notin TabKinds => \A y \in (DOMAIN Default) \ About(j.kind) : E[y] = s[y]
  <2>1. EditKeeps(j, s, E)
    BY EditedState
  <2> QED
    BY <2>1 DEF EditKeeps
<1>6. /\ \A f \in j.sent : /\ j.kind \in LoadsAfter /\ f = Asked(j.kind)
                           /\ dis[j.to.at][f] = j.asks[f]
      /\ j.kind \in LoadsAfter => Known(u, j, Asked(j.kind))
  <2>1. j.kind \in LoadsAfter => ~Has(j.todo, Asked(j.kind))
    BY <1>2, AskedBefore
  <2> QED
    BY <1>4, <2>1 DEF Goes, Unloaded
<1> HIDE DEF t, E
<1>7. SentShown(dis, x)
  <2>1. ASSUME NEW f \in x.sent PROVE Told(x.saved, dis[x.to.at], f)
    <3>1. j.kind \in LoadsAfter /\ f = Asked(j.kind) /\ dis[x.to.at][f] = j.asks[f]
      BY <1>1, <1>6, <2>1
    <3>2. CASE j.kind = "fan"
      BY <1>1, <1>5, <3>1, <3>2 DEF Told, Asked
    <3>3. CASE j.kind = "ui brightness"
      BY <1>1, <1>5, <3>1, <3>3 DEF Told, Asked
    <3> QED
      BY <3>1, <3>2, <3>3 DEF LoadsAfter
  <2> QED
    BY <1>1, <1>3, <2>1 DEF Goes, SentShown
<1>8. Unloaded(dis, u, x)
  BY <1>1, <1>4 DEF Unloaded
<1>9. Changed(u, s, x)
  <2>1. j.kind \in {"brightness", "rotate", "fan", "ui brightness"} \/ Has(t, "apply")
    <3>1. /\ j.todo[1] = "load" /\ j.todo \in Seq(Steps)
          /\ ThenApplies(j.kind, j.todo, 1)
      BY <1>2, <1>3, TailProper DEF Followed, Proper
    <3>2. ASSUME NEW k \in (1 + 1)..Len(j.todo), j.todo[k] = "apply" PROVE Has(j.todo, "apply")
      <4>1. Len(j.todo) \in Nat /\ k \in 1..Len(j.todo)
        BY <3>1
      <4> QED
        BY <3>2, <4>1 DEF Has
    <3> QED
      BY <1>3, <3>1, <3>2 DEF ThenApplies
  <2>2. \A f : Known(u, j, f) => Known(u, x, f)
    BY <1>1 DEF Known
  <2>3. ASSUME NEW f \in Fields
        PROVE  \/ Known(u, x, f)
               \/ f # "fan" /\ Has(x.todo, "apply") /\ x.kind # "restore"
               \/ Wanted(x.saved)[f] \in {None, Wanted(s)[f]}
    <3>1. CASE j.kind = "fan"
      BY <1>1, <1>5, <1>6, <2>2, <3>1 DEF LoadsAfter, Asked
    <3>2. CASE j.kind = "ui brightness"
      BY <1>1, <1>5, <1>6, <2>2, <3>2 DEF LoadsAfter, Asked
    <3>3. CASE j.kind \in {"brightness", "rotate", "restore"}
      BY <1>1, <1>5, <3>3
    <3>4. CASE j.kind \notin {"fan", "ui brightness", "brightness", "rotate", "restore"}
      BY <1>1, <1>5, <2>1, <3>4
    <3> QED
      BY <3>1, <3>2, <3>3, <3>4
  <2> QED
    BY <2>3 DEF Changed
<1>10. Kept(s, x)
  BY <1>1, <1>5 DEF Kept
<1> QED
  BY <1>7, <1>8, <1>9, <1>10 DEF Goes

LEMMA LoadAlone ==
    ASSUME Types, NEW a \in Actors, Alone(a), Load(a)
    PROVE  Alone(a)'
<1> DEFINE s == load(file)
           x == Job(job[a], Edited(job[a], s), job[a].to, job[a].via, job[a].sent, Rest(a))
<1>1. /\ ~Idle(a) /\ job' = [job EXCEPT ![a] = x] /\ JobOK(Plugged(bus), x)
      /\ UNCHANGED <<bus, daemon, file, temp, fd, display, ui, left, unsure>>
  BY LoadDoes
<1>2. Step(a) = "load"
  BY DEF Load
<1>3. /\ JobOK(Plugged(bus), job[a]) /\ Head(job[a].todo) = "load"
      /\ Rest(a) = Tail(job[a].todo) /\ Rest(a) # << >>
  BY <1>1, <1>2, Doing
<1>4. s \in State
  BY Unchanged
<1>5. x.to = job[a].to /\ x.sent = job[a].sent /\ x.todo = Rest(a)
  BY JobFields
<1>6. Goes(display, unsure, s, x)
  BY <1>1, <1>3, <1>4, LoadGoes DEF Alone
<1> HIDE DEF x
<1>7. job'[a] = x /\ \A b \in Actors \ {a} : job'[b] = job[b]
  BY <1>1, OneJob
<1>8. ~Idle(a)' /\ Step(a)' = Head(Rest(a))
  BY <1>1, <1>5, <1>7, StillBusy
<1>9. Quiet'
  BY <1>1, <1>7, <1>8, StillQuiet DEF Alone
<1>10. FileTold(a)'
  BY <1>1, <1>5, <1>7, <1>8, StillTold DEF Alone
<1>11. Head(Rest(a)) \notin {"write", "daemon write", "rename", "daemon rename"}
  BY <1>1, <1>2, <1>3, Late
<1>12. Writes(a)'
  BY <1>1, <1>8, <1>11 DEF Alone, Writes
<1>13. Goes(display, unsure, load(file), job[a])'
  BY <1>1, <1>6, <1>7
<1> QED
  BY <1>9, <1>10, <1>12, <1>13 DEF Alone

\* A job that connects has sent nothing yet.
LEMMA ConnectGoes ==
    ASSUME NEW dis, NEW u, NEW s, NEW plugged, NEW j, JobOK(plugged, j),
           Goes(dis, u, s, j), Head(j.todo) = "connect",
           NEW to, to # Refused, j.kind = "restore" => to = j.to, NEW via,
           NEW x, x = Job(j, j.saved, to, via, j.sent, Tail(j.todo))
    PROVE  Goes(dis, u, s, x) /\ j.sent = {}
<1> DEFINE t == Tail(j.todo)
<1>1. /\ x.kind = j.kind /\ x.asks = j.asks /\ x.saved = j.saved /\ x.to = to
      /\ x.sent = j.sent /\ x.todo = t
  BY JobFields
<1>2. Proper(j.kind, j.todo) /\ j.todo # << >> /\ j.kind \in JobKinds
  BY DEF JobOK
<1>3. /\ \A step : Has(j.todo, step) <=> step = "connect" \/ Has(t, step)
      /\ \A step : Has(t, step) => Before(j.kind, "connect", step)
  BY <1>2, TailProper
<1>4. ~Has(t, "connect")
  BY <1>3 DEF Before
<1>5. j.sent = {} /\ (j.kind # "restore" => j.to = Refused)
  BY <1>3 DEF Goes, SentShown
<1> HIDE DEF t
<1>6. \A f : Known(u, j, f) => Known(u, x, f)
  BY <1>1, <1>5 DEF Known
<1>7. SentShown(dis, x)
  BY <1>1, <1>4, <1>5 DEF SentShown
<1>8. Unloaded(dis, u, x)
  <2>1. Asked(j.kind) # "connect"
    BY DEF Asked
  <2> QED
    BY <1>1, <1>3, <1>5, <1>6, <2>1 DEF Goes, Unloaded
<1>9. Changed(u, s, x)
  BY <1>1, <1>3, <1>6 DEF Goes, Changed
<1>10. Kept(s, x)
  BY <1>1, <1>3 DEF Goes, Kept
<1> QED
  BY <1>5, <1>7, <1>8, <1>9, <1>10 DEF Goes

LEMMA ConnectAlone ==
    ASSUME Types, NEW a \in Actors, Alone(a), Connect(a)
    PROVE  Alone(a)'
<1>1. /\ ~Idle(a) /\ Step(a) = "connect"
      /\ UNCHANGED <<bus, daemon, file, temp, display, ui, left>>
  BY ConnectDoes
<1>2. CASE Over(a, FALSE)
  BY <1>1, <1>2, OverAlone
<1>3. CASE ~Over(a, FALSE)
  <2> DEFINE x == Job(job[a], job[a].saved, Link(a).to, Link(a).via, job[a].sent, Rest(a))
  <2>1. /\ Link(a).to # Refused /\ job' = [job EXCEPT ![a] = x] /\ JobOK(Plugged(bus), x)
        /\ job[a].kind = "restore" => Link(a).to = job[a].to
        /\ UNCHANGED <<fd, unsure>>
    BY <1>3, ConnectDoes
  <2>2. /\ JobOK(Plugged(bus), job[a]) /\ Head(job[a].todo) = "connect"
        /\ Rest(a) = Tail(job[a].todo) /\ Rest(a) # << >>
    BY <1>1, Doing
  <2>3. x.to = Link(a).to /\ x.sent = job[a].sent /\ x.todo = Rest(a)
    BY JobFields
  <2>4. Goes(display, unsure, load(file), x) /\ job[a].sent = {}
    BY <1>1, <2>1, <2>2, ConnectGoes DEF Alone
  <2> HIDE DEF x
  <2>5. job'[a] = x /\ \A b \in Actors \ {a} : job'[b] = job[b]
    BY <2>1, OneJob
  <2>6. ~Idle(a)' /\ Step(a)' = Head(Rest(a))
    BY <2>1, <2>3, <2>5, <1>1, StillBusy
  <2>7. Quiet'
    BY <2>1, <2>5, <2>6, StillQuiet DEF Alone
  <2>8. FileTold(a)'
    BY <1>1, <2>1, <2>4 DEF Alone, FileTold
  <2>9. Head(Rest(a)) \notin {"write", "daemon write", "rename", "daemon rename"}
    BY <1>1, <2>2, Late
  <2>10. Writes(a)'
    BY <1>1, <2>6, <2>9 DEF Alone, Writes
  <2>11. Goes(display, unsure, load(file), job[a])'
    BY <1>1, <2>1, <2>4, <2>5
  <2> QED
    BY <2>7, <2>8, <2>10, <2>11 DEF Alone
<1> QED
  BY <1>2, <1>3

-----------------------------------------------------------------------------
(* One job at a time: it goes on, saves, fails, dies.                      *)

\* A restore goes on whatever a request says.
LEMMA RestoreGoesOn ==
    ASSUME Types, NEW a \in Actors, ~Idle(a), Alone(a), job[a].kind = "restore",
           Step(a) \in {"apply", "brightness", "rotate", "fan"},
           job' = [job EXCEPT ![a] = [job[a] EXCEPT !.todo = Rest(a)]],
           UNCHANGED <<bus, file, temp, fd, display, unsure>>
    PROVE  Alone(a)'
<1>1. /\ Proper(job[a].kind, Rest(a)) /\ Rest(a) # << >>
      /\ ~Has(job[a].todo, "connect")
      /\ \A s : Has(job[a].todo, s) <=> s = Step(a) \/ Has(Rest(a), s)
      /\ Head(Rest(a)) \notin {"write", "daemon write", "rename", "daemon rename"}
  BY Doing, Linked, NextOf, Late
<1>2. job[a].kind \notin LoadsAfter
  BY DEF LoadsAfter
<1>3. Step(a)' = Head(Rest(a)) /\ (Writes(a)' => Alone(a)')
  BY <1>1, <1>2, FewerAlone
<1>4. Writes(a)'
  BY <1>1, <1>3 DEF Alone, Writes
<1> QED
  BY <1>3, <1>4

LEMMA UnansweredAlone ==
    ASSUME Types, NEW a \in Actors, Alone(a), Unanswered(a) \/ SkipApply(a)
    PROVE  Alone(a)'
<1>1. /\ ~Idle(a) /\ Step(a) \in {"apply", "brightness", "rotate", "fan"}
      /\ UNCHANGED <<bus, daemon, file, temp, display, ui, left>>
      /\ \/ job[a].kind = "restore" /\ GoOn(a, Rest(a))
         \/ job[a].kind # "restore" /\ GoOn(a, << >>)
      /\ Rest(a) # << >> /\ Proper(job[a].kind, Rest(a))
      /\ ~Has(job[a].todo, "connect")
  BY UnansweredLeaves
<1>2. CASE job[a].kind = "restore"
  <2>1. /\ job' = [job EXCEPT ![a] = [job[a] EXCEPT !.todo = Rest(a)]]
        /\ UNCHANGED <<fd, unsure>>
    BY <1>1, <1>2 DEF GoOn
  <2> QED
    BY <1>1, <1>2, <2>1, RestoreGoesOn
<1>3. CASE job[a].kind # "restore"
  <2>1. Over(a, FALSE)
    BY <1>1, <1>3 DEF GoOn
  <2> QED
    BY <1>1, <2>1, OverAlone
<1> QED
  BY <1>2, <1>3

\* A save that begins or is written.
LEMMA SavesAlone ==
    ASSUME Types, NEW a \in Actors, Alone(a), Step(a) \in {"open", "write"} \cup DaemonStep,
           Step(a) # "daemon rename",
           job' = [job EXCEPT ![a] = [job[a] EXCEPT !.todo = Rest(a)]],
           UNCHANGED <<bus, file, display, unsure>>,
           \A b \in Actors \ {a} : fd'[b] = fd[b]
    PROVE  /\ ~Idle(a) /\ Step(a)' = Head(Rest(a)) /\ job'[a].saved = job[a].saved
           /\ Writes(a)' => Alone(a)'
<1>1. ~Idle(a) /\ Step(a) \notin {"load", "connect", "rename", "daemon rename"}
      /\ Step(a) \in {"open", "write", "rename"} \cup DaemonStep
  BY Stepping DEF DaemonStep
<1>2. /\ Proper(job[a].kind, Rest(a)) /\ Rest(a) # << >>
      /\ ~Has(job[a].todo, "connect") /\ ~Has(job[a].todo, "load") /\ ~Has(job[a].todo, "apply")
      /\ \A s : Has(Rest(a), s) => Has(job[a].todo, s)
  BY <1>1, Doing, Linked, Late
<1> QED
  BY <1>1, <1>2, FewerAlone

LEMMA OpenTempAlone ==
    ASSUME Types, NEW a \in Actors, Alone(a), OpenTemp(a)
    PROVE  Alone(a)'
<1>1. /\ Step(a) \in {"open", "daemon open"}
      /\ job' = [job EXCEPT ![a] = [job[a] EXCEPT !.todo = Rest(a)]]
      /\ fd' = [fd EXCEPT ![a] = "temp"] /\ UNCHANGED <<bus, file, display, unsure>>
  BY DEF OpenTemp
<1>2. Step(a) \in {"open", "write"} \cup DaemonStep /\ Step(a) # "daemon rename"
  BY <1>1 DEF DaemonStep
<1>3. fd'[a] = "temp" /\ \A b \in Actors \ {a} : fd'[b] = fd[b]
  BY <1>1 DEF Types
<1>4. ~Idle(a) /\ Step(a)' = Head(Rest(a)) /\ (Writes(a)' => Alone(a)')
  BY <1>1, <1>2, <1>3, SavesAlone
<1>5. Head(Rest(a)) \in {"write", "daemon write"}
  BY <1>1, <1>4, Late
<1>6. Writes(a)'
  BY <1>1, <1>3, <1>4, <1>5 DEF Alone, Writes
<1> QED
  BY <1>4, <1>6

LEMMA WriteTempAlone ==
    ASSUME Types, NEW a \in Actors, Others(a), Alone(a), WriteTemp(a)
    PROVE  Alone(a)' /\ file' = file
<1>1. /\ Step(a) \in {"write", "daemon write"}
      /\ job' = [job EXCEPT ![a] = [job[a] EXCEPT !.todo = Rest(a)]]
      /\ fd' = [fd EXCEPT ![a] = "none"] /\ UNCHANGED <<bus, display, unsure>>
  BY DEF WriteTemp
<1>2. fd[a] = "temp" /\ file # Torn
  BY <1>1 DEF Alone, Writes
<1>3. \A b \in Actors \ {a} : fd[b] # fd[a]
  BY <1>2 DEF Alone, Quiet, Others
<1>4. temp' = job[a].saved /\ file' = file
  BY <1>2, <1>3 DEF WriteTemp
<1>5. fd'[a] = "none" /\ \A b \in Actors \ {a} : fd'[b] = fd[b]
  BY <1>1 DEF Types
<1>6. Step(a) \in {"open", "write"} \cup DaemonStep /\ Step(a) # "daemon rename"
  BY <1>1 DEF DaemonStep
<1>7. /\ ~Idle(a) /\ Step(a)' = Head(Rest(a)) /\ job'[a].saved = job[a].saved
      /\ Writes(a)' => Alone(a)'
  BY <1>1, <1>4, <1>5, <1>6, SavesAlone
<1>8. Head(Rest(a)) \in {"rename", "daemon rename"}
  BY <1>1, <1>7, Late
<1>9. Writes(a)'
  BY <1>2, <1>4, <1>5, <1>7, <1>8 DEF Writes
<1> QED
  BY <1>4, <1>7, <1>9

\* What the file says then is what each display shows: the others are unsure if
\* it says something new, and the job's own shows what the job has sent and, in
\* what it has not changed, what the file said before.
LEMMA RenameTells ==
    ASSUME Types, NEW a \in Actors, Alone(a), Rename(a),
           NEW d \in Plugged(bus), NEW f \in Fields \ unsure'[d]
    PROVE  \/ Told(load(file'), display[d], f)
           \/ Rest(a) # << >> /\ d = job[a].to.at /\ f \in job[a].sent
<1> DEFINE at == job[a].to.at
<1>1. /\ ~Idle(a) /\ Step(a) \in {"rename", "daemon rename"} /\ file' = temp
      /\ \A e \in Plugged(bus) \ {at} :
           unsure'[e] = IF load(file') # load(file) THEN Fields ELSE unsure[e]
      /\ unsure'[at] = IF Rest(a) # << >> THEN unsure[at] ELSE unsure[at] \ job[a].sent
      /\ at \in Plugged(bus)
  BY RenameDoes
<1>2. /\ temp = job[a].saved /\ FileTold(a)
      /\ SentShown(display, job[a]) /\ Changed(unsure, load(file), job[a])
  BY <1>1 DEF Alone, Writes, Goes
<1>3. load(file') = job[a].saved
  <2>1. JobOK(Plugged(bus), job[a])
    BY <1>1, Doing
  <2>2. job[a].saved \in State
    BY <2>1 DEF JobOK
  <2> QED
    BY <1>1, <1>2, <2>2, LoadState DEF Files
<1>4. CASE d # at
  <2>1. load(file') = load(file) /\ f \notin unsure[d]
    BY <1>1, <1>4
  <2> QED
    BY <1>2, <1>4, <2>1 DEF FileTold
<1>5. CASE d = at /\ f \in job[a].sent
  BY <1>2, <1>3, <1>5 DEF SentShown
<1>6. CASE d = at /\ f \notin job[a].sent
  <2>1. f \notin unsure[at]
    BY <1>1, <1>6
  <2>2. Told(load(file), display[at], f)
    BY <1>2, <1>6, <2>1 DEF FileTold
  <2>3. Step(a) \in {"open", "write", "rename"} \cup DaemonStep
    BY <1>1 DEF DaemonStep
  <2>4. ~Has(job[a].todo, "load") /\ ~Has(job[a].todo, "apply")
    BY <1>1, <2>3, Late
  <2>5. ~Known(unsure, job[a], f)
    BY <1>6, <2>1 DEF Known
  <2>6. Wanted(job[a].saved)[f] \in {None, Wanted(load(file))[f]}
    BY <1>2, <2>4, <2>5 DEF Changed
  <2> QED
    BY <1>3, <1>6, <2>2, <2>6 DEF Told
<1> QED
  BY <1>4, <1>5, <1>6

LEMMA RenameAlone ==
    ASSUME Types, NEW a \in Actors, Alone(a), Rename(a)
    PROVE  Alone(a)'
<1>1. /\ ~Idle(a) /\ Step(a) \in {"rename", "daemon rename"} /\ file' = temp
      /\ UNCHANGED <<bus, daemon, display, ui, left>>
      /\ fd' = [b \in Actors |-> IF fd[b] = "temp" THEN "file" ELSE "none"]
      /\ \/ /\ Rest(a) # << >>
            /\ job' = [job EXCEPT ![a] = [job[a] EXCEPT !.todo = Rest(a)]]
         \/ Rest(a) = << >> /\ job' = [job EXCEPT ![a] = NoJob]
  BY RenameDoes
<1>2. /\ temp = job[a].saved /\ fd[a] = "none" /\ Goes(display, unsure, load(file), job[a])
  BY <1>1 DEF Alone, Writes
<1>3. JobOK(Plugged(bus), job[a])
  BY <1>1, Doing
<1>4. job[a].saved \in State
  BY <1>3 DEF JobOK
<1>5. load(file') = job[a].saved /\ file' # Torn
  BY <1>1, <1>2, <1>4, LoadState, FilesAssumption DEF Files
<1>6. fd'[a] = "none" /\ \A b \in Actors : fd[b] = "none" => fd'[b] = "none"
  BY <1>1, <1>2
<1>7. CASE Rest(a) = << >>
  <2>1. job'[a] = NoJob /\ \A b \in Actors \ {a} : job'[b] = job[b]
    BY <1>1, <1>7, OneJob
  <2>2. Idle(a)' /\ Step(a)' = "none"
    BY <2>1, NowIdle
  <2>3. Quiet'
    BY <1>6, <2>1, StillQuiet DEF Alone
  <2>4. FileTold(a)'
    BY <1>1, <1>7, RenameTells DEF FileTold
  <2>5. Writes(a)'
    BY <1>5, <2>2 DEF Writes
  <2> QED
    BY <2>2, <2>3, <2>4, <2>5 DEF Alone
<1>8. CASE Rest(a) # << >>
  <2> DEFINE j == job[a]  s == load(file)'  x == [j EXCEPT !.todo = Rest(a)]
  <2>1. Step(a) \in {"open", "write", "rename"} \cup DaemonStep
    BY <1>1 DEF DaemonStep
  <2>2. /\ JobOK(Plugged(bus), x)
        /\ x = Job(j, j.saved, j.to, j.via, j.sent, Rest(a))
    BY <1>8, <2>1, SaveStepDoes
  <2>3. /\ x.kind = j.kind /\ x.asks = j.asks /\ x.saved = j.saved /\ x.to = j.to
        /\ x.sent = j.sent /\ x.todo = Rest(a)
    BY <2>2, JobFields
  <2>4. job' = [job EXCEPT ![a] = x]
    BY <1>1, <1>8
  <2>5. /\ \A step : Has(Rest(a), step) => Has(j.todo, step)
        /\ ~Has(j.todo, "load") /\ ~Has(j.todo, "connect")
    BY <1>1, <2>1, Doing, Late, Linked DEF DaemonStep
  <2>6. Head(Rest(a)) \notin {"write", "daemon write", "rename", "daemon rename"}
    BY <1>1, <1>8, Late
  <2> HIDE DEF x, s
  <2>7. job'[a] = x /\ \A b \in Actors \ {a} : job'[b] = job[b]
    BY <2>4, OneJob
  <2>8. ~Idle(a)' /\ Step(a)' = Head(Rest(a))
    BY <2>2, <2>3, <2>7, StillBusy
  <2>9. Quiet'
    BY <1>6, <2>7, <2>8, StillQuiet DEF Alone
  <2>10. FileTold(a)'
    <3>1. \A d \in Plugged(bus) : \A f \in Fields \ unsure'[d] :
            Told(load(file'), display[d], f) \/ (d = j.to.at /\ f \in j.sent)
      BY RenameTells
    <3> QED
      BY <1>1, <2>3, <2>7, <2>8, <3>1 DEF FileTold
  <2>11. Writes(a)'
    BY <1>5, <2>6, <2>8 DEF Writes
  <2>12. s = j.saved
    BY <1>5 DEF s
  <2>13. SentShown(display, x)
    BY <1>2, <2>3, <2>5 DEF Goes, SentShown
  <2>14. Unloaded(display, unsure', x) /\ Changed(unsure', s, x) /\ Kept(s, x)
    BY <2>3, <2>5, <2>12 DEF Unloaded, Changed, Kept
  <2>15. Goes(display', unsure', s, x)
    BY <1>1, <2>13, <2>14 DEF Goes
  <2>16. Goes(display, unsure, load(file), job[a])'
    BY <2>7, <2>15 DEF s
  <2> QED
    BY <2>9, <2>10, <2>11, <2>16 DEF Alone
<1> QED
  BY <1>7, <1>8

LEMMA SaveFailsAlone ==
    ASSUME Types, NEW a \in Actors, Alone(a), SaveFails(a)
    PROVE  Alone(a)'
<1>1. /\ ~Idle(a) /\ UNCHANGED <<bus, daemon, file, display, ui, left>>
      /\ Step(a) \in {"open", "write", "rename"} \cup DaemonStep
      /\ \E todo :
           /\ GoOn(a, todo)
           /\ todo # << >> => /\ Proper(job[a].kind, todo)
                              /\ \A s : Has(todo, s) => Has(job[a].todo, s)
                              /\ Head(todo) \notin {"write", "rename"} \cup DaemonStep
      /\ ~Has(job[a].todo, "connect")
  BY SaveFailsLeaves
<1>2. PICK todo :
           /\ GoOn(a, todo)
           /\ todo # << >> => /\ Proper(job[a].kind, todo)
                              /\ \A s : Has(todo, s) => Has(job[a].todo, s)
                              /\ Head(todo) \notin {"write", "rename"} \cup DaemonStep
  BY <1>1
<1>3. CASE todo = << >>
  <2>1. Over(a, FALSE)
    BY <1>2, <1>3 DEF GoOn
  <2> QED
    BY <1>1, <2>1, OverAlone
<1>4. CASE todo # << >>
  <2>1. /\ job' = [job EXCEPT ![a] = [job[a] EXCEPT !.todo = todo]] /\ UNCHANGED <<fd, unsure>>
    BY <1>2, <1>4 DEF GoOn
  <2>2. ~Has(job[a].todo, "load") /\ ~Has(job[a].todo, "apply")
    BY <1>1, Late
  <2>3. Step(a)' = Head(todo) /\ (Writes(a)' => Alone(a)')
    BY <1>1, <1>2, <1>4, <2>1, <2>2, FewerAlone
  <2>4. Writes(a)'
    BY <1>1, <1>2, <1>4, <2>3 DEF Alone, Writes, DaemonStep
  <2> QED
    BY <2>3, <2>4
<1> QED
  BY <1>3, <1>4

LEMMA DieAlone ==
    ASSUME Types, NEW a \in Actors, Alone(a), Die(a)
    PROVE  Alone(a)'
<1>1. /\ ~Idle(a) /\ UNCHANGED <<bus, file, display, ui, left>>
      /\ temp' = IF Step(a) \in DaemonStep THEN temp ELSE LeftOver(a)
      /\ \E todo :
           /\ GoOn(a, todo)
           /\ Step(a) \notin DaemonStep => todo = << >>
           /\ todo # << >> => /\ Proper(job[a].kind, todo)
                              /\ \A s : Has(todo, s) => Has(job[a].todo, s)
                              /\ Head(todo) = Step(a)
                              /\ ~Has(job[a].todo, "connect")
  BY DieLeaves
<1>2. PICK todo :
           /\ GoOn(a, todo)
           /\ Step(a) \notin DaemonStep => todo = << >>
           /\ todo # << >> => /\ Proper(job[a].kind, todo)
                              /\ \A s : Has(todo, s) => Has(job[a].todo, s)
                              /\ Head(todo) = Step(a)
                              /\ ~Has(job[a].todo, "connect")
  BY <1>1
<1>3. CASE todo = << >>
  <2>1. Over(a, FALSE)
    BY <1>2, <1>3 DEF GoOn
  <2> QED
    BY <1>1, <2>1, OverAlone
<1>4. CASE todo # << >>
  <2>1. /\ job' = [job EXCEPT ![a] = [job[a] EXCEPT !.todo = todo]] /\ UNCHANGED <<fd, unsure>>
    BY <1>2, <1>4 DEF GoOn
  <2>2. Step(a) \in DaemonStep /\ temp' = temp
    BY <1>1, <1>2, <1>4
  <2>3. ~Has(job[a].todo, "load") /\ ~Has(job[a].todo, "apply")
    BY <1>1, <2>2, Late
  <2>4. /\ Step(a)' = Head(todo) /\ job'[a].saved = job[a].saved
        /\ Writes(a)' => Alone(a)'
    BY <1>1, <1>2, <1>4, <2>1, <2>3, FewerAlone
  <2>5. Writes(a)'
    BY <1>1, <1>2, <1>4, <2>1, <2>2, <2>4 DEF Alone, Writes
  <2> QED
    BY <2>4, <2>5
<1> QED
  BY <1>3, <1>4

\* Nothing of the job or of what it is compared with changes.
LEMMA SameAlone ==
    ASSUME NEW a \in Actors, Alone(a),
           UNCHANGED <<bus, file, temp, fd, display, job, unsure>>
    PROVE  Alone(a)'
BY DEF Alone, Quiet, Writes, FileTold, Idle, Step

\* The daemon dies: the temporary file may change, if nobody is to rename it.
LEMMA DaemonDiesAlone ==
    ASSUME Types, NEW a \in Actors, Others(a), Alone(a), DaemonDies
    PROVE  Alone(a)'
<1>1. UNCHANGED <<bus, file, display>>
  BY DEF DaemonDies
<1>2. CASE \E b \in Actors : Step(b) \in DaemonStep
  <2>1. PICK b \in Actors : Step(b) \in DaemonStep /\ Over(b, FALSE)
    BY <1>2 DEF DaemonDies
  <2>2. b = a /\ ~Idle(a)
    BY <2>1, Stepping DEF DaemonStep, Others
  <2> QED
    BY <1>1, <2>1, <2>2, OverAlone
<1>3. CASE ~\E b \in Actors : Step(b) \in DaemonStep
  <2>1. UNCHANGED <<job, fd, unsure, temp>>
    BY <1>3 DEF DaemonDies
  <2> QED
    BY <1>1, <2>1, SameAlone
<1> QED
  BY <1>2, <1>3

-----------------------------------------------------------------------------
(* One job at a time: it sends.                                            *)

\* A request that may be answered: the job, with s to save and t to do, has
\* sent what it will save, the fields, and the rest of s is as it was.
Sound(j, fields, values, s, t) ==
    /\ \A f \in fields : Wanted(s)[f] \in {None, values[f]}
    /\ \A f \in Fields \ fields : Wanted(s)[f] = Wanted(j.saved)[f]
    /\ ~Has(t, "connect") /\ (Has(t, "load") <=> Has(j.todo, "load"))
    /\ Has(j.todo, "apply") =>
         Has(t, "apply") \/ \A f \in Fields \ fields : f = "fan" \/ Wanted(s)[f] = None
    /\ Has(t, "load") =>
         /\ j.kind \in LoadsAfter /\ fields = {Asked(j.kind)} /\ s.fan = j.saved.fan
         /\ values[Asked(j.kind)] = j.asks[Asked(j.kind)]
    /\ j.kind = "restore" =>
         /\ ~Has(t, "apply") /\ ~Has(t, "load") /\ j.sent \cap fields = {}
         /\ Has(t, "fan") => Has(j.todo, "fan") /\ "fan" \notin fields
    /\ ~Has(t, "load") /\ j.kind \notin TabKinds =>
         \A x \in (DOMAIN Default) \ About(j.kind) : s[x] = j.saved[x]

\* A display shows the values put on it.
Puts(shown, next, fields, values) ==
    \A f \in Fields : next[f] = IF f \in fields THEN values[f] ELSE shown[f]

LEMMA AnsweredGoes ==
    ASSUME NEW dis, NEW u, NEW f0, NEW j, Goes(dis, u, f0, j),
           NEW fields \in SUBSET Fields, NEW values, NEW s, NEW t,
           NEW claims \in SUBSET fields, (fields \ claims) \cap j.sent = {},
           Sound(j, claims, values, s, t), j.sent \in SUBSET Fields, NEW dis2,
           Puts(dis[j.to.at], dis2[j.to.at], fields, values),
           NEW u2, u[j.to.at] \subseteq u2[j.to.at],
           NEW x, x = Job(j, s, j.to, j.via, j.sent \cup claims, t)
    PROVE  Goes(dis2, u2, f0, x)
<1>1. /\ x.kind = j.kind /\ x.asks = j.asks /\ x.saved = s /\ x.to = j.to
      /\ x.sent = j.sent \cup claims /\ x.todo = t
  BY JobFields
<1>2. \A f : Known(u, j, f) \/ f \in claims => Known(u2, x, f)
  BY <1>1 DEF Known
<1>3. SentShown(dis2, x)
  <2>1. ASSUME NEW f \in x.sent PROVE Told(x.saved, dis2[x.to.at], f)
    <3>1. CASE f \in claims
      BY <1>1, <2>1, <3>1 DEF Told, Sound, Puts
    <3>2. CASE f \notin claims
      <4>1. f \in j.sent /\ f \in Fields /\ f \notin fields
        BY <1>1, <2>1, <3>2
      <4>2. Told(j.saved, dis[j.to.at], f)
        BY <4>1 DEF Goes, SentShown
      <4>3. Wanted(s)[f] = Wanted(j.saved)[f] /\ dis2[j.to.at][f] = dis[j.to.at][f]
        BY <3>2, <4>1 DEF Sound, Puts
      <4> QED
        BY <1>1, <4>2, <4>3 DEF Told
    <3> QED
      BY <3>1, <3>2
  <2>2. x.kind = "restore" => /\ ~Has(x.todo, "apply")
                              /\ Has(x.todo, "fan") => "fan" \notin x.sent
    BY <1>1 DEF Goes, SentShown, Sound
  <2>3. ~Has(x.todo, "connect")
    BY <1>1 DEF Sound
  <2> QED
    BY <2>1, <2>2, <2>3 DEF SentShown
<1>4. Unloaded(dis2, u2, x)
  <2> SUFFICES ASSUME Has(t, "load")
               PROVE  /\ \A f \in x.sent : /\ x.kind \in LoadsAfter /\ f = Asked(x.kind)
                                           /\ dis2[x.to.at][f] = x.asks[f]
                      /\ x.saved.fan = None
                      /\ Known(u2, x, Asked(x.kind))
    BY <1>1 DEF Unloaded
  <2>1. /\ j.kind \in LoadsAfter /\ claims = {Asked(j.kind)} /\ s.fan = j.saved.fan
        /\ values[Asked(j.kind)] = j.asks[Asked(j.kind)] /\ Has(j.todo, "load")
    BY DEF Sound
  <2>2. /\ \A f \in j.sent : f = Asked(j.kind)
        /\ j.saved.fan = None
    BY <2>1 DEF Goes, Unloaded
  <2>3. x.sent = {Asked(j.kind)} /\ Asked(j.kind) \in claims
    BY <1>1, <2>1, <2>2
  <2>4. dis2[j.to.at][Asked(j.kind)] = j.asks[Asked(j.kind)]
    BY <2>1, <2>3 DEF Puts
  <2> QED
    BY <1>1, <1>2, <2>1, <2>2, <2>3, <2>4
<1>5. Changed(u2, f0, x)
  <2> SUFFICES ASSUME ~Has(t, "load"), NEW f \in Fields, f \notin claims, ~Known(u, j, f),
                      ~(f # "fan" /\ Has(t, "apply") /\ j.kind # "restore")
               PROVE  Wanted(s)[f] \in {None, Wanted(f0)[f]}
    BY <1>1, <1>2 DEF Changed
  <2>1. /\ Wanted(s)[f] = Wanted(j.saved)[f] /\ ~Has(j.todo, "load")
        /\ Has(j.todo, "apply") => Has(t, "apply") \/ f = "fan" \/ Wanted(s)[f] = None
    BY DEF Sound
  <2>2. \/ f # "fan" /\ Has(j.todo, "apply") /\ j.kind # "restore"
        \/ Wanted(j.saved)[f] \in {None, Wanted(f0)[f]}
    BY <2>1 DEF Goes, Changed
  <2> QED
    BY <2>1, <2>2
<1>6. Kept(f0, x)
  BY <1>1 DEF Goes, Kept, Sound
<1> QED
  BY <1>3, <1>4, <1>5, <1>6 DEF Goes

LEMMA AnsweredAlone ==
    ASSUME Types, NEW a \in Actors, Alone(a), NEW fields, NEW values, NEW s, NEW t,
           NEW claims \in SUBSET fields, (fields \ claims) \cap job[a].sent = {},
           NEW x, x = Having(a, s, claims, t),
           Asking(a, fields, values, claims, x), Answered(a, fields, values, claims, x),
           Sound(job[a], claims, values, s, t),
           Head(t) \notin {"write", "daemon write", "rename", "daemon rename"}
    PROVE  Alone(a)'
<1> DEFINE at == At(a)  j == job[a]
<1>1. /\ ~Idle(a) /\ Step(a) \in {"apply", "brightness", "rotate", "fan"}
      /\ JobOK(Plugged(bus), x) /\ fields \in SUBSET Fields
      /\ UNCHANGED <<bus, daemon, file, temp, fd, ui, left>>
      /\ unsure' = [unsure EXCEPT ![at] = unsure[at] \cup (fields \ claims)]
      /\ job' = [job EXCEPT ![a] = x]
      /\ display' = [display EXCEPT ![at] = Put(display[at], fields, values)]
  BY DEF Asking, Answered, MayShow
<1>2. at \in Plugged(bus) /\ JobOK(Plugged(bus), j)
  BY <1>1, Linked, Doing DEF At
<1>3. j.sent \in SUBSET Fields
  BY <1>2 DEF JobOK
<1>4. /\ \A d \in Plugged(bus) \ {at} : display'[d] = display[d] /\ unsure'[d] = unsure[d]
      /\ display'[at] = Put(display[at], fields, values)
      /\ unsure'[at] = unsure[at] \cup (fields \ claims)
  BY <1>1, <1>2 DEF Types
<1>5. Puts(display[at], display'[at], fields, values)
  BY <1>4 DEF Put, Puts
<1>6. x = Job(j, s, j.to, j.via, j.sent \cup claims, t)
  BY DEF Having
<1>7. x.to = j.to /\ x.sent = j.sent \cup claims /\ x.todo = t
  <2> DEFINE y == Job(j, s, j.to, j.via, j.sent \cup claims, t)
  <2>1. y.to = j.to /\ y.sent = j.sent \cup claims /\ y.todo = t
    BY DEF Job
  <2> HIDE DEF y
  <2>2. x = y
    BY <1>6 DEF y
  <2> QED
    BY <2>1, <2>2
<1>8. job'[a] = x /\ \A b \in Actors \ {a} : job'[b] = job[b]
  BY <1>1, OneJob
<1>9. ~Idle(a)' /\ Step(a)' = Head(t)
  <2>1. ~Idle(a)' /\ Step(a)' = Head(x.todo)
    BY <1>1, <1>8, StillBusy
  <2> QED
    BY <1>7, <2>1
<1>10. Quiet'
  BY <1>1, <1>8, <1>9, StillQuiet DEF Alone
<1>11. Writes(a)'
  BY <1>1, <1>9 DEF Alone, Writes
<1>12. FileTold(a)'
  <2>1. ASSUME NEW d \in Plugged(bus), NEW f \in Fields \ unsure'[d]
        PROVE  Told(load(file), display'[d], f) \/ (d = at /\ f \in x.sent)
    <3>0. f \notin unsure[d] /\ (d = at => f \notin fields \ claims)
      BY <1>4
    <3>1. Told(load(file), display[d], f) \/ (d = at /\ f \in j.sent)
      BY <3>0 DEF Alone, FileTold, At
    <3>2. CASE d = at /\ f \in claims
      BY <1>7, <3>2
    <3>3. CASE ~(d = at /\ f \in claims)
      <4>1. display'[d][f] = display[d][f]
        BY <1>4, <1>5, <3>0, <3>3 DEF Puts
      <4> QED
        BY <1>7, <3>1, <4>1 DEF Told
    <3> QED
      BY <3>2, <3>3
  <2> QED
    BY <1>1, <1>7, <1>8, <1>9, <2>1 DEF FileTold, At
<1>13. Goes(display', unsure', load(file), x)
  <2>1. Goes(display, unsure, load(file), j)
    BY <1>1 DEF Alone
  <2>2. Puts(display[j.to.at], display'[j.to.at], fields, values)
    BY <1>5 DEF At
  <2>3. Sound(j, claims, values, s, t) /\ fields \in SUBSET Fields
    BY <1>1
  <2>4. /\ unsure[j.to.at] \subseteq unsure'[j.to.at]
        /\ (fields \ claims) \cap j.sent = {}
    BY <1>4 DEF At
  <2> HIDE DEF j
  <2> QED
    BY <1>3, <1>6, <2>1, <2>2, <2>3, <2>4, AnsweredGoes
<1>14. Goes(display, unsure, load(file), job[a])'
  BY <1>1, <1>8, <1>13
<1> QED
  BY <1>10, <1>11, <1>12, <1>14 DEF Alone

\* A request of a restore that failed: what it may have put is unsure.
LEMMA MissedAlone ==
    ASSUME Types, NEW a \in Actors, Alone(a), NEW fields, NEW values, NEW x,
           NEW claims, Asking(a, fields, values, claims, x), NEW some \in SUBSET fields,
           Missed(a, fields, values, some), job[a].sent \cap fields = {}
    PROVE  Alone(a)'
<1> DEFINE at == At(a)  j == job[a]  y == [j EXCEPT !.todo = Rest(a)]
<1>1. /\ ~Idle(a) /\ Step(a) \in {"apply", "brightness", "rotate", "fan"}
      /\ fields \in SUBSET Fields /\ j.kind = "restore"
      /\ UNCHANGED <<bus, daemon, file, temp, fd, ui, left>>
      /\ job' = [job EXCEPT ![a] = y]
      /\ display' = [display EXCEPT ![at] = Put(display[at], some, values)]
      /\ unsure' = [unsure EXCEPT ![at] = unsure[at] \cup fields]
  BY DEF Asking, Missed, MayShow
<1>2. /\ at \in Plugged(bus) /\ JobOK(Plugged(bus), j) /\ ~Has(j.todo, "connect")
      /\ Proper(j.kind, Rest(a)) /\ Rest(a) # << >>
      /\ \A step : Has(Rest(a), step) => Has(j.todo, step)
      /\ Step(a) = "apply" => ~Has(j.todo, "load")
  BY <1>1, Linked, Doing, Late DEF At
<1>3. ~Has(j.todo, "load")
  <2>1. Has(j.todo, "load") => Has(Rest(a), "load")
    BY <1>1, NextOf
  <2>2. Has(Rest(a), "load") => Before(j.kind, Step(a), "load")
    BY <1>1, NextOf
  <2> QED
    BY <1>1, <2>1, <2>2 DEF Before
<1>4. /\ \A d \in Plugged(bus) \ {at} : display'[d] = display[d] /\ unsure'[d] = unsure[d]
      /\ display'[at] = Put(display[at], some, values)
      /\ unsure'[at] = unsure[at] \cup fields
  BY <1>1, <1>2 DEF Types
<1>5. \A f \in Fields \ fields : display'[at][f] = display[at][f]
  BY <1>4 DEF Put
<1>6. /\ JobOK(Plugged(bus), y)
      /\ y = Job(j, j.saved, j.to, j.via, j.sent, Rest(a))
  BY <1>2, Shorter
<1>7. /\ y.kind = j.kind /\ y.saved = j.saved /\ y.to = j.to
      /\ y.sent = j.sent /\ y.todo = Rest(a)
  BY <1>6, JobFields
<1> HIDE DEF y
<1>8. job'[a] = y /\ \A b \in Actors \ {a} : job'[b] = job[b]
  BY <1>1, OneJob
<1>9. ~Idle(a)' /\ Step(a)' = Head(Rest(a))
  <2>1. ~Idle(a)' /\ Step(a)' = Head(y.todo)
    BY <1>6, <1>8, StillBusy
  <2> QED
    BY <1>7, <2>1
<1>10. Quiet'
  BY <1>1, <1>8, <1>9, StillQuiet DEF Alone
<1>11. Writes(a)'
  <2>1. Head(Rest(a)) \notin {"write", "daemon write", "rename", "daemon rename"}
    BY <1>1, <1>2, Late
  <2> QED
    BY <1>1, <1>9, <2>1 DEF Alone, Writes
<1>12. FileTold(a)'
  <2>1. ASSUME NEW d \in Plugged(bus), NEW f \in Fields \ unsure'[d]
        PROVE  Told(load(file), display'[d], f) \/ (d = at /\ f \in j.sent)
    <3>1. f \notin unsure[d] /\ (d = at => f \notin fields)
      BY <1>4
    <3>2. Told(load(file), display[d], f) \/ (d = at /\ f \in j.sent)
      BY <3>1 DEF Alone, FileTold, At
    <3>3. display'[d][f] = display[d][f]
      BY <1>4, <1>5, <3>1
    <3> QED
      BY <3>2, <3>3 DEF Told
  <2> QED
    BY <1>1, <1>7, <1>8, <1>9, <2>1 DEF FileTold, At
<1>13. Goes(display', unsure', load(file), y)
  <2>1. Goes(display, unsure, load(file), j)
    BY <1>1 DEF Alone
  <2>2. SentShown(display', y)
    <3>1. ASSUME NEW f \in j.sent PROVE Told(j.saved, display'[j.to.at], f)
      <4>1. f \in Fields \ fields
        BY <1>2 DEF JobOK
      <4> QED
        BY <1>5, <2>1, <4>1 DEF Goes, SentShown, Told, At
    <3> QED
      BY <1>2, <1>7, <2>1, <3>1 DEF Goes, SentShown
  <2>3. Unloaded(display', unsure', y)
    BY <1>2, <1>3, <1>7 DEF Unloaded
  <2>4. Changed(unsure', load(file), y)
    <3>1. \A f : Known(unsure, j, f) => Known(unsure', y, f)
      BY <1>4, <1>7 DEF Known, At
    <3> QED
      BY <1>1, <1>3, <1>7, <2>1, <3>1 DEF Goes, Changed
  <2>5. Kept(load(file), y)
    BY <1>3, <1>7, <2>1 DEF Goes, Kept
  <2> QED
    BY <2>2, <2>3, <2>4, <2>5 DEF Goes
<1>14. Goes(display, unsure, load(file), job[a])'
  BY <1>1, <1>8, <1>13
<1> QED
  BY <1>10, <1>11, <1>12, <1>14 DEF Alone

\* One that ends the job: so is all the job has sent.
LEMMA FailedAlone ==
    ASSUME Types, NEW a \in Actors, Alone(a), NEW fields, NEW values, NEW x,
           NEW claims, Asking(a, fields, values, claims, x), NEW some \in SUBSET fields,
           Failed(a, fields, values, some)
    PROVE  Alone(a)'
<1> DEFINE at == At(a)
<1>1. /\ ~Idle(a) /\ Step(a) \in {"apply", "brightness", "rotate", "fan"}
      /\ fields \in SUBSET Fields
      /\ UNCHANGED <<bus, daemon, file, temp, ui, left>>
      /\ job' = [job EXCEPT ![a] = NoJob] /\ fd' = [fd EXCEPT ![a] = "none"]
      /\ display' = [display EXCEPT ![at] = Put(display[at], some, values)]
      /\ unsure' = [unsure EXCEPT ![at] = unsure[at] \cup fields \cup job[a].sent]
  BY DEF Asking, Failed, MayShow
<1>2. at \in Plugged(bus)
  BY <1>1, Linked DEF At
<1>3. /\ \A d \in Plugged(bus) \ {at} : display'[d] = display[d] /\ unsure'[d] = unsure[d]
      /\ display'[at] = Put(display[at], some, values)
      /\ unsure'[at] = unsure[at] \cup fields \cup job[a].sent
  BY <1>1, <1>2 DEF Types
<1>4. \A f \in Fields \ fields : display'[at][f] = display[at][f]
  BY <1>3 DEF Put
<1>5. job'[a] = NoJob /\ \A b \in Actors \ {a} : job'[b] = job[b]
  BY <1>1, OneJob
<1>6. Idle(a)' /\ Step(a)' = "none"
  BY <1>5, NowIdle
<1>7. Quiet'
  <2>1. fd'[a] = "none" /\ \A b \in Actors \ {a} : fd'[b] = fd[b]
    BY <1>1 DEF Types
  <2> QED
    BY <1>5, <2>1, StillQuiet DEF Alone
<1>8. FileTold(a)'
  <2>1. ASSUME NEW d \in Plugged(bus), NEW f \in Fields \ unsure'[d]
        PROVE  Told(load(file), display'[d], f)
    <3>1. f \notin unsure[d] /\ (d = at => f \notin fields /\ f \notin job[a].sent)
      BY <1>3
    <3>2. Told(load(file), display[d], f)
      BY <3>1 DEF Alone, FileTold, At
    <3>3. display'[d][f] = display[d][f]
      BY <1>3, <1>4, <3>1
    <3> QED
      BY <3>2, <3>3 DEF Told
  <2> QED
    BY <1>1, <2>1 DEF FileTold
<1>9. Writes(a)'
  BY <1>1, <1>6 DEF Alone, Writes
<1> QED
  BY <1>6, <1>7, <1>8, <1>9 DEF Alone

\* A request that may be answered, or not.
LEMMA AskingAlone ==
    ASSUME Types, NEW a \in Actors, Alone(a), NEW fields, NEW values, NEW s, NEW t,
           NEW claims \in SUBSET fields, (fields \ claims) \cap job[a].sent = {},
           job[a].kind = "restore" => claims = fields,
           Asking(a, fields, values, claims, Having(a, s, claims, t)),
           Sound(job[a], claims, values, s, t),
           Head(t) \notin {"write", "daemon write", "rename", "daemon rename"}
    PROVE  Alone(a)'
<1> DEFINE x == Having(a, s, claims, t)
<1>1. CASE Answered(a, fields, values, claims, x)
  BY <1>1, AnsweredAlone
<1>2. ASSUME NEW some \in SUBSET fields, Missed(a, fields, values, some) PROVE Alone(a)'
  <2>1. job[a].sent \cap fields = {}
    BY <1>2 DEF Missed, Sound
  <2> QED
    BY <1>2, <2>1, MissedAlone
<1>3. ASSUME NEW some \in SUBSET fields, Failed(a, fields, values, some) PROVE Alone(a)'
  BY <1>3, FailedAlone
<1> QED
  BY <1>1, <1>2, <1>3 DEF Asking

\* A setting that is put in what was loaded changes no other.
Sets(next, s, x, w) ==
    /\ Wanted(next)[x] = w
    /\ \A f \in Fields \ {x} : Wanted(next)[f] = Wanted(s)[f]
    /\ \A y \in (DOMAIN Default) \ {x} : next[y] = s[y]

LEMMA SetsOne ==
    ASSUME NEW s \in State, NEW w
    PROVE  /\ Sets([s EXCEPT !.brightness = w], s, "brightness", w)
           /\ Sets([s EXCEPT !.rotation = w], s, "rotation", w)
<1>1. /\ s = [x \in {"media", "preset", "look", "brightness", "rotation", "fan"} |-> s[x]]
      /\ DOMAIN Default = {"media", "preset", "look", "brightness", "rotation", "fan"}
  BY DEF State, Default
<1> DEFINE b == [s EXCEPT !.brightness = w]  r == [s EXCEPT !.rotation = w]
<1>2. /\ b.brightness = w /\ \A x \in (DOMAIN Default) \ {"brightness"} : b[x] = s[x]
      /\ r.rotation = w /\ \A x \in (DOMAIN Default) \ {"rotation"} : r[x] = s[x]
  BY <1>1
<1>3. /\ b.media = s.media /\ b.preset = s.preset /\ b.look = s.look
      /\ b.rotation = s.rotation /\ b.fan = s.fan
      /\ r.media = s.media /\ r.preset = s.preset /\ r.look = s.look
      /\ r.brightness = s.brightness /\ r.fan = s.fan
  BY <1>1, <1>2
<1> HIDE DEF b, r
<1>4. Sets(b, s, "brightness", w)
  BY <1>2, <1>3, FieldNames DEF Wanted, Sets
<1>5. Sets(r, s, "rotation", w)
  BY <1>2, <1>3, FieldNames DEF Wanted, Sets
<1> QED
  BY <1>4, <1>5 DEF b, r

LEMMA ApplyAlone ==
    ASSUME Types, NEW a \in Actors, Alone(a), Apply(a)
    PROVE  Alone(a)'
<1> DEFINE j == job[a]  fields == Sends(j.to, j.saved)  values == Sent(j.to, j.saved)
           t == AfterApply(a)
<1>1. Step(a) = "apply" /\ Asking(a, fields, values, fields, Applied(a)) /\ ~Idle(a)
  BY ApplyDoes DEF Asking
<1>2. Applied(a) = Having(a, j.saved, fields, t)
  BY DEF Applied
<1>3. /\ ~Has(t, "load") /\ ~Has(t, "connect") /\ ~Has(t, "apply")
      /\ \A step : Has(t, step) => step \in DaemonStep \/ Has(Rest(a), step)
      /\ Head(t) \in {"daemon open", Head(Rest(a))}
  BY <1>1, AfterApplyProper
<1>4. /\ JobOK(Plugged(bus), j) /\ Rest(a) # << >>
      /\ \A step : Has(j.todo, step) <=> step = "apply" \/ Has(Rest(a), step)
      /\ ~Has(j.todo, "load") /\ Has(j.todo, "apply")
      /\ Head(Rest(a)) \notin {"write", "daemon write", "rename", "daemon rename"}
  BY <1>1, Doing, NextOf, Late
<1>5. j.saved \in State
  BY <1>4 DEF JobOK
<1>6. /\ \A f \in fields : Wanted(j.saved)[f] \in {None, values[f]}
      /\ \A f \in Fields \ fields : f = "fan" \/ Wanted(j.saved)[f] = None
      /\ "fan" \notin fields
  BY <1>5, SentMayShow
<1>7. j.kind = "restore" => j.sent = {}
  BY <1>1, <1>4 DEF Alone, Goes, SentShown
<1>8. Has(t, "fan") => Has(j.todo, "fan")
  BY <1>3, <1>4 DEF DaemonStep
<1> HIDE DEF fields, values, t
<1>9. Sound(j, fields, values, j.saved, t)
  BY <1>3, <1>4, <1>6, <1>7, <1>8 DEF Sound
<1>10. Head(t) \notin {"write", "daemon write", "rename", "daemon rename"}
  BY <1>3, <1>4
<1> QED
  BY <1>1, <1>2, <1>9, <1>10, AskingAlone

\* A request for one setting, and not of a restore.
LEMMA OneSettingSound ==
    ASSUME Types, NEW a \in Actors, ~Idle(a), Step(a) \in {"brightness", "rotate"},
           NEW f \in Fields, NEW values, NEW s, job[a].kind # "restore",
           f # "fan", Sets(s, job[a].saved, f, values[f]), values[f] = job[a].asks[f],
           Has(Rest(a), "load") => job[a].kind \in LoadsAfter /\ f = Asked(job[a].kind),
           job[a].kind \notin TabKinds => f \in About(job[a].kind)
    PROVE  /\ Sound(job[a], {f}, values, s, Rest(a))
           /\ Head(Rest(a)) \notin {"write", "daemon write", "rename", "daemon rename"}
<1>1. /\ Rest(a) # << >> /\ ~Has(job[a].todo, "connect")
      /\ \A step : Has(job[a].todo, step) <=> step = Step(a) \/ Has(Rest(a), step)
      /\ Head(Rest(a)) \notin {"write", "daemon write", "rename", "daemon rename"}
  BY Doing, NextOf, Late, Linked
<1>2. /\ Has(Rest(a), "load") <=> Has(job[a].todo, "load")
      /\ Has(job[a].todo, "apply") => Has(Rest(a), "apply")
      /\ ~Has(Rest(a), "connect")
  BY <1>1
<1>3. s.fan = job[a].saved.fan
  BY DEF Sets, Default
<1>4. job[a].kind \notin TabKinds =>
        \A x \in (DOMAIN Default) \ About(job[a].kind) : s[x] = job[a].saved[x]
  BY DEF Sets
<1>5. /\ \A g \in {f} : Wanted(s)[g] \in {None, values[g]}
      /\ \A g \in Fields \ {f} : Wanted(s)[g] = Wanted(job[a].saved)[g]
  BY DEF Sets
<1> QED
  BY <1>1, <1>2, <1>3, <1>4, <1>5 DEF Sound

\* It is answered, or not, and the look may be lost to it.
LEMMA TunesAlone ==
    ASSUME Types, NEW a \in Actors, Alone(a), ~Idle(a), Step(a) \in {"brightness", "rotate"},
           NEW f \in {"brightness", "rotation"}, NEW s, job[a].kind # "restore",
           Sets(s, job[a].saved, f, job[a].asks[f]),
           Has(Rest(a), "load") => job[a].kind \in LoadsAfter /\ f = Asked(job[a].kind),
           job[a].kind \notin TabKinds => f \in About(job[a].kind),
           Tunes(a, f, Having(a, s, {f}, Rest(a)))
    PROVE  Alone(a)'
<1>1. PICK look \in Looks \cup {None} :
        /\ "look" \in job[a].sent => Losing(a, look) = {}
        /\ Asking(a, {f} \cup Losing(a, look), Tuning(a, f, look), {f},
                  Having(a, s, {f}, Rest(a)))
  BY DEF Tunes
<1> DEFINE fields == {f} \cup Losing(a, look)  values == Tuning(a, f, look)
<1>2. f \in Fields /\ f # "fan"
  BY FieldNames
<1>3. values[f] = job[a].asks[f]
  BY DEF Tuning
<1>4. {f} \in SUBSET fields /\ (fields \ {f}) \cap job[a].sent = {}
  BY <1>1 DEF Losing
<1>5. Asking(a, fields, values, {f}, Having(a, s, {f}, Rest(a)))
  BY <1>1
<1> HIDE DEF fields, values
<1>6. /\ Sound(job[a], {f}, values, s, Rest(a))
      /\ Head(Rest(a)) \notin {"write", "daemon write", "rename", "daemon rename"}
  BY <1>2, <1>3, OneSettingSound
<1> QED
  BY <1>4, <1>5, <1>6, AskingAlone

LEMMA BrightnessAlone ==
    ASSUME Types, NEW a \in Actors, Alone(a), Brightness(a)
    PROVE  Alone(a)'
<1> DEFINE j == job[a]  s == [j.saved EXCEPT !.brightness = j.asks.brightness]
<1>1. /\ Step(a) = "brightness" /\ j.kind \in {"brightness", "several", "ui brightness"}
      /\ Tunes(a, "brightness", Brightened(a)) /\ ~Idle(a)
  BY BrightnessDoes
<1>2. Brightened(a) = Having(a, s, {"brightness"}, Rest(a))
  BY DEF Brightened
<1>3. JobOK(Plugged(bus), j) /\ (Has(Rest(a), "load") => Before(j.kind, "brightness", "load"))
  BY <1>1, Doing, NextOf
<1>4. j.saved \in State
  BY <1>3 DEF JobOK
<1>5. Sets(s, j.saved, "brightness", j.asks.brightness)
  BY <1>4, SetsOne, Zenon
<1>6. "brightness" \in About(j.kind)
  BY <1>1 DEF About
<1>7. Has(Rest(a), "load") => j.kind \in LoadsAfter /\ Asked(j.kind) = "brightness"
  BY <1>1, <1>3 DEF Before, LoadsAfter, Asked
<1> HIDE DEF s
<1> DEFINE f == "brightness"
<1>8. /\ Sets(s, j.saved, f, j.asks[f])
      /\ Has(Rest(a), "load") => j.kind \in LoadsAfter /\ f = Asked(j.kind)
      /\ j.kind \notin TabKinds => f \in About(j.kind)
      /\ f \in {"brightness", "rotation"} /\ j.kind # "restore"
      /\ Step(a) \in {"brightness", "rotate"} /\ ~Idle(a)
      /\ Tunes(a, f, Having(a, s, {f}, Rest(a)))
  BY <1>1, <1>2, <1>5, <1>6, <1>7
<1> HIDE DEF f
<1> QED
  BY <1>8, TunesAlone

LEMMA RotateAlone ==
    ASSUME Types, NEW a \in Actors, Alone(a), Rotate(a)
    PROVE  Alone(a)'
<1> DEFINE j == job[a]  s == [j.saved EXCEPT !.rotation = j.asks.rotation]
<1>1. /\ Step(a) = "rotate" /\ j.kind \in {"rotate", "several", "ui layout"}
      /\ Tunes(a, "rotation", Rotated(a)) /\ ~Idle(a)
  BY RotateDoes
<1>2. Rotated(a) = Having(a, s, {"rotation"}, Rest(a))
  BY DEF Rotated
<1>3. JobOK(Plugged(bus), j) /\ (Has(Rest(a), "load") => Before(j.kind, "rotate", "load"))
  BY <1>1, Doing, NextOf
<1>4. j.saved \in State
  BY <1>3 DEF JobOK
<1>5. Sets(s, j.saved, "rotation", j.asks.rotation)
  BY <1>4, SetsOne, Zenon
<1>6. j.kind \notin TabKinds => "rotation" \in About(j.kind)
  BY <1>1 DEF About, TabKinds
<1>7. ~Has(Rest(a), "load")
  BY <1>3 DEF Before
<1> HIDE DEF s
<1> DEFINE f == "rotation"
<1>8. /\ Sets(s, j.saved, f, j.asks[f])
      /\ Has(Rest(a), "load") => j.kind \in LoadsAfter /\ f = Asked(j.kind)
      /\ j.kind \notin TabKinds => f \in About(j.kind)
      /\ f \in {"brightness", "rotation"} /\ j.kind # "restore"
      /\ Step(a) \in {"brightness", "rotate"} /\ ~Idle(a)
      /\ Tunes(a, f, Having(a, s, {f}, Rest(a)))
  BY <1>1, <1>2, <1>5, <1>6, <1>7
<1> HIDE DEF f
<1> QED
  BY <1>8, TunesAlone

LEMMA FanAlone ==
    ASSUME Types, NEW a \in Actors, Alone(a), Fan(a)
    PROVE  Alone(a)'
<1> DEFINE j == job[a]  values == [fan |-> Speed(a)]
<1>1. /\ ~Idle(a) /\ Step(a) = "fan" /\ j.kind \in {"fan", "restore"}
      /\ \/ Asking(a, {"fan"}, values, {"fan"}, Fanned(a))
         \/ /\ j.kind = "restore"
            /\ job' = [job EXCEPT ![a] = [j EXCEPT !.todo = Rest(a)]]
            /\ UNCHANGED <<bus, daemon, file, temp, fd, display, ui, left, unsure>>
  BY FanDoes
<1>2. CASE ~Asking(a, {"fan"}, values, {"fan"}, Fanned(a))
  BY <1>1, <1>2, RestoreGoesOn
<1>3. CASE Asking(a, {"fan"}, values, {"fan"}, Fanned(a))
  <2>1. Fanned(a) = Having(a, j.saved, {"fan"}, Rest(a))
    BY DEF Fanned
  <2>2. /\ Rest(a) # << >> /\ ~Has(j.todo, "connect")
        /\ \A step : Has(j.todo, step) <=> step = "fan" \/ Has(Rest(a), step)
        /\ \A step : Has(Rest(a), step) => Before(j.kind, "fan", step)
        /\ MayFollow(j.kind, "fan", Head(Rest(a)))
        /\ Head(Rest(a)) \notin {"write", "daemon write", "rename", "daemon rename"}
    BY <1>1, Doing, NextOf, Late, Linked
  <2>3. ~Has(Rest(a), "connect") /\ ~Has(Rest(a), "apply") /\ ~Has(j.todo, "apply")
        /\ (Has(Rest(a), "load") <=> Has(j.todo, "load")) /\ Has(j.todo, "fan")
    BY <2>2 DEF Before
  <2>4. j.kind = "fan" => Has(Rest(a), "load")
    <3>1. j.kind = "fan" => Head(Rest(a)) = "load"
      BY <2>2 DEF MayFollow
    <3>2. Rest(a) \in Seq(Steps)
      <4>1. Proper(j.kind, Rest(a))
        BY <1>1, Doing
      <4> QED
        BY <4>1 DEF Proper
    <3>3. 1 \in 1..Len(Rest(a)) /\ Head(Rest(a)) = Rest(a)[1]
      <4>1. Len(Rest(a)) \in Nat \ {0}
        BY <2>2, <3>2, EmptySeq
      <4> QED
        BY <3>2, <4>1
    <3> QED
      BY <3>1, <3>3 DEF Has
  <2>5. j.kind = "restore" =>
          /\ ~Has(Rest(a), "load") /\ ~Has(Rest(a), "fan") /\ "fan" \notin j.sent
    <3>1. j.kind = "restore" => ~Has(Rest(a), "load")
      BY <2>2 DEF Before
    <3>2. j.kind = "restore" => "fan" \notin j.sent
      BY <1>1, <2>3 DEF Alone, Goes, SentShown
    <3>3. ~Has(Rest(a), "fan")
      BY <2>2 DEF Before
    <3> QED
      BY <3>1, <3>2, <3>3
  <2>6. Wanted(j.saved).fan \in {None, values.fan}
    <3>1. CASE j.kind = "restore"
      BY <3>1 DEF Wanted, Speed
    <3>2. CASE j.kind = "fan"
      <4>1. j.saved.fan = None
        BY <1>1, <2>3, <2>4, <3>2 DEF Alone, Goes, Unloaded
      <4> QED
        BY <4>1 DEF Wanted
    <3> QED
      BY <1>1, <3>1, <3>2
  <2>7. j.kind = "fan" => values.fan = j.asks.fan
    BY DEF Speed
  <2> HIDE DEF values
  <2>8. Has(Rest(a), "load") =>
          /\ j.kind \in LoadsAfter /\ {"fan"} = {Asked(j.kind)}
          /\ values[Asked(j.kind)] = j.asks[Asked(j.kind)]
    BY <1>1, <2>5, <2>7 DEF LoadsAfter, Asked
  <2>9. Sound(j, {"fan"}, values, j.saved, Rest(a))
    BY <2>3, <2>5, <2>6, <2>8 DEF Sound
  <2> QED
    BY <1>3, <2>1, <2>2, <2>9, AskingAlone
<1> QED
  BY <1>2, <1>3

-----------------------------------------------------------------------------
(* One job at a time: a display loses what it shows.                       *)

\* Another display changes, or none.
LEMMA GoesElsewhere ==
    ASSUME NEW dis, NEW u, NEW s, NEW plugged, NEW j, JobOK(plugged, j), Goes(dis, u, s, j),
           NEW dis2, NEW u2,
           j.to # Refused => dis2[j.to.at] = dis[j.to.at] /\ u2[j.to.at] = u[j.to.at]
    PROVE  Goes(dis2, u2, s, j)
<1>1. j.to = Refused => j.sent = {}
  BY DEF JobOK, Goes, SentShown
<1>2. \A f : Known(u, j, f) => Known(u2, j, f)
  BY DEF Known
<1>3. \A f \in j.sent : dis2[j.to.at] = dis[j.to.at]
  BY <1>1
<1>4. SentShown(dis2, j)
  BY <1>3 DEF Goes, SentShown
<1>5. Unloaded(dis2, u2, j)
  BY <1>2, <1>3 DEF Goes, Unloaded
<1>6. Changed(u2, s, j)
  BY <1>2 DEF Goes, Changed
<1> QED
  BY <1>4, <1>5, <1>6 DEF Goes

\* What the job has sent is lost, and all of the display is unsure.
LEMMA GoesUnsent ==
    ASSUME NEW dis, NEW u, NEW s, NEW plugged, NEW j, JobOK(plugged, j), Goes(dis, u, s, j),
           NEW dis2, NEW u2, j.to # Refused, u2[j.to.at] = Fields,
           NEW x, x = Job(j, j.saved, j.to, j.via, {}, j.todo)
    PROVE  Goes(dis2, u2, s, x)
<1>1. /\ x.kind = j.kind /\ x.asks = j.asks /\ x.saved = j.saved /\ x.to = j.to
      /\ x.sent = {} /\ x.todo = j.todo
  BY JobFields
<1>2. \A f \in Fields : Known(u2, x, f)
  BY <1>1 DEF Known
<1>3. SentShown(dis2, x)
  BY <1>1 DEF Goes, SentShown
<1>4. Unloaded(dis2, u2, x)
  <2>1. Asked(x.kind) \in Fields
    BY FieldNames DEF Asked
  <2> QED
    BY <1>1, <1>2, <2>1 DEF Goes, Unloaded
<1>5. Changed(u2, s, x)
  BY <1>2 DEF Changed
<1>6. Kept(s, x)
  BY <1>1 DEF Goes, Kept
<1> QED
  BY <1>3, <1>4, <1>5, <1>6 DEF Goes

LEMMA PowerCycleAlone ==
    ASSUME Types, NEW a \in Actors, Alone(a), NEW d \in Plugged(bus), PowerCycle(d)
    PROVE  Alone(a)'
<1>1. /\ UNCHANGED <<bus, daemon, file, temp, fd, ui, left>>
      /\ display'[d] = Factory /\ unsure'[d] = Fields
      /\ \A e \in Plugged(bus) \ {d} : display'[e] = display[e] /\ unsure'[e] = unsure[e]
      /\ \A b \in Actors :
           job'[b] = IF ~Idle(b) /\ job[b].to.at = d
                     THEN [job[b] EXCEPT !.sent = {}] ELSE job[b]
  BY DEF PowerCycle, Types
<1> DEFINE Lost(b) == ~Idle(b) /\ job[b].to.at = d
           y(b) == [job[b] EXCEPT !.sent = {}]
<1>2. ASSUME NEW b \in Actors, Lost(b)
      PROVE  /\ JobOK(Plugged(bus), job[b])
             /\ job'[b] = y(b) /\ y(b) = Job(job[b], job[b].saved, job[b].to, job[b].via, {},
                                             job[b].todo)
             /\ ~Idle(b)' /\ Step(b)' = Step(b) /\ job'[b].saved = job[b].saved
             /\ job'[b].to = job[b].to
  <2>1. JobOK(Plugged(bus), job[b])
    BY <1>2, Doing
  <2>2. /\ JobOK(Plugged(bus), y(b))
        /\ y(b) = Job(job[b], job[b].saved, job[b].to, job[b].via, {}, job[b].todo)
    BY <2>1, UnsentOK
  <2>3. y(b).todo = job[b].todo /\ y(b).saved = job[b].saved /\ y(b).to = job[b].to
    BY <2>2, JobFields
  <2>4. job'[b] = y(b)
    BY <1>1, <1>2
  <2>5. ~Idle(b)' /\ Step(b)' = Head(y(b).todo)
    BY <2>2, <2>4, StillBusy
  <2>6. Step(b) = Head(job[b].todo)
    BY <1>2 DEF Step
  <2> QED
    BY <2>1, <2>2, <2>3, <2>4, <2>5, <2>6
<1>3. ASSUME NEW b \in Actors, ~Lost(b)
      PROVE  job'[b] = job[b] /\ Idle(b)' = Idle(b) /\ Step(b)' = Step(b)
  BY <1>1, <1>3 DEF Idle, Step
<1> HIDE DEF y, Lost
<1>4. \A b \in Actors : /\ Idle(b)' <=> Idle(b)
                        /\ Step(b)' = Step(b)
  <2> TAKE b \in Actors
  <2>1. CASE Lost(b)
    BY <1>2, <2>1 DEF Lost
  <2>2. CASE ~Lost(b)
    BY <1>3, <2>2
  <2> QED
    BY <2>1, <2>2
<1>5. Quiet'
  BY <1>1, <1>4 DEF Alone, Quiet
<1>6. Writes(a)'
  <2>1. ~Idle(a) => job'[a].saved = job[a].saved
    BY <1>2, <1>3
  <2>2. Step(a) # "none" => ~Idle(a)
    BY DEF Step
  <2> QED
    BY <1>1, <1>4, <2>1, <2>2 DEF Alone, Writes
<1>7. FileTold(a)'
  <2>1. ASSUME NEW e \in Plugged(bus), NEW f \in Fields \ unsure'[e]
        PROVE  \/ Told(load(file), display'[e], f)
               \/ ~Idle(a)' /\ e = job'[a].to.at /\ f \in job'[a].sent
    <3>1. e # d
      BY <1>1
    <3>2. display'[e] = display[e] /\ f \notin unsure[e]
      BY <1>1, <3>1
    <3>3. \/ Told(load(file), display[e], f)
          \/ ~Idle(a) /\ e = job[a].to.at /\ f \in job[a].sent
      BY <3>2 DEF Alone, FileTold
    <3>4. ~Idle(a) /\ e = job[a].to.at => job'[a] = job[a]
      BY <1>3, <3>1 DEF Lost
    <3> QED
      BY <1>4, <3>2, <3>3, <3>4
  <2> QED
    BY <1>1, <2>1 DEF FileTold
<1>8. ASSUME ~Idle(a) PROVE Goes(display', unsure', load(file), job'[a])
  <2>1. Goes(display, unsure, load(file), job[a]) /\ JobOK(Plugged(bus), job[a])
    BY <1>8, Doing DEF Alone
  <2>2. CASE Lost(a)
    <3>1. /\ job'[a] = y(a)
          /\ y(a) = Job(job[a], job[a].saved, job[a].to, job[a].via, {}, job[a].todo)
      BY <1>2, <2>2
    <3>2. unsure'[job[a].to.at] = Fields
      BY <1>1, <2>2 DEF Lost
    <3>3. job[a].to # Refused
      <4>1. Refused.at = None /\ None \notin Places
        BY PlacesAssumption DEF Refused
      <4>2. d \in Places
        BY BusesAssumption DEF Types, Plugged
      <4> QED
        BY <2>2, <4>1, <4>2 DEF Lost
    <3>4. Goes(display', unsure', load(file), y(a))
      BY <2>1, <3>1, <3>2, <3>3, GoesUnsent
    <3> QED
      BY <3>1, <3>4
  <2>3. CASE ~Lost(a)
    <3>1. job[a].to # Refused => job[a].to.at \in Plugged(bus) \ {d}
      <4>1. job[a].to # Refused => job[a].to \in Links(Plugged(bus))
        BY <2>1 DEF JobOK
      <4> QED
        BY <1>8, <2>3, <4>1, LinkFields DEF Lost
    <3>2. job[a].to # Refused => /\ display'[job[a].to.at] = display[job[a].to.at]
                                 /\ unsure'[job[a].to.at] = unsure[job[a].to.at]
      BY <1>1, <3>1
    <3>3. Goes(display', unsure', load(file), job[a])
      BY <2>1, <3>2, GoesElsewhere
    <3> QED
      BY <1>3, <2>3, <3>3
  <2> QED
    BY <2>2, <2>3
<1>9. ~Idle(a)' => Goes(display, unsure, load(file), job[a])'
  BY <1>1, <1>4, <1>8
<1> QED
  BY <1>5, <1>6, <1>7, <1>9 DEF Alone

-----------------------------------------------------------------------------
(* One job at a time: every step.                                          *)

LEMMA InitAlone == Init => IInv
<1> SUFFICES ASSUME Init, NEW a \in Actors PROVE Alone(a)
  BY DEF IInv
<1>1. /\ \A b \in Actors : Idle(b) /\ fd[b] = "none"
      /\ file = NoFile /\ unsure = [d \in Plugged(bus) |-> Fields]
  BY DEF Init, Idle, NoJob
<1>2. Writes(a)
  BY <1>1, FilesAssumption DEF Writes, Step
<1>3. FileTold(a)
  BY <1>1 DEF FileTold
<1> QED
  BY <1>1, <1>2, <1>3 DEF Alone, Quiet

\* The only one at work, or a process that does nothing when nobody does.
LEMMA Spread ==
    ASSUME NEW a \in Actors, Others(a), Alone(a)', \A b \in Actors \ {a} : job'[b] = job[b]
    PROVE  IInv'
<1> SUFFICES ASSUME NEW b \in Actors, Others(b)', b # a PROVE Alone(b)'
  BY DEF IInv
<1>1. Idle(b)' /\ Idle(a)'
  BY DEF Others, Idle
<1>2. Quiet' /\ Writes(a)' /\ FileTold(a)'
  BY DEF Alone
<1>3. Writes(b)'
  BY <1>1, <1>2 DEF Writes, Step
<1>4. FileTold(b)'
  BY <1>1, <1>2 DEF FileTold
<1> QED
  BY <1>1, <1>2, <1>3, <1>4 DEF Alone

\* Who begins is the only one to do anything afterwards; who takes another step
\* was the only one before.
Begins(a) ==
    \/ \E kind \in Kinds, aim \in Aims : \E asks \in Asks(kind) :
           Command(a, kind, aim, asks)
    \/ \E aim \in Aims : Restore(a, aim)
    \/ \E kind \in Kinds : \E asks \in Asks(kind) : Interface(a, kind, asks)

LEMMA BeginsOnly ==
    ASSUME Types, NEW a \in Actors, Begins(a)
    PROVE  ~Idle(a)' /\ \A b \in Actors \ {a} : job'[b] = job[b]
<1>1. /\ Kinds \subseteq JobKinds /\ "none" \notin JobKinds /\ "restore" \in JobKinds
  BY KindsAssumption DEF JobKinds, UiKinds
<1>2. ASSUME NEW j, Begin(a, j) PROVE job'[a] = j /\ \A b \in Actors \ {a} : job'[b] = job[b]
  BY <1>2, OneJob DEF Begin
<1>3. ASSUME NEW kind \in Kinds, NEW aim \in Aims, NEW asks \in Asks(kind),
             Command(a, kind, aim, asks)
      PROVE  ~Idle(a)' /\ \A b \in Actors \ {a} : job'[b] = job[b]
  BY <1>1, <1>2, <1>3 DEF Command, NewJob, Idle
<1>4. ASSUME NEW aim \in Aims, Restore(a, aim)
      PROVE  ~Idle(a)' /\ \A b \in Actors \ {a} : job'[b] = job[b]
  <2> DEFINE to == select_backend(bus, aim)
             j == [NewJob("restore", aim, [none |-> None], None) EXCEPT !.to = to]
  <2>1. Begin(a, j)
    BY <1>4 DEF Restore
  <2>2. j.kind = "restore"
    BY DEF NewJob
  <2> HIDE DEF j
  <2> QED
    BY <1>2, <2>1, <2>2 DEF Idle
<1>5. ASSUME NEW kind \in Kinds, NEW asks \in Asks(kind), Interface(a, kind, asks)
      PROVE  ~Idle(a)' /\ \A b \in Actors \ {a} : job'[b] = job[b]
  <2> DEFINE screen == ui'  j == NewJob(kind, NoAim, asks, screen)
  <2>1. Begin(a, j)
    BY <1>5 DEF Interface
  <2>2. j.kind = kind
    BY DEF NewJob
  <2> HIDE DEF j
  <2>3. job'[a] = j /\ \A b \in Actors \ {a} : job'[b] = job[b]
    BY <2>1, OneJob DEF Begin
  <2> QED
    BY <1>1, <2>2, <2>3 DEF Idle
<1> QED
  BY <1>3, <1>4, <1>5 DEF Begins

Requests(a) == Apply(a) \/ Brightness(a) \/ Rotate(a) \/ Fan(a)
Works(a) ==
    \/ Load(a) \/ Connect(a) \/ Unanswered(a) \/ SkipApply(a) \/ Requests(a)
    \/ OpenTemp(a) \/ WriteTemp(a) \/ Rename(a) \/ SaveFails(a) \/ Die(a)

\* A job changes, and no other.
LEMMA AskingOnly ==
    ASSUME Types, NEW a \in Actors, NEW fields, NEW values, NEW claims, NEW x,
           Asking(a, fields, values, claims, x)
    PROVE  ~Idle(a) /\ \A b \in Actors \ {a} : job'[b] = job[b]
<1>1. job = [b \in Actors |-> job[b]]
  BY DEF Types
<1>2. \E y : job' = [job EXCEPT ![a] = y]
  BY DEF Asking, Answered, Missed, Failed
<1> QED
  BY <1>1, <1>2 DEF Asking

LEMMA WorksOnly ==
    ASSUME Types, NEW a \in Actors, Works(a)
    PROVE  ~Idle(a) /\ \A b \in Actors \ {a} : job'[b] = job[b]
<1>1. ASSUME \E y : job' = [job EXCEPT ![a] = y] PROVE \A b \in Actors \ {a} : job'[b] = job[b]
  BY <1>1 DEF Types
<1>2. ASSUME NEW todo, GoOn(a, todo) PROVE \E y : job' = [job EXCEPT ![a] = y]
  BY <1>2 DEF GoOn, Over
<1>3. CASE Load(a)
  <2>1. \E y : job' = [job EXCEPT ![a] = y]
    BY <1>3 DEF Load
  <2> QED
    BY <1>1, <1>3, <2>1, Stepping DEF Load
<1>4. CASE Connect(a)
  <2>1. \E y : job' = [job EXCEPT ![a] = y]
    BY <1>4, ConnectDoes DEF Over
  <2> QED
    BY <1>1, <1>4, <2>1, Stepping DEF Connect
<1>5. CASE Unanswered(a) \/ SkipApply(a)
  BY <1>1, <1>2, <1>5, UnansweredLeaves
<1>6. CASE Requests(a)
  <2>1. CASE Apply(a)
    BY <2>1, ApplyDoes, AskingOnly
  <2>2. CASE Brightness(a)
    BY <2>2, BrightnessDoes, AskingOnly DEF Tunes
  <2>3. CASE Rotate(a)
    BY <2>3, RotateDoes, AskingOnly DEF Tunes
  <2>4. CASE Fan(a)
    <3>1. CASE Asking(a, {"fan"}, [fan |-> Speed(a)], {"fan"}, Fanned(a))
      BY <3>1, AskingOnly
    <3>2. CASE job' = [job EXCEPT ![a] = [job[a] EXCEPT !.todo = Rest(a)]]
      BY <1>1, <2>4, <3>2, FanDoes
    <3> QED
      BY <2>4, <3>1, <3>2, FanDoes
  <2> QED
    BY <1>6, <2>1, <2>2, <2>3, <2>4 DEF Requests
<1>7. CASE OpenTemp(a) \/ WriteTemp(a)
  <2>1. \E y : job' = [job EXCEPT ![a] = y]
    BY <1>7 DEF OpenTemp, WriteTemp
  <2> QED
    BY <1>1, <1>7, <2>1, Stepping DEF OpenTemp, WriteTemp
<1>8. CASE Rename(a)
  BY <1>1, <1>8, RenameDoes
<1>9. CASE SaveFails(a)
  BY <1>1, <1>2, <1>9, SaveFailsLeaves
<1>10. CASE Die(a)
  BY <1>1, <1>2, <1>10, DieLeaves
<1> QED
  BY <1>3, <1>4, <1>5, <1>6, <1>7, <1>8, <1>9, <1>10 DEF Works

LEMMA WorksAlone ==
    ASSUME Types, NEW a \in Actors, Others(a), Alone(a), Works(a)
    PROVE  Alone(a)'
<1>1. CASE Load(a) \/ Connect(a) \/ Unanswered(a) \/ SkipApply(a)
  BY <1>1, LoadAlone, ConnectAlone, UnansweredAlone
<1>2. CASE Requests(a)
  BY <1>2, ApplyAlone, BrightnessAlone, RotateAlone, FanAlone DEF Requests
<1>3. CASE OpenTemp(a) \/ WriteTemp(a) \/ Rename(a)
  BY <1>3, OpenTempAlone, WriteTempAlone, RenameAlone
<1>4. CASE SaveFails(a) \/ Die(a)
  BY <1>4, SaveFailsAlone, DieAlone
<1> QED
  BY <1>1, <1>2, <1>3, <1>4 DEF Works

\* Next, by who acts.
LEMMA NextIs ==
    ASSUME Next
    PROVE  \/ \E a \in Actors : Begins(a) \/ Works(a)
           \/ OpenInterface \/ \E look \in Looks : EditInterface(look)
           \/ DaemonDies
           \/ \E d \in Plugged(bus) : PowerCycle(d)
BY DEF Next, Begins, Works, Requests

LEMMA NextAlone ==
    ASSUME Types, IInv, OneAtATime, OneAtATime', [Next]_vars
    PROVE  IInv'
<1>1. ASSUME NEW a \in Actors, Begins(a) PROVE IInv'
  <2>1. ~Idle(a)' /\ \A b \in Actors \ {a} : job'[b] = job[b]
    BY <1>1, BeginsOnly
  <2>2. Others(a)
    BY <2>1 DEF OneAtATime, Others, Idle
  <2>3. Alone(a)
    BY <2>2 DEF IInv
  <2>4. Alone(a)'
    BY <1>1, <2>3, BeginsAlone DEF Begins
  <2> QED
    BY <2>1, <2>2, <2>4, Spread
<1>2. ASSUME NEW a \in Actors, Works(a) PROVE IInv'
  <2>1. ~Idle(a) /\ \A b \in Actors \ {a} : job'[b] = job[b]
    BY <1>2, WorksOnly
  <2>2. Others(a)
    BY <2>1 DEF OneAtATime, Others
  <2>3. Alone(a)'
    BY <1>2, <2>2, WorksAlone DEF IInv
  <2> QED
    BY <2>1, <2>2, <2>3, Spread
<1>3. ASSUME UNCHANGED <<bus, file, temp, fd, display, job, unsure>> PROVE IInv'
  <2> SUFFICES ASSUME NEW a \in Actors, Others(a)' PROVE Alone(a)'
    BY DEF IInv
  <2>1. Others(a)
    BY <1>3 DEF Others, Idle
  <2> QED
    BY <1>3, <2>1, SameAlone DEF IInv
<1>4. CASE OpenInterface \/ \E look \in Looks : EditInterface(look)
  <2>1. UNCHANGED <<bus, file, temp, fd, display, job, unsure>>
    BY <1>4 DEF OpenInterface, EditInterface
  <2> QED
    BY <1>3, <2>1
<1>5. CASE DaemonDies
  <2>1. CASE \E b \in Actors : Step(b) \in DaemonStep
    <3>1. PICK b \in Actors : Step(b) \in DaemonStep /\ Over(b, FALSE)
      BY <1>5, <2>1 DEF DaemonDies
    <3>2. ~Idle(b) /\ \A c \in Actors \ {b} : job'[c] = job[c]
      BY <3>1, Stepping DEF Over, DaemonStep, Types
    <3>3. Others(b)
      BY <3>2 DEF OneAtATime, Others
    <3>4. Alone(b)'
      BY <1>5, <3>3, DaemonDiesAlone DEF IInv
    <3> QED
      BY <3>2, <3>3, <3>4, Spread
  <2>2. CASE ~\E b \in Actors : Step(b) \in DaemonStep
    <3>1. UNCHANGED <<bus, file, temp, fd, display, job, unsure>>
      BY <1>5, <2>2 DEF DaemonDies
    <3> QED
      BY <1>3, <3>1
  <2> QED
    BY <2>1, <2>2
<1>6. ASSUME NEW d \in Plugged(bus), PowerCycle(d) PROVE IInv'
  <2> SUFFICES ASSUME NEW a \in Actors, Others(a)' PROVE Alone(a)'
    BY DEF IInv
  <2>1. \A b \in Actors : Idle(b)' => Idle(b)
    <3> TAKE b \in Actors
    <3>1. CASE ~Idle(b) /\ job[b].to.at = d
      <4>1. JobOK(Plugged(bus), job[b])
        BY <3>1, Doing
      <4>2. [job[b] EXCEPT !.sent = {}].kind = job[b].kind
        BY <4>1 DEF JobOK
      <4> QED
        BY <1>6, <3>1, <4>2 DEF PowerCycle, Idle
    <3>2. CASE ~(~Idle(b) /\ job[b].to.at = d)
      BY <1>6, <3>2 DEF PowerCycle, Idle
    <3> QED
      BY <3>1, <3>2
  <2>2. Others(a)
    BY <2>1 DEF Others
  <2> QED
    BY <1>6, <2>2, PowerCycleAlone DEF IInv
<1>7. CASE UNCHANGED vars
  BY <1>3, <1>7 DEF vars
<1> QED
  BY <1>1, <1>2, <1>4, <1>5, <1>6, <1>7, NextIs

-----------------------------------------------------------------------------
(* Theorems of one job at a time.                                          *)

\* What relates the file, the job and the displays holds whenever nobody else
\* is at work.  (With one process, nobody else ever is.)
THEOREM Invariance == Spec /\ []OneAtATime => [](Types /\ IInv)
<1>1. Init => IInv
  BY InitAlone
<1>2. Types /\ IInv /\ OneAtATime /\ OneAtATime' /\ [Next]_vars => IInv'
  BY NextAlone
<1> QED
  BY <1>1, <1>2, TypesHold, PTL DEF Spec

\* Of any number of jobs one after the other, whatever fails and wherever one
\* dies, none finds display.json cut short.  (state.rs, save_to.)
THEOREM Readable == Spec /\ []OneAtATime => []FileReadable
<1>1. IInv /\ OneAtATime => FileReadable
  <2> SUFFICES ASSUME IInv, OneAtATime PROVE file # Torn
    BY DEF FileReadable
  <2>1. PICK a \in Actors : Others(a)
    BY ActorsAssumption DEF OneAtATime, Others
  <2> QED
    BY <2>1 DEF IInv, Alone, Writes
<1> QED
  BY <1>1, Invariance, PTL

\* And once the last is over the file says of each display what it shows, but
\* for the settings that a job could not apply or save.  (README.md, "last
\* applied, which the daemon restores".)
THEOREM Telling == Spec /\ []OneAtATime => []FileTells
<1>1. IInv => FileTells
  <2> SUFFICES ASSUME IInv, \A a \in Actors : Idle(a),
                      NEW d \in Plugged(bus), NEW f \in Fields \ unsure[d]
               PROVE  Wanted(load(file))[f] \in {None, display[d][f]}
    BY DEF FileTells
  <2>1. PICK a \in Actors : Others(a)
    BY ActorsAssumption DEF Others
  <2>2. FileTold(a)
    BY <2>1 DEF IInv, Alone
  <2> QED
    BY <2>2 DEF FileTold, Told
<1> QED
  BY <1>1, Invariance, PTL

\* The file changes when a job renames it.
LEMMA OnlyRenames ==
    ASSUME Types, IInv, OneAtATime, [Next]_vars,
           NEW a \in Actors, Step(a) \in {"rename", "daemon rename"}
    PROVE  file' = file \/ Rename(a)
<1>1. ~Idle(a) /\ Others(a)
  BY Stepping DEF OneAtATime, Others
<1>2. ASSUME NEW b \in Actors, Begins(b) PROVE file' = file
  BY <1>2 DEF Begins, Command, Restore, Interface
<1>3. ASSUME NEW b \in Actors, Works(b) PROVE file' = file \/ Rename(a)
  <2>1. b = a
    BY <1>1, <1>3, WorksOnly DEF Others
  <2>2. CASE Requests(b)
    BY <2>1, <2>2 DEF Requests, Apply, Brightness, Rotate, Fan, Tune, Request
  <2>3. CASE ~Requests(b)
    <3>1. CASE WriteTemp(a)
      BY <1>1, <3>1, WriteTempAlone DEF IInv
    <3>2. CASE ~WriteTemp(a) /\ ~Rename(a)
      BY <1>3, <2>1, <2>3, <3>2
         DEF Works, Load, Connect, Unanswered, SkipApply, OpenTemp, SaveFails, Die
    <3> QED
      BY <3>1, <3>2
  <2> QED
    BY <2>2, <2>3
<1>4. CASE OpenInterface \/ \E look \in Looks : EditInterface(look)
  BY <1>4 DEF OpenInterface, EditInterface
<1>5. CASE DaemonDies \/ \E d \in Plugged(bus) : PowerCycle(d)
  BY <1>5 DEF DaemonDies, PowerCycle
<1>6. CASE UNCHANGED vars
  BY <1>6 DEF vars
<1> QED
  BY <1>2, <1>3, <1>4, <1>5, <1>6, NextIs

\* A command, the daemon's restore and the worker's own changes write the
\* settings that they are not about as they found them.  (state.rs, "so commands
\* can change one setting without resetting the others".)
THEOREM OthersAreKept == Spec /\ []OneAtATime => OthersKept
<1>1. ASSUME Types, IInv, OneAtATime, [Next]_vars PROVE KeepsOthers(Kinds \ TabKinds)
  <2> SUFFICES ASSUME NEW a \in Actors, Step(a) \in {"rename", "daemon rename"},
                      job[a].kind \in Kinds \ TabKinds, load(file') # load(file),
                      NEW s \in (DOMAIN Default) \ About(job[a].kind)
               PROVE  load(file')[s] = load(file)[s]
    BY DEF KeepsOthers
  <2>1. ~Idle(a) /\ Others(a) /\ Step(a) \in {"open", "write", "rename"} \cup DaemonStep
    <3>1. ~Idle(a)
      BY Stepping
    <3>2. Others(a)
      BY <1>1, <3>1 DEF OneAtATime, Others
    <3> QED
      BY <3>1, <3>2 DEF DaemonStep
  <2>2. Rename(a)
    BY <1>1, OnlyRenames
  <2>3. temp = job[a].saved /\ Kept(load(file), job[a])
    BY <1>1, <2>1 DEF IInv, Alone, Writes, Goes
  <2>4. ~Has(job[a].todo, "load") /\ JobOK(Plugged(bus), job[a])
    BY <1>1, <2>1, Late, Doing
  <2>5. load(file') = job[a].saved
    <3>1. job[a].saved \in State /\ job[a].saved \in Files
      BY <2>4 DEF JobOK, Files
    <3>2. file' = job[a].saved
      BY <2>2, <2>3 DEF Rename
    <3> QED
      BY <3>1, <3>2, LoadState
  <2> QED
    BY <2>3, <2>4, <2>5 DEF Kept
<1>2. Spec /\ []OneAtATime => [][KeepsOthers(Kinds \ TabKinds)]_vars
  BY <1>1, Invariance, PTL DEF Spec
<1> QED
  BY <1>2, PTL DEF OthersKept
=============================================================================
