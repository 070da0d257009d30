------------------------- MODULE KanaliSessionProofs -------------------------
(***************************************************************************)
(* Theorems about the link to a display on current firmware, for every set *)
(* of settings, changes and files, any bound on skipped frames and any     *)
(* size of the pipes.                                                      *)
(***************************************************************************)
EXTENDS KanaliSession, TLAPS

\* A call in progress has its arguments, and waits for the step it is at.
JobOK ==
    /\ Running => /\ open
                  /\ job.kind \in Kinds
                  /\ job.at \in 1 .. Len(Plan[job.kind])
                  /\ job.kind = "upload" => job.file \in Files
                  /\ job.kind = "apply" => /\ job.change \in Changes
                                           /\ job.at > 1 => job.seen \in Configs
    /\ Waiting => Running /\ call.request = Step

\* What a request and a reply carry.
SoundRequest(r) ==
    /\ r.request = "write" => r.change \in Changes /\ r.config \in Configs
    /\ r.request \in {"begin", "chunk"} => r.file \in Files

SoundReply(f) == f.body = "configuration" => f.config \in Configs

PipesOK ==
    /\ \A i \in 1 .. Len(toDisplay) : SoundRequest(toDisplay[i])
    /\ \A i \in 1 .. Len(toHost) : SoundReply(toHost[i])

\* With random tracks, the track is the number, and whatever has the number of
\* the request that is waited for is that request, or a reply to it.
OwnRequest(r) == /\ r.track = r.number
                 /\ call.number # 0 /\ r.number = call.number =>
                        r.request = call.request
OwnReply(f) == /\ f.track = f.number
               /\ call.number # 0 /\ f.number = call.number =>
                      f.body \in {Expect[call.request], "error"}

NumbersOK ==
    /\ call.track = call.number
    /\ Waiting /\ job.kind = "boot" => call.number = 0
    /\ \A i \in 1 .. Len(toDisplay) : OwnRequest(toDisplay[i])
    /\ \A i \in 1 .. Len(toHost) : OwnReply(toHost[i])

Inv == TypeOK /\ JobOK /\ PipesOK /\ (~TransferOnly => NumbersOK)

-----------------------------------------------------------------------------
(* The plans.                                                              *)

\* The steps of a call, kind by kind.
LEMMA Plans ==
    /\ Plan.boot = <<"info", "system", "auth">>
    /\ Plan.read = <<"query">>
    /\ Plan.apply = <<"query", "write", "layout", "query">>
    /\ Plan.upload = <<"begin">> \o [i \in 1..Chunks |-> "chunk"] \o <<"end">>
    /\ Plan.remove = <<"remove">>
    /\ Plan.keepalive = <<"ping", "lease">>
    /\ Plan.overlay = <<"layout">>
    /\ Plan.metrics = <<"metrics">>
  BY DEF Plan

\* Every upload begins, sends its chunks and ends.
LEMMA UploadPlan ==
    /\ Plan.upload \in Seq({"begin", "chunk", "end"})
    /\ Len(Plan.upload) = Chunks + 2
    /\ \A i \in 1 .. Chunks + 2 :
         Plan.upload[i] = IF i = 1 THEN "begin" ELSE IF i = Chunks + 2 THEN "end" ELSE "chunk"
<1> DEFINE B == <<"begin">>
           C == [i \in 1 .. Chunks |-> "chunk"]
           E == <<"end">>
           R == {"begin", "chunk", "end"}
<1>1. Chunks \in Nat \ {0}
  BY NumbersAssumption
<1>2. B \in Seq(R) /\ C \in Seq(R) /\ E \in Seq(R) /\ Len(B) = 1 /\ Len(C) = Chunks /\ Len(E) = 1
  BY <1>1
<1>3. B \o C \in Seq(R) /\ Len(B \o C) = Chunks + 1
  BY <1>1, <1>2
<1>4. \A i \in 1 .. Chunks + 1 : (B \o C)[i] = IF i = 1 THEN "begin" ELSE "chunk"
  BY <1>1, <1>2
<1> HIDE DEF B, C
<1>5. /\ (B \o C) \o E \in Seq(R) /\ Len((B \o C) \o E) = Chunks + 2
      /\ \A i \in 1 .. Chunks + 2 : ((B \o C) \o E)[i] =
           IF i = 1 THEN "begin" ELSE IF i = Chunks + 2 THEN "end" ELSE "chunk"
  BY <1>1, <1>2, <1>3, <1>4
<1> QED
  BY <1>5, Plans DEF B, C, E

LEMMA PlanLength ==
    ASSUME NEW kind \in Kinds
    PROVE  Len(Plan[kind]) \in Nat \ {0}
<1>1. CASE kind = "upload"
  BY <1>1, UploadPlan, NumbersAssumption
<1>2. CASE kind # "upload"
  BY <1>2, Plans DEF Kinds
<1> QED
  BY <1>1, <1>2

\* The step of a call in progress is a request; only bootstrap and keepalive
\* send untracked ones, and only apply writes a configuration.
LEMMA StepOf ==
    ASSUME Running, JobOK
    PROVE  /\ Step \in Requests
           /\ job.kind = "boot" => Step \in Untracked \ Unanswered
           /\ Step = "write" => job.kind = "apply" /\ job.at = 2
           /\ Step \in {"begin", "chunk"} => job.kind = "upload"
<1>1. CASE job.kind = "upload"
  <2>1. Step \in {"begin", "chunk", "end"}
    BY <1>1, UploadPlan DEF JobOK, Step
  <2> QED
    BY <1>1, <2>1 DEF Requests, Unanswered
<1>2. job.kind \in Kinds /\ job.at \in 1 .. Len(Plan[job.kind])
  BY DEF JobOK
<1>3. CASE job.kind = "boot"
  BY SMTT(30), <1>2, <1>3, Plans DEF Step, Requests, Untracked, Unanswered
<1>4. CASE job.kind = "apply"
  BY <1>2, <1>4, Plans DEF Step, Requests
<1>5. CASE job.kind \in {"read", "remove", "keepalive", "overlay", "metrics"}
  BY <1>2, <1>5, Plans DEF Step, Requests
<1> QED
  BY <1>1, <1>2, <1>3, <1>4, <1>5 DEF Kinds

-----------------------------------------------------------------------------
(* What a step does to the call in progress.                               *)

LEMMA ExpectType ==
    /\ \A r \in Requests : Expect[r] \in Bodies
    /\ \A r \in Requests : Expect[r] = "configuration" <=> r = "query"
  BY DEF Expect, Requests, Bodies

LEMMA IdleType == Idle \in Job /\ NoCall \in Call
  BY NumbersAssumption DEF Idle, NoCall, Job, Call

LEMMA FailKeeps ==
    ASSUME Fail
    PROVE  open' \in BOOLEAN /\ job' \in Job /\ call' = NoCall /\ JobOK'
  BY IdleType DEF Fail, JobOK, Running, Waiting, Idle, NoCall

LEMMA MakeKeeps ==
    ASSUME NEW kind \in Kinds, NEW change \in Changes \cup {Nothing},
           NEW file \in Files \cup {NoFile}, Make(kind, change, file),
           kind = "upload" => file \in Files, kind = "apply" => change \in Changes,
           ~Waiting, UNCHANGED call, open'
    PROVE  job' \in Job /\ JobOK'
<1>1. job' = [kind |-> kind, at |-> 1, change |-> change, file |-> file,
              seen |-> Nothing, state |-> "running"]
  BY DEF Make
<1>2. job' \in Job
  BY <1>1 DEF Job
<1>3. 1 \in 1 .. Len(Plan[kind])
  BY PlanLength
<1>4. ~Waiting'
  BY DEF Waiting
<1> QED
  BY <1>1, <1>2, <1>3, <1>4 DEF JobOK, Running

LEMMA AdvanceKeeps ==
    ASSUME TypeOK, JobOK, Running,
           NEW seen \in Configs \cup {Nothing}, Advance(seen),
           job.kind = "apply" => seen \in Configs
    PROVE  open' \in BOOLEAN /\ job' \in Job /\ call' = NoCall /\ JobOK'
<1>1. call' = NoCall /\ open' = open /\ ~Waiting'
  BY DEF Advance, Waiting, NoCall
<1>2. job \in Job /\ job.kind \in Kinds /\ job.at \in 1 .. Len(Plan[job.kind])
  BY DEF TypeOK, JobOK
<1>3. CASE job.at = Len(Plan[job.kind]) /\ job.kind \in {"apply", "upload"}
  <2>1. job' = [job EXCEPT !.state = "ok", !.at = 0, !.seen = Nothing]
    BY <1>3 DEF Advance
  <2> QED
    BY <1>1, <1>2, <2>1 DEF TypeOK, JobOK, Running, Job
<1>4. CASE job.at = Len(Plan[job.kind]) /\ job.kind \notin {"apply", "upload"}
  <2>1. job' = Idle
    BY <1>4 DEF Advance
  <2> QED
    BY <1>1, <2>1, IdleType DEF TypeOK, JobOK, Running, Idle
<1>5. CASE job.at # Len(Plan[job.kind])
  <2>1. job' = [job EXCEPT !.at = @ + 1, !.seen = seen]
    BY <1>5 DEF Advance
  <2>2. job' \in Job
    <3>1. job.at + 1 \in Nat /\ job \in Job
      BY <1>2 DEF Job
    <3>2. [job EXCEPT !.at = job.at + 1] \in Job
      BY <3>1 DEF Job
    <3>3. [[job EXCEPT !.at = job.at + 1] EXCEPT !.seen = seen] \in Job
      BY <3>2 DEF Job
    <3> QED
      BY <2>1, <3>1, <3>3 DEF Job
  <2>3. Len(Plan[job.kind]) \in Nat
    BY <1>2, PlanLength
  <2>4. job'.kind = job.kind /\ job'.at \in 1 .. Len(Plan[job.kind])
        /\ job'.file = job.file /\ job'.change = job.change /\ job'.seen = seen
    BY <1>2, <1>5, <2>1, <2>3 DEF Job
  <2> QED
    BY <1>1, <2>2, <2>4 DEF TypeOK, JobOK, Running
<1> QED
  BY <1>3, <1>4, <1>5

LEMMA FailsKeeps ==
    ASSUME TypeOK, JobOK, Running, Fails
    PROVE  open' \in BOOLEAN /\ job' \in Job /\ call' = NoCall /\ JobOK'
  BY FailKeeps, AdvanceKeeps DEF Fails

-----------------------------------------------------------------------------
(* What a step does to the pipes.                                          *)

\* Frames are taken from a pipe, and none is added.
Fewer(old, new) == \A i \in 1 .. Len(new) : \E j \in 1 .. Len(old) : new[i] = old[j]

LEMMA TailFewer ==
    ASSUME NEW S, NEW s \in Seq(S), s # <<>>
    PROVE  Tail(s) \in Seq(S) /\ Fewer(s, Tail(s))
<1>1. Tail(s) \in Seq(S) /\ Len(Tail(s)) = Len(s) - 1 /\ Len(s) \in Nat \ {0}
  OBVIOUS
<1>2. \A i \in 1 .. Len(Tail(s)) : Tail(s)[i] = s[i + 1]
  OBVIOUS
<1> QED
  BY <1>1, <1>2 DEF Fewer

LEMMA DrainFewer ==
    ASSUME toHost \in Seq(ReplyFrame), drain
    PROVE  toHost' \in Seq(ReplyFrame) /\ Fewer(toHost, toHost')
<1>1. PICK n \in 0 .. Len(toHost) : toHost' = SubSeq(toHost, n + 1, Len(toHost))
  BY DEF drain
<1>2. toHost' \in Seq(ReplyFrame) /\ Len(toHost') = Len(toHost) - n
  BY <1>1
<1>3. \A i \in 1 .. Len(toHost') : toHost'[i] = toHost[i + n]
  BY <1>1, <1>2
<1> QED
  BY <1>2, <1>3 DEF Fewer

LEMMA SameFewer ==
    ASSUME NEW S, NEW s \in Seq(S)
    PROVE  Fewer(s, s)
  BY DEF Fewer

LEMMA FewerSound ==
    ASSUME PipesOK, Fewer(toDisplay, toDisplay'), Fewer(toHost, toHost')
    PROVE  PipesOK'
<1>1. \A i \in 1 .. Len(toDisplay') : SoundRequest(toDisplay'[i])
  BY DEF PipesOK, Fewer
<1>2. \A i \in 1 .. Len(toHost') : SoundReply(toHost'[i])
  BY DEF PipesOK, Fewer
<1> QED
  BY <1>1, <1>2 DEF PipesOK, SoundRequest, SoundReply

\* Nothing is waited for, so only the tracks matter.
LEMMA FewerNumbers ==
    ASSUME NumbersOK, call' = NoCall,
           Fewer(toDisplay, toDisplay'), Fewer(toHost, toHost')
    PROVE  NumbersOK'
<1>1. call'.number = 0 /\ call'.track = 0 /\ ~Waiting'
  BY DEF NoCall, Waiting
<1>2. \A i \in 1 .. Len(toDisplay') : toDisplay'[i].track = toDisplay'[i].number
  BY DEF NumbersOK, OwnRequest, Fewer
<1>3. \A i \in 1 .. Len(toHost') : toHost'[i].track = toHost'[i].number
  BY DEF NumbersOK, OwnReply, Fewer
<1> QED
  BY <1>1, <1>2, <1>3 DEF NumbersOK, OwnRequest, OwnReply

\* The request a call writes: its type, what it carries, and a number that no
\* frame on its way has.
LEMMA FrameSound ==
    ASSUME TypeOK, JobOK, Running, write_all(Step)
    PROVE  /\ Frame(Step) \in RequestFrame
           /\ SoundRequest(Frame(Step))
           /\ Frame(Step).request = Step
           /\ Step \in Untracked => Frame(Step).number = 0
           /\ Frame(Step).number # 0 => Frame(Step).number \notin InFlight
           /\ ~TransferOnly => Frame(Step).track = Frame(Step).number
<1>1. /\ Step \in Requests
      /\ Step = "write" => job.kind = "apply" /\ job.at = 2
      /\ Step \in {"begin", "chunk"} => job.kind = "upload"
  BY StepOf
<1>2. stamp(Step).number \in Nat /\ stamp(Step).track \in Nat
  <2>1. CASE Step \in Untracked
    BY <2>1 DEF stamp
  <2>2. CASE Step \notin Untracked
    <3>1. next_track \in Tracks
      BY <2>2 DEF write_all, next_track
    <3> QED
      BY <2>2, <3>1, TracksAssumption DEF stamp, TURRIS_TRANSFER_TRACK_ID
  <2> QED
    BY <2>1, <2>2
<1>3. Step \in Untracked => stamp(Step).number = 0
  BY DEF stamp
<1>4. stamp(Step).number # 0 => stamp(Step).number \notin InFlight
  <2>1. CASE Step \in Untracked
    BY <1>3, <2>1
  <2>2. CASE Step \notin Untracked
    <3>1. next_track \notin InFlight
      BY <2>2 DEF write_all, next_track
    <3> QED
      BY <2>2, <3>1 DEF stamp
  <2> QED
    BY <2>1, <2>2
<1>5. ~TransferOnly => stamp(Step).track = stamp(Step).number
  BY DEF stamp
<1>6. Step = "write" => job.change \in Changes /\ Merged \in Configs
  <2>1. SUFFICES ASSUME Step = "write" PROVE job.change \in Changes /\ Merged \in Configs
    OBVIOUS
  <2>2. job.change \in Changes /\ job.seen \in [Settings -> Values]
    BY <1>1, <2>1 DEF JobOK, Configs
  <2>3. job.change \in [DOMAIN job.change -> Values]
    BY <2>2, ChangesAssumption
  <2>4. \A s \in Settings : (IF s \in DOMAIN job.change THEN job.change[s]
                             ELSE job.seen[s]) \in Values
    BY <2>2, <2>3
  <2> QED
    BY <2>2, <2>4 DEF Merged, Configs
<1>7. job.file \in Files \cup {NoFile} /\ job.at \in Nat /\ (Step = "chunk" => job.at - 1 \in Nat)
  BY DEF TypeOK, Job, JobOK
<1>8. Step \in {"begin", "chunk"} => job.file \in Files
  BY <1>1 DEF JobOK
<1>9. Frame(Step) \in RequestFrame
  BY <1>1, <1>2, <1>6, <1>7 DEF Frame, RequestFrame
<1>10. SoundRequest(Frame(Step))
  BY <1>6, <1>8 DEF Frame, SoundRequest
<1>11. Frame(Step).request = Step /\ Frame(Step).number = stamp(Step).number
       /\ Frame(Step).track = stamp(Step).track
  BY DEF Frame
<1> QED
  BY <1>3, <1>4, <1>5, <1>9, <1>10, <1>11

LEMMA WriteKeeps ==
    ASSUME TypeOK, JobOK, PipesOK, Running, write_all(Step)
    PROVE  /\ toDisplay' \in Seq(RequestFrame)
           /\ \A i \in 1 .. Len(toDisplay') : SoundRequest(toDisplay'[i])
           /\ \A i \in 1 .. Len(toDisplay') :
                \/ toDisplay'[i] = Frame(Step)
                \/ \E j \in 1 .. Len(toDisplay) : toDisplay'[i] = toDisplay[j]
<1>1. toDisplay' = Append(toDisplay, Frame(Step)) /\ toDisplay \in Seq(RequestFrame)
  BY DEF write_all, TypeOK
<1>2. Frame(Step) \in RequestFrame /\ SoundRequest(Frame(Step))
  BY FrameSound
<1>3. /\ toDisplay' \in Seq(RequestFrame)
      /\ Len(toDisplay') = Len(toDisplay) + 1
      /\ \A i \in 1 .. Len(toDisplay) : toDisplay'[i] = toDisplay[i]
      /\ toDisplay'[Len(toDisplay) + 1] = Frame(Step)
  BY <1>1, <1>2
<1>4. \A i \in 1 .. Len(toDisplay') : i \in 1 .. Len(toDisplay) \/ i = Len(toDisplay) + 1
  BY <1>1, <1>3
<1>5. ASSUME NEW i \in 1 .. Len(toDisplay')
      PROVE  \/ toDisplay'[i] = Frame(Step)
             \/ \E j \in 1 .. Len(toDisplay) : toDisplay'[i] = toDisplay[j]
  <2>1. CASE i \in 1 .. Len(toDisplay)
    BY <1>3, <2>1
  <2>2. CASE i = Len(toDisplay) + 1
    BY <1>3, <2>2
  <2> QED
    BY <1>4, <2>1, <2>2
<1>6. ASSUME NEW i \in 1 .. Len(toDisplay')
      PROVE  SoundRequest(toDisplay'[i])
  BY <1>2, <1>5 DEF PipesOK
<1> QED
  BY <1>3, <1>5, <1>6

-----------------------------------------------------------------------------
(* The steps.                                                              *)

LEMMA InitHolds == Init => Inv
<1> SUFFICES ASSUME Init PROVE Inv
  OBVIOUS
<1>1. job = Idle /\ call = NoCall /\ ~Running /\ ~Waiting
  BY DEF Init, Idle, NoCall, Running, Waiting
<1>2. Empty \in Transfer
  BY DEF Empty, Transfer
<1>3. TypeOK
  <2>1. open \in BOOLEAN
    BY DEF Init
  <2>2. <<>> \in Seq(RequestFrame) /\ <<>> \in Seq(ReplyFrame)
    OBVIOUS
  <2>3. config \in Configs /\ incoming \in Transfer /\ store \in Transfer
    BY <1>2 DEF Init
  <2>4. job \in Job /\ call \in Call
    BY <1>1, IdleType
  <2> QED
    BY <2>1, <2>2, <2>3, <2>4 DEF Init, TypeOK
<1>4. JobOK
  BY <1>1 DEF JobOK
<1>5. PipesOK
  BY DEF Init, PipesOK
<1>6. NumbersOK
  BY <1>1 DEF Init, NumbersOK, NoCall
<1> QED
  BY <1>3, <1>4, <1>5, <1>6 DEF Inv

\* The call ends its wait or never had one, and frames may be dropped.
LEMMA QuietStep ==
    ASSUME Inv, open' \in BOOLEAN, job' \in Job, call' = NoCall, JobOK',
           toDisplay' \in Seq(RequestFrame), Fewer(toDisplay, toDisplay'),
           toHost' \in Seq(ReplyFrame), Fewer(toHost, toHost'),
           config' \in Configs, incoming' \in Transfer, store' \in Transfer
    PROVE  Inv'
<1>1. TypeOK'
  BY IdleType DEF Inv, TypeOK
<1>2. PipesOK'
  BY FewerSound DEF Inv
<1>3. ~TransferOnly => NumbersOK'
  BY FewerNumbers DEF Inv
<1> QED
  BY <1>1, <1>2, <1>3 DEF Inv

LEMMA OpenStep == Inv /\ Open => Inv'
<1> SUFFICES ASSUME Inv, Open PROVE Inv'
  OBVIOUS
<1>1. ~Running /\ ~Waiting /\ UNCHANGED <<call, toDisplay, toHost>> /\ open'
  BY DEF Inv, JobOK, Open
<1>2. job' \in Job /\ JobOK'
  <2>1. CASE TransferOnly
    BY <1>1, <2>1, IdleType DEF Open, JobOK, Running, Waiting, Idle
  <2>2. CASE ~TransferOnly
    <3>1. Make("boot", Nothing, NoFile)
      BY <2>2 DEF Open
    <3> QED
      BY <1>1, <3>1, MakeKeeps DEF Kinds
  <2> QED
    BY <2>1, <2>2
<1>3. TypeOK'
  BY <1>1, <1>2 DEF Inv, TypeOK, Open, displayVars
<1>4. PipesOK'
  BY <1>1 DEF Inv, PipesOK, SoundRequest, SoundReply
<1>5. NumbersOK => NumbersOK'
  BY <1>1 DEF NumbersOK, OwnRequest, OwnReply, Waiting
<1> QED
  BY <1>2, <1>3, <1>4, <1>5 DEF Inv

LEMMA StartStep == Inv /\ Start => Inv'
<1> SUFFICES ASSUME Inv, Start PROVE Inv'
  OBVIOUS
<1>1. ~Running /\ ~Waiting /\ UNCHANGED <<open, call, toDisplay, toHost>> /\ open
  BY DEF Inv, JobOK, Start
<1>2. job' \in Job /\ JobOK'
  <2>1. ASSUME NEW kind \in {"read", "remove", "keepalive", "overlay", "metrics"},
               Make(kind, Nothing, NoFile)
        PROVE  job' \in Job /\ JobOK'
    BY <1>1, <2>1, MakeKeeps DEF Kinds
  <2>2. ASSUME NEW change \in Changes, Make("apply", change, NoFile)
        PROVE  job' \in Job /\ JobOK'
    BY <1>1, <2>2, MakeKeeps DEF Kinds
  <2>3. ASSUME NEW file \in Files, Make("upload", Nothing, file)
        PROVE  job' \in Job /\ JobOK'
    BY <1>1, <2>3, MakeKeeps DEF Kinds
  <2> QED
    BY <2>1, <2>2, <2>3 DEF Start
<1>3. TypeOK'
  BY <1>1, <1>2 DEF Inv, TypeOK, Start, displayVars
<1>4. PipesOK'
  BY <1>1 DEF Inv, PipesOK, SoundRequest, SoundReply
<1>5. NumbersOK => NumbersOK'
  BY <1>1 DEF NumbersOK, OwnRequest, OwnReply, Waiting
<1> QED
  BY <1>2, <1>3, <1>4, <1>5 DEF Inv

\* The number of the new request is in no frame that was on its way, so only
\* the new frame has it.
LEMMA ExecuteStep == Inv /\ execute => Inv'
<1> SUFFICES ASSUME Inv, execute PROVE Inv'
  OBVIOUS
<1> DEFINE n == Frame(Step).number
<1>1. /\ TypeOK /\ JobOK /\ PipesOK /\ Running /\ ~Waiting /\ write_all(Step)
      /\ UNCHANGED <<open, job, config, incoming, store>>
      /\ call' = [request |-> Step, number |-> n, track |-> Frame(Step).track, skipped |-> 0]
  BY DEF Inv, execute, displayVars
<1>2. /\ Frame(Step) \in RequestFrame
      /\ Frame(Step).request = Step
      /\ Step \in Untracked => n = 0
      /\ n # 0 => n \notin InFlight
      /\ ~TransferOnly => Frame(Step).track = n
  BY <1>1, FrameSound
<1>3. /\ Step \in Requests
      /\ job.kind = "boot" => Step \in Untracked
  BY <1>1, StepOf
<1>4. toHost' \in Seq(ReplyFrame) /\ Fewer(toHost, toHost')
  <2>1. CASE job.kind = "boot"
    <3>1. toHost' = toHost
      BY <2>1 DEF execute
    <3> QED
      BY <1>1, <3>1, SameFewer DEF TypeOK
  <2>2. CASE job.kind # "boot"
    BY <1>1, <2>2, DrainFewer DEF execute, TypeOK
  <2> QED
    BY <2>1, <2>2
<1>5. call' \in Call
  BY <1>1, <1>2, <1>3, NumbersAssumption DEF Call, RequestFrame
<1>6. TypeOK'
  BY <1>1, <1>4, <1>5, WriteKeeps DEF TypeOK
<1>7. JobOK'
  BY <1>1 DEF JobOK, Running, Waiting, Step
<1>8. PipesOK'
  <2>1. \A i \in 1 .. Len(toDisplay') : SoundRequest(toDisplay'[i])
    BY <1>1, WriteKeeps
  <2>2. \A i \in 1 .. Len(toHost') : SoundReply(toHost'[i])
    BY <1>1, <1>4 DEF PipesOK, Fewer
  <2> QED
    BY <2>1, <2>2 DEF PipesOK, SoundRequest, SoundReply
<1>9. ASSUME NumbersOK, ~TransferOnly PROVE NumbersOK'
  <2>1. call'.number = n /\ call'.track = n /\ call'.request = Step
    BY <1>1, <1>2, <1>9
  <2>2. Waiting' /\ job'.kind = "boot" => call'.number = 0
    BY <1>1, <1>2, <1>3, <2>1
  <2>3. ASSUME NEW i \in 1 .. Len(toDisplay')
        PROVE  /\ toDisplay'[i].track = toDisplay'[i].number
               /\ n # 0 /\ toDisplay'[i].number = n => toDisplay'[i].request = Step
    <3>1. CASE toDisplay'[i] = Frame(Step)
      BY <1>2, <1>9, <3>1
    <3>2. ASSUME NEW j \in 1 .. Len(toDisplay), toDisplay'[i] = toDisplay[j]
          PROVE  /\ toDisplay'[i].track = toDisplay'[i].number
                 /\ toDisplay'[i].number \in InFlight
      <4>1. DOMAIN toDisplay = 1 .. Len(toDisplay)
        BY <1>1 DEF TypeOK
      <4> QED
        BY <1>9, <3>2, <4>1 DEF NumbersOK, OwnRequest, InFlight
    <3> QED
      BY <1>1, <1>2, <3>1, <3>2, WriteKeeps
  <2>4. ASSUME NEW i \in 1 .. Len(toHost')
        PROVE  /\ toHost'[i].track = toHost'[i].number
               /\ toHost'[i].number \in InFlight
    <3>1. PICK j \in 1 .. Len(toHost) : toHost'[i] = toHost[j]
      BY <1>4 DEF Fewer
    <3>2. DOMAIN toHost = 1 .. Len(toHost)
      BY <1>1 DEF TypeOK
    <3> QED
      BY <1>9, <3>1, <3>2 DEF NumbersOK, OwnReply, InFlight
  <2>5. \A i \in 1 .. Len(toDisplay') : OwnRequest(toDisplay[i])'
    BY <2>1, <2>3 DEF OwnRequest
  <2>6. \A i \in 1 .. Len(toHost') : OwnReply(toHost[i])'
    BY <1>2, <2>1, <2>4 DEF OwnReply
  <2> QED
    BY <2>1, <2>2, <2>5, <2>6 DEF NumbersOK
<1> QED
  BY <1>6, <1>7, <1>8, <1>9 DEF Inv

LEMMA WriteOnlyStep == Inv /\ write_only => Inv'
<1> SUFFICES ASSUME Inv, write_only PROVE Inv'
  OBVIOUS
<1>1. /\ TypeOK /\ JobOK /\ PipesOK /\ Running /\ write_all(Step) /\ Advance(job.seen)
      /\ Step \in Unanswered
      /\ UNCHANGED <<config, incoming, store>>
  BY DEF Inv, write_only, displayVars
<1>2. job.seen \in Configs \cup {Nothing}
  BY <1>1 DEF TypeOK, Job
<1>3. job.kind = "apply" => job.seen \in Configs
  <2>1. SUFFICES ASSUME job.kind = "apply" PROVE job.seen \in Configs
    OBVIOUS
  <2>2. job.at = 3
    BY <1>1, <2>1, Plans DEF JobOK, Step, Unanswered
  <2> QED
    BY <1>1, <2>1, <2>2 DEF JobOK
<1>4. open' \in BOOLEAN /\ job' \in Job /\ call' = NoCall /\ JobOK'
  BY <1>1, <1>2, <1>3, AdvanceKeeps
<1>5. toHost' \in Seq(ReplyFrame) /\ Fewer(toHost, toHost')
  <2>1. CASE Step = "lease"
    BY <1>1, <2>1, DrainFewer DEF write_only, TypeOK
  <2>2. CASE Step # "lease"
    <3>1. toHost' = toHost
      BY <2>2 DEF write_only
    <3> QED
      BY <1>1, <3>1, SameFewer DEF TypeOK
  <2> QED
    BY <2>1, <2>2
<1>6. TypeOK'
  BY <1>1, <1>4, <1>5, WriteKeeps, IdleType DEF TypeOK
<1>7. PipesOK'
  <2>1. \A i \in 1 .. Len(toDisplay') : SoundRequest(toDisplay'[i])
    BY <1>1, WriteKeeps
  <2>2. \A i \in 1 .. Len(toHost') : SoundReply(toHost'[i])
    BY <1>1, <1>5 DEF PipesOK, Fewer
  <2> QED
    BY <2>1, <2>2 DEF PipesOK, SoundRequest, SoundReply
<1>8. ASSUME NumbersOK, ~TransferOnly PROVE NumbersOK'
  <2>1. call'.number = 0 /\ call'.track = 0 /\ ~Waiting'
    BY <1>4 DEF NoCall, Waiting
  <2>2. \A i \in 1 .. Len(toDisplay') : toDisplay'[i].track = toDisplay'[i].number
    BY <1>1, <1>8, WriteKeeps, FrameSound DEF NumbersOK, OwnRequest
  <2>3. \A i \in 1 .. Len(toHost') : toHost'[i].track = toHost'[i].number
    BY <1>5, <1>8 DEF NumbersOK, OwnReply, Fewer
  <2> QED
    BY <2>1, <2>2, <2>3 DEF NumbersOK, OwnRequest, OwnReply
<1> QED
  BY <1>4, <1>6, <1>7, <1>8 DEF Inv

LEMMA ReceiveStep == Inv /\ receive => Inv'
<1> SUFFICES ASSUME Inv, receive PROVE Inv'
  OBVIOUS
<1> DEFINE frame == Head(toHost)
<1>1. /\ TypeOK /\ JobOK /\ PipesOK /\ Waiting /\ Running /\ toHost # <<>>
      /\ toHost' = Tail(toHost)
      /\ UNCHANGED <<toDisplay, config, incoming, store>>
  BY DEF Inv, JobOK, receive, displayVars
<1>2. toHost' \in Seq(ReplyFrame) /\ Fewer(toHost, toHost')
  BY <1>1, TailFewer DEF TypeOK
<1>3. toDisplay' \in Seq(RequestFrame) /\ Fewer(toDisplay, toDisplay')
  BY <1>1, SameFewer DEF TypeOK
<1>4. frame \in ReplyFrame /\ SoundReply(frame)
  <2>1. Len(toHost) \in Nat \ {0} /\ frame = toHost[1] /\ toHost[1] \in ReplyFrame
    BY <1>1 DEF TypeOK
  <2> QED
    BY <1>1, <2>1 DEF PipesOK
<1>5. ASSUME open' \in BOOLEAN, job' \in Job, call' = NoCall, JobOK' PROVE Inv'
  BY <1>1, <1>2, <1>3, <1>5, QuietStep DEF TypeOK
<1>6. ASSUME Fails PROVE Inv'
  BY <1>1, <1>5, <1>6, FailsKeeps
<1>7. ASSUME ~TooMany, call' = [call EXCEPT !.skipped = @ + 1], UNCHANGED <<open, job>>
      PROVE  Inv'
  <2>1. call' \in Call
    <3>1. call \in Call /\ call.skipped \in 0 .. MaxSkipped
      BY <1>1 DEF TypeOK, Call
    <3>2. call.skipped + 1 \in 0 .. MaxSkipped
      BY <1>7, <3>1, NumbersAssumption DEF TooMany
    <3> QED
      BY <1>7, <3>1, <3>2 DEF Call
  <2>2. /\ call'.request = call.request /\ call'.number = call.number
        /\ call'.track = call.track
    BY <1>1, <1>7 DEF TypeOK, Call
  <2>3. TypeOK'
    BY <1>1, <1>2, <1>7, <2>1 DEF TypeOK
  <2>4. JobOK'
    BY <1>1, <1>7, <2>2 DEF JobOK, Running, Waiting, Step
  <2>5. PipesOK'
    BY <1>1, <1>2, <1>3, FewerSound
  <2>6. NumbersOK => NumbersOK'
    <3>1. ASSUME NumbersOK, NEW i \in 1 .. Len(toHost') PROVE OwnReply(toHost[i])'
      BY <1>2, <2>2, <3>1 DEF NumbersOK, OwnReply, Fewer
    <3> QED
      BY <1>1, <1>7, <2>2, <3>1 DEF NumbersOK, OwnRequest, Waiting
  <2> QED
    BY <2>3, <2>4, <2>5, <2>6 DEF Inv
<1>8. ASSUME Accepted(frame), Replied(frame) PROVE Inv'
  <2>1. CASE Fail
    BY <1>5, <2>1, FailKeeps
  <2>2. CASE Advance(IF Step = "query" THEN frame.config ELSE job.seen)
    <3> DEFINE seen == IF Step = "query" THEN frame.config ELSE job.seen
    <3>1. seen \in Configs \cup {Nothing}
      BY <1>1, <1>4 DEF TypeOK, Job, ReplyFrame
    <3>2. job.kind = "apply" => seen \in Configs
      <4>1. CASE Step = "query"
        <5>1. frame.body = "configuration"
          BY <1>1, <1>8, <4>1 DEF Accepted, JobOK, Expect
        <5> QED
          BY <1>4, <4>1, <5>1 DEF SoundReply
      <4>2. CASE Step # "query"
        BY <1>1, <4>2, Plans DEF JobOK, Step
      <4> QED
        BY <4>1, <4>2
    <3> QED
      BY <1>1, <1>5, <2>2, <3>1, <3>2, AdvanceKeeps
  <2> QED
    BY <1>8, <2>1, <2>2 DEF Replied
<1> QED
  BY <1>6, <1>7, <1>8 DEF receive

LEMMA NoResponseStep == Inv /\ NoResponse => Inv'
<1> SUFFICES ASSUME Inv, NoResponse PROVE Inv'
  OBVIOUS
<1>1. Running /\ Fails /\ UNCHANGED <<toDisplay, toHost, config, incoming, store>>
  BY DEF Inv, JobOK, NoResponse, displayVars
<1>2. open' \in BOOLEAN /\ job' \in Job /\ call' = NoCall /\ JobOK'
  BY <1>1, FailsKeeps DEF Inv
<1> QED
  BY <1>1, <1>2, SameFewer, QuietStep DEF Inv, TypeOK

LEMMA WriteFailsStep == Inv /\ WriteFails => Inv'
<1> SUFFICES ASSUME Inv, WriteFails PROVE Inv'
  OBVIOUS
<1>1. Fail /\ UNCHANGED <<toDisplay, toHost, config, incoming, store>>
  BY DEF WriteFails, displayVars
<1>2. open' \in BOOLEAN /\ job' \in Job /\ call' = NoCall /\ JobOK'
  BY <1>1, FailKeeps
<1> QED
  BY <1>1, <1>2, SameFewer, QuietStep DEF Inv, TypeOK

\* A call that is over, because its process is.
LEMMA GoneKeeps ==
    ASSUME open' = FALSE, job' = Idle, call' = NoCall
    PROVE  open' \in BOOLEAN /\ job' \in Job /\ JobOK'
  BY IdleType DEF JobOK, Running, Waiting, Idle, NoCall

LEMMA CloseStep == Inv /\ Close => Inv'
<1> SUFFICES ASSUME Inv, Close PROVE Inv'
  OBVIOUS
<1>1. /\ open' = FALSE /\ job' = Idle /\ call' = NoCall /\ drain
      /\ UNCHANGED <<toDisplay, config, incoming, store>>
  BY DEF Close, displayVars
<1>2. toHost' \in Seq(ReplyFrame) /\ Fewer(toHost, toHost')
  BY <1>1, DrainFewer DEF Inv, TypeOK
<1> QED
  BY <1>1, <1>2, GoneKeeps, SameFewer, QuietStep DEF Inv, TypeOK

LEMMA ReplugStep == Inv /\ Replug => Inv'
<1> SUFFICES ASSUME Inv, Replug PROVE Inv'
  OBVIOUS
<1>1. /\ open' = FALSE /\ job' = Idle /\ call' = NoCall
      /\ toDisplay' = <<>> /\ toHost' = <<>> /\ incoming' = Empty
      /\ UNCHANGED <<config, store>>
  BY DEF Replug
<1>2. /\ toDisplay' \in Seq(RequestFrame) /\ Fewer(toDisplay, toDisplay')
      /\ toHost' \in Seq(ReplyFrame) /\ Fewer(toHost, toHost')
  BY <1>1 DEF Fewer
<1>3. incoming' \in Transfer
  BY <1>1 DEF Empty, Transfer
<1> QED
  BY <1>1, <1>2, <1>3, GoneKeeps, QuietStep DEF Inv, TypeOK

\* What the display does for a request that is sound keeps its state's type.
LEMMA ServeType ==
    ASSUME TypeOK, NEW r \in RequestFrame, SoundRequest(r), Serve(r)
    PROVE  config' \in Configs /\ incoming' \in Transfer /\ store' \in Transfer
<1>1. config \in Configs /\ incoming \in Transfer /\ store \in Transfer
  BY DEF TypeOK
<1>2. Empty \in Transfer
  BY DEF Empty, Transfer
<1>3. CASE r.request = "write"
  <2>1. /\ \E ignored \in SUBSET DOMAIN r.change :
             config' = [s \in Settings |-> IF s \in ignored THEN config[s]
                                           ELSE r.config[s]]
        /\ UNCHANGED <<incoming, store>>
    BY <1>3 DEF Serve
  <2>2. r.config \in Configs
    BY <1>3 DEF SoundRequest
  <2>3. config' \in Configs
    BY <1>1, <2>1, <2>2 DEF Configs
  <2> QED
    BY <1>1, <2>1, <2>3
<1>4. CASE r.request = "begin"
  <2>1. incoming' = [file |-> r.file, parts |-> <<>>] /\ UNCHANGED <<config, store>>
    BY <1>4 DEF Serve
  <2>2. r.file \in Files /\ <<>> \in Seq(Files \X Nat)
    BY <1>4 DEF SoundRequest
  <2> QED
    BY <1>1, <2>1, <2>2 DEF Transfer
<1>5. CASE r.request = "chunk"
  <2>1. /\ incoming' = [incoming EXCEPT !.parts = Append(@, <<r.file, r.part>>)]
        /\ UNCHANGED <<config, store>>
    BY <1>5 DEF Serve
  <2>2. <<r.file, r.part>> \in Files \X Nat
    BY <1>5 DEF SoundRequest, RequestFrame
  <2>3. Append(incoming.parts, <<r.file, r.part>>) \in Seq(Files \X Nat)
    BY <1>1, <2>2 DEF Transfer
  <2> QED
    BY <1>1, <2>1, <2>3 DEF Transfer
<1>6. CASE r.request = "end"
  BY <1>1, <1>2, <1>6 DEF Serve
<1>7. CASE r.request = "remove"
  BY <1>1, <1>2, <1>7 DEF Serve
<1>8. CASE r.request \notin {"write", "begin", "chunk", "end", "remove"}
  BY <1>1, <1>8 DEF Serve, displayVars
<1> QED
  BY <1>3, <1>4, <1>5, <1>6, <1>7, <1>8

LEMMA HandleStep == Inv /\ Handle => Inv'
<1> SUFFICES ASSUME Inv, Handle PROVE Inv'
  OBVIOUS
<1> DEFINE r == Head(toDisplay)
<1>1. /\ TypeOK /\ JobOK /\ PipesOK /\ toDisplay # <<>> /\ toDisplay' = Tail(toDisplay)
      /\ UNCHANGED <<open, job, call>>
  BY DEF Inv, Handle, hostVars
<1>2. toDisplay' \in Seq(RequestFrame) /\ Fewer(toDisplay, toDisplay')
  BY <1>1, TailFewer DEF TypeOK
<1>3. r \in RequestFrame /\ SoundRequest(r) /\ (NumbersOK => OwnRequest(r))
  <2>1. Len(toDisplay) \in Nat \ {0} /\ r = toDisplay[1] /\ toDisplay[1] \in RequestFrame
    BY <1>1 DEF TypeOK
  <2> QED
    BY <1>1, <2>1 DEF PipesOK, NumbersOK
<1>4. config' \in Configs /\ incoming' \in Transfer /\ store' \in Transfer
  <2>1. CASE Serve(r)
    BY <1>1, <1>3, <2>1, ServeType
  <2>2. CASE UNCHANGED displayVars
    BY <1>1, <2>2 DEF TypeOK, displayVars
  <2> QED
    BY <2>1, <2>2 DEF Handle
<1>5. PICK body \in {Expect[r.request], "error"} : Answers(r, body)
  BY DEF Handle
<1> DEFINE f == Reply(r, body)
<1>6. r.request \in Requests /\ body \in Bodies
      /\ (body = "configuration" => r.request = "query")
  <2>1. r.request \in Requests
    BY <1>3 DEF RequestFrame
  <2>2. Expect[r.request] \in Bodies /\ "error" \in Bodies
    BY <2>1, ExpectType DEF Bodies
  <2> QED
    BY <1>5, <2>1, <2>2, ExpectType
<1>7. f \in ReplyFrame /\ SoundReply(f) /\ f.body = body
      /\ f.number = r.number /\ f.track = r.track
  BY <1>1, <1>3, <1>6 DEF Reply, ReplyFrame, SoundReply, RequestFrame, TypeOK
<1>8. /\ toHost' \in Seq(ReplyFrame)
      /\ \A i \in 1 .. Len(toHost') :
           toHost'[i] = f \/ \E j \in 1 .. Len(toHost) : toHost'[i] = toHost[j]
  <2>1. CASE toHost' = Append(toHost, f)
    <3>1. toHost \in Seq(ReplyFrame)
      BY <1>1 DEF TypeOK
    <3>2. /\ toHost' \in Seq(ReplyFrame)
          /\ Len(toHost') = Len(toHost) + 1
          /\ toHost'[Len(toHost) + 1] = f
          /\ \A i \in 1 .. Len(toHost) : toHost'[i] = toHost[i]
      BY <1>7, <2>1, <3>1
    <3>3. \A i \in 1 .. Len(toHost') : i \in 1 .. Len(toHost) \/ i = Len(toHost) + 1
      BY <3>1, <3>2
    <3> QED
      BY <3>2, <3>3
  <2>2. CASE UNCHANGED toHost
    BY <1>1, <2>2 DEF TypeOK
  <2> QED
    BY <1>5, <2>1, <2>2 DEF Answers
<1>9. TypeOK'
  BY <1>1, <1>2, <1>4, <1>8 DEF TypeOK
<1>10. JobOK'
  BY <1>1 DEF JobOK, Running, Waiting, Step
<1>11. PipesOK'
  <2>1. \A i \in 1 .. Len(toDisplay') : SoundRequest(toDisplay'[i])
    BY <1>1, <1>2 DEF PipesOK, Fewer
  <2>2. \A i \in 1 .. Len(toHost') : SoundReply(toHost'[i])
    BY <1>1, <1>7, <1>8 DEF PipesOK
  <2> QED
    BY <2>1, <2>2 DEF PipesOK, SoundRequest, SoundReply
<1>12. ASSUME NumbersOK PROVE NumbersOK'
  <2>1. OwnReply(f)
    BY <1>3, <1>5, <1>7, <1>12 DEF OwnReply, OwnRequest
  <2>2. \A i \in 1 .. Len(toHost') : OwnReply(toHost'[i])
    BY <1>8, <1>12, <2>1 DEF NumbersOK
  <2>3. \A i \in 1 .. Len(toDisplay') : OwnRequest(toDisplay'[i])
    BY <1>2, <1>12 DEF NumbersOK, Fewer
  <2>4. \A i \in 1 .. Len(toHost') : OwnReply(toHost[i])'
    BY <1>1, <2>2 DEF OwnReply
  <2>5. \A i \in 1 .. Len(toDisplay') : OwnRequest(toDisplay[i])'
    BY <1>1, <2>3 DEF OwnRequest
  <2> QED
    BY <1>1, <1>12, <2>4, <2>5 DEF NumbersOK, Waiting
<1> QED
  BY <1>9, <1>10, <1>11, <1>12 DEF Inv

LEMMA EmitStep == Inv /\ Emit => Inv'
<1> SUFFICES ASSUME Inv, Emit PROVE Inv'
  OBVIOUS
<1>1. /\ TypeOK /\ JobOK /\ PipesOK
      /\ UNCHANGED <<open, job, call, toDisplay, config, incoming, store>>
  BY DEF Inv, Emit, hostVars, displayVars
<1>2. PICK body \in {"event", "garbage"} :
        toHost' = Append(toHost, [body |-> body, number |-> 0, track |-> 0,
                                  config |-> Nothing])
  BY DEF Emit
<1> DEFINE f == [body |-> body, number |-> 0, track |-> 0, config |-> Nothing]
<1>3. f \in ReplyFrame /\ SoundReply(f)
  BY DEF ReplyFrame, SoundReply, Bodies
<1>4. /\ toHost' \in Seq(ReplyFrame)
      /\ \A i \in 1 .. Len(toHost') :
           toHost'[i] = f \/ \E j \in 1 .. Len(toHost) : toHost'[i] = toHost[j]
  <2>1. toHost \in Seq(ReplyFrame)
    BY <1>1 DEF TypeOK
  <2>2. /\ toHost' \in Seq(ReplyFrame)
        /\ Len(toHost') = Len(toHost) + 1
        /\ toHost'[Len(toHost) + 1] = f
        /\ \A i \in 1 .. Len(toHost) : toHost'[i] = toHost[i]
    BY <1>2, <1>3, <2>1
  <2>3. \A i \in 1 .. Len(toHost') : i \in 1 .. Len(toHost) \/ i = Len(toHost) + 1
    BY <2>1, <2>2
  <2> QED
    BY <2>2, <2>3
<1>5. TypeOK'
  BY <1>1, <1>4 DEF TypeOK
<1>6. JobOK'
  BY <1>1 DEF JobOK, Running, Waiting, Step
<1>7. PipesOK'
  <2>1. \A i \in 1 .. Len(toHost') : SoundReply(toHost'[i])
    BY <1>1, <1>3, <1>4 DEF PipesOK
  <2> QED
    BY <1>1, <2>1 DEF PipesOK, SoundRequest, SoundReply
<1>8. ASSUME NumbersOK PROVE NumbersOK'
  <2>1. OwnReply(f)
    BY DEF OwnReply
  <2>2. \A i \in 1 .. Len(toHost') : OwnReply(toHost'[i])
    BY <1>4, <1>8, <2>1 DEF NumbersOK
  <2>3. \A i \in 1 .. Len(toHost') : OwnReply(toHost[i])'
    BY <1>1, <2>2 DEF OwnReply
  <2> QED
    BY <1>1, <1>8, <2>3 DEF NumbersOK, OwnRequest, Waiting
<1> QED
  BY <1>5, <1>6, <1>7, <1>8 DEF Inv

LEMMA StutterStep == Inv /\ UNCHANGED vars => Inv'
  BY DEF Inv, vars, TypeOK, JobOK, PipesOK, NumbersOK, Running, Waiting, Step,
         SoundRequest, SoundReply, OwnRequest, OwnReply

-----------------------------------------------------------------------------
(* Nothing is left on its way when a reply is accepted.                    *)

\* A file, or its first n parts, as a transfer has them.
Parts(file, n) == [file |-> file, parts |-> [i \in 1 .. n |-> <<file, i>>]]

\* An upload sends what follows its begin one by one.
Late == job.kind = "upload" /\ job.at > 1

\* What the display has of an upload before it takes the request that the call
\* is at, and after.
Before == Late => incoming = Parts(job.file, job.at - 2)
Effect ==
    job.kind = "upload" =>
        /\ job.at <= Chunks + 1 => incoming = Parts(job.file, job.at - 1)
        /\ job.at = Chunks + 2 => store = Parts(job.file, Chunks)

\* Between the requests of an upload, and between the query of an apply and its
\* write, nothing is on its way, and what the host knows is so.
ReadyOK ==
    Running /\ ~Waiting =>
        /\ Late => toDisplay = <<>> /\ Before
        /\ job.kind = "apply" /\ job.at = 2 => toDisplay = <<>> /\ job.seen = config

\* While a reply is waited for, its request is the last on its way, and has
\* no reply; or all that was sent has been taken, and the reply tells of it.
Ours(r) ==
    /\ r.number = call.number /\ r.request = call.request
    /\ r.request \in {"begin", "chunk"} => r.file = job.file
    /\ r.request = "chunk" => r.part = job.at - 1
LastOurs ==
    /\ toDisplay # <<>>
    /\ Ours(toDisplay[Len(toDisplay)])
    /\ \A i \in 1 .. Len(toDisplay) :
         toDisplay[i].number = call.number => i = Len(toDisplay)
    /\ \A j \in 1 .. Len(toHost) : toHost[j].number # call.number
    /\ Late => Len(toDisplay) = 1
    /\ Before
AllTaken ==
    /\ toDisplay = <<>>
    /\ \A j \in 1 .. Len(toHost) :
         toHost[j].number = call.number /\ toHost[j].body # "error" =>
            /\ Effect
            /\ toHost[j].body = "configuration" => toHost[j].config = config
WaitOK ==
    Waiting =>
        /\ Step \notin Unanswered
        /\ job.kind # "boot" => call.number # 0 /\ (LastOurs \/ AllTaken)

\* A call that has succeeded left nothing on its way.
DoneOK ==
    job.state = "ok" =>
        /\ toDisplay = <<>>
        /\ job.kind = "upload" => store = Parts(job.file, Chunks)
        /\ job.kind = "apply" => Matches(config)

\* A write on its way is the only one, the first that the display will take,
\* and differs from what it has in what it changes only.
SoundWrite(r) == \A s \in Settings \ DOMAIN r.change : r.config[s] = config[s]
WritesOK ==
    \A i \in 1 .. Len(toDisplay) : toDisplay[i].request = "write" =>
        i = 1 /\ SoundWrite(toDisplay[i])

\* A Turris takes transfers only.
TurrisOK ==
    TransferOnly => /\ job.kind \in {"none", "upload"}
                    /\ \A i \in 1 .. Len(toDisplay) : toDisplay[i].request # "write"

Orderly == /\ ~TransferOnly => ReadyOK /\ WaitOK /\ DoneOK
           /\ WritesOK /\ TurrisOK

\* Parts of a file, one by one.
LEMMA PartsGrow ==
    ASSUME NEW file, NEW n \in Nat
    PROVE  /\ Parts(file, 0) = [file |-> file, parts |-> <<>>]
           /\ Append(Parts(file, n).parts, <<file, n + 1>>) = Parts(file, n + 1).parts
           /\ Parts(file, n).file = file
<1> DEFINE p == [i \in 1 .. n |-> <<file, i>>]
           q == [i \in 1 .. n + 1 |-> <<file, i>>]
<1>1. [i \in 1 .. 0 |-> <<file, i>>] = <<>>
  OBVIOUS
<1>2. p \in Seq({file} \X Nat) /\ Len(p) = n /\ q \in Seq({file} \X Nat) /\ Len(q) = n + 1
  OBVIOUS
<1>3. <<file, n + 1>> \in {file} \X Nat
  OBVIOUS
<1>4. /\ Append(p, <<file, n + 1>>) \in Seq({file} \X Nat)
      /\ Len(Append(p, <<file, n + 1>>)) = n + 1
      /\ \A i \in 1 .. n : Append(p, <<file, n + 1>>)[i] = p[i]
      /\ Append(p, <<file, n + 1>>)[n + 1] = <<file, n + 1>>
  BY <1>2, <1>3
<1>5. \A i \in 1 .. n + 1 : Append(p, <<file, n + 1>>)[i] = q[i]
  <2>1. \A i \in 1 .. n + 1 : i \in 1 .. n \/ i = n + 1
    OBVIOUS
  <2> QED
    BY <1>4, <2>1
<1>6. Append(p, <<file, n + 1>>) = q
  BY <1>2, <1>4, <1>5
<1> QED
  BY <1>1, <1>6 DEF Parts

\* A call that is over, or at its first step, knows nothing yet.
LEMMA FreshStep ==
    ASSUME ~Waiting', job'.state # "ok", ~Late', ~(job'.kind = "apply" /\ job'.at = 2),
           WritesOK', TurrisOK'
    PROVE  Orderly'
  BY DEF Orderly, ReadyOK, WaitOK, DoneOK

\* Nothing is sent, and nothing is taken.
LEMMA SameWrites ==
    ASSUME WritesOK, TurrisOK, toDisplay' \in {toDisplay, <<>>}, config' = config,
           TransferOnly => job'.kind \in {"none", "upload"}
    PROVE  WritesOK' /\ TurrisOK'
<1>1. CASE toDisplay' = toDisplay
  BY <1>1 DEF WritesOK, TurrisOK, SoundWrite
<1>2. CASE toDisplay' = <<>>
  BY <1>2 DEF WritesOK, TurrisOK
<1> QED
  BY <1>1, <1>2

LEMMA EndedStep ==
    ASSUME WritesOK, TurrisOK, toDisplay' \in {toDisplay, <<>>}, config' = config,
           call' = NoCall, job' = Idle
    PROVE  Orderly'
<1>1. ~Waiting' /\ job'.state # "ok" /\ job'.kind = "none"
  BY DEF NoCall, Idle, Waiting
<1>2. ~Late' /\ ~(job'.kind = "apply" /\ job'.at = 2)
  BY <1>1 DEF Late
<1> QED
  BY <1>1, <1>2, SameWrites, FreshStep

LEMMA OpenOrderly == Inv /\ Orderly /\ Open => Orderly'
<1> SUFFICES ASSUME Inv, Orderly, Open PROVE Orderly'
  OBVIOUS
<1>1. ~Waiting /\ UNCHANGED <<call, toDisplay, config>> /\ ~Waiting'
  BY DEF Inv, JobOK, Open, displayVars, Waiting
<1>2. /\ job'.state # "ok" /\ job'.kind \in {"none", "boot"}
      /\ TransferOnly => job'.kind = "none"
  BY DEF Open, Make, Idle
<1>3. ~Late' /\ ~(job'.kind = "apply" /\ job'.at = 2)
  BY <1>2 DEF Late
<1> QED
  BY <1>1, <1>2, <1>3, SameWrites, FreshStep DEF Orderly

LEMMA StartOrderly == Inv /\ Orderly /\ Start => Orderly'
<1> SUFFICES ASSUME Inv, Orderly, Start PROVE Orderly'
  OBVIOUS
<1>1. ~Waiting /\ UNCHANGED <<call, toDisplay, config>> /\ ~Waiting'
  BY DEF Inv, JobOK, Start, displayVars, Waiting
<1>2. /\ job'.state # "ok" /\ job'.at = 1
      /\ TransferOnly => job'.kind = "upload"
  BY DEF Start, Make
<1>3. ~Late' /\ ~(job'.kind = "apply" /\ job'.at = 2)
  BY <1>2 DEF Late
<1> QED
  BY <1>1, <1>2, <1>3, SameWrites, FreshStep DEF Orderly

LEMMA FailOrderly ==
    ASSUME Orderly, Fail, UNCHANGED <<toDisplay, config>>
    PROVE  Orderly'
  BY EndedStep DEF Orderly, Fail

\* The call goes on, or has done all it had to.
LEMMA AdvanceShape ==
    ASSUME TypeOK, JobOK, Running, NEW seen, Advance(seen)
    PROVE  /\ call' = NoCall /\ ~Waiting'
           /\ \/ /\ job.at = Len(Plan[job.kind]) /\ job.kind \in {"apply", "upload"}
                 /\ job'.kind = job.kind /\ job'.file = job.file
                 /\ job'.change = job.change
                 /\ job'.at = 0 /\ job'.state = "ok"
              \/ /\ job.at = Len(Plan[job.kind]) /\ job.kind \notin {"apply", "upload"}
                 /\ job' = Idle /\ job'.kind = "none" /\ job'.state = "idle"
              \/ /\ job.at # Len(Plan[job.kind])
                 /\ job'.kind = job.kind /\ job'.file = job.file
                 /\ job'.change = job.change
                 /\ job'.at = job.at + 1 /\ job'.seen = seen /\ job'.state = "running"
<1>1. job \in Job /\ call' = NoCall /\ ~Waiting' /\ job.state = "running"
  BY DEF TypeOK, Advance, NoCall, Waiting, Running
<1>2. CASE job.at = Len(Plan[job.kind]) /\ job.kind \in {"apply", "upload"}
  <2>1. job' = [job EXCEPT !.state = "ok", !.at = 0, !.seen = Nothing]
    BY <1>2 DEF Advance
  <2> QED
    BY <1>1, <1>2, <2>1 DEF Job
<1>3. CASE job.at = Len(Plan[job.kind]) /\ job.kind \notin {"apply", "upload"}
  <2>1. job' = Idle
    BY <1>3 DEF Advance
  <2> QED
    BY <1>1, <1>3, <2>1 DEF Idle
<1>4. CASE job.at # Len(Plan[job.kind])
  <2>1. job' = [job EXCEPT !.at = @ + 1, !.seen = seen]
    BY <1>4 DEF Advance
  <2> QED
    BY <1>1, <1>4, <2>1 DEF Job
<1> QED
  BY <1>2, <1>3, <1>4

\* A failure ends the call, or goes on with bootstrap.
LEMMA FailsOrderly ==
    ASSUME Inv, Orderly, Running, Fails, UNCHANGED <<toDisplay, config>>
    PROVE  Orderly'
<1>1. CASE Fail
  BY <1>1, FailOrderly
<1>2. CASE job.kind = "boot" /\ Advance(Nothing)
  <2>1. job \in Job /\ call' = NoCall /\ ~TransferOnly
    BY <1>2 DEF Inv, TypeOK, Advance, Orderly, TurrisOK
  <2>2. ~Waiting' /\ job'.kind \in {"boot", "none"} /\ job'.state # "ok"
    BY <1>2, AdvanceShape DEF Inv
  <2>3. ~Late' /\ ~(job'.kind = "apply" /\ job'.at = 2)
    BY <2>2 DEF Late
  <2> QED
    BY <2>1, <2>2, <2>3, SameWrites, FreshStep DEF Orderly
<1> QED
  BY <1>1, <1>2 DEF Fails

\* A new frame at the end of the pipe.  A write goes out when nothing else is
\* on its way and with the configuration that the display has.
LEMMA SentWrites ==
    ASSUME Inv, Orderly, Running, ~Waiting, write_all(Step), config' = config,
           TransferOnly => job'.kind \in {"none", "upload"}
    PROVE  /\ WritesOK' /\ TurrisOK'
           /\ toDisplay' \in Seq(RequestFrame)
           /\ Len(toDisplay') = Len(toDisplay) + 1
           /\ toDisplay'[Len(toDisplay) + 1] = Frame(Step)
           /\ \A i \in 1 .. Len(toDisplay) : toDisplay'[i] = toDisplay[i]
<1>1. toDisplay' = Append(toDisplay, Frame(Step)) /\ toDisplay \in Seq(RequestFrame)
  BY DEF write_all, Inv, TypeOK
<1>2. Frame(Step) \in RequestFrame /\ Frame(Step).request = Step
  BY FrameSound DEF Inv
<1>3. /\ toDisplay' \in Seq(RequestFrame)
      /\ Len(toDisplay') = Len(toDisplay) + 1 /\ Len(toDisplay) \in Nat
      /\ \A i \in 1 .. Len(toDisplay) : toDisplay'[i] = toDisplay[i]
      /\ toDisplay'[Len(toDisplay) + 1] = Frame(Step)
  BY <1>1, <1>2
<1>4. \A i \in 1 .. Len(toDisplay') : i \in 1 .. Len(toDisplay) \/ i = Len(toDisplay) + 1
  BY <1>3
<1>5. Step = "write" => job.kind = "apply" /\ job.at = 2
  BY StepOf DEF Inv
<1>6. Step = "write" => ~TransferOnly
  BY <1>5 DEF Orderly, TurrisOK
<1>7. ASSUME Step = "write" PROVE toDisplay = <<>> /\ SoundWrite(Frame(Step))
  <2>1. toDisplay = <<>> /\ job.seen = config
    BY <1>5, <1>6, <1>7 DEF Orderly, ReadyOK
  <2>2. Frame(Step).change = job.change /\ Frame(Step).config = Merged
    BY <1>7 DEF Frame
  <2>3. \A s \in Settings \ DOMAIN job.change : Merged[s] = job.seen[s]
    BY DEF Merged
  <2> QED
    BY <2>1, <2>2, <2>3 DEF SoundWrite
<1>8. ASSUME NEW i \in 1 .. Len(toDisplay'), toDisplay'[i].request = "write"
      PROVE  i = 1 /\ SoundWrite(toDisplay'[i]) /\ ~TransferOnly
  <2>1. CASE i \in 1 .. Len(toDisplay)
    <3>1. toDisplay'[i] = toDisplay[i]
      BY <1>3, <2>1
    <3> QED
      BY <1>8, <2>1, <3>1 DEF Orderly, WritesOK, TurrisOK
  <2>2. CASE i = Len(toDisplay) + 1
    <3>1. toDisplay'[i] = Frame(Step) /\ Step = "write"
      BY <1>2, <1>3, <1>8, <2>2
    <3>2. Len(toDisplay) = 0
      BY <1>7, <3>1
    <3> QED
      BY <1>6, <1>7, <2>2, <3>1, <3>2
  <2> QED
    BY <1>4, <2>1, <2>2
<1>9. \A i \in 1 .. Len(toDisplay') : toDisplay'[i].request = "write" => i = 1 /\ SoundWrite(toDisplay[i])'
  BY <1>8 DEF SoundWrite
<1> QED
  BY <1>3, <1>8, <1>9 DEF WritesOK, TurrisOK

\* The request goes out as the last, under a number that no frame has.
LEMMA ExecuteOrderly == Inv /\ Orderly /\ execute => Orderly'
<1> SUFFICES ASSUME Inv, Orderly, execute PROVE Orderly'
  OBVIOUS
<1> DEFINE n == Frame(Step).number
<1>1. /\ TypeOK /\ JobOK /\ Running /\ ~Waiting /\ write_all(Step) /\ Step \notin Unanswered
      /\ UNCHANGED <<open, job, config, incoming, store>>
      /\ call' = [request |-> Step, number |-> n, track |-> Frame(Step).track, skipped |-> 0]
  BY DEF Inv, execute, displayVars
<1>2. /\ WritesOK' /\ TurrisOK'
      /\ toDisplay' \in Seq(RequestFrame)
      /\ Len(toDisplay') = Len(toDisplay) + 1
      /\ toDisplay'[Len(toDisplay) + 1] = Frame(Step)
      /\ \A i \in 1 .. Len(toDisplay) : toDisplay'[i] = toDisplay[i]
  BY <1>1, SentWrites DEF Orderly, TurrisOK
<1>3. ReadyOK' /\ DoneOK'
  <2>1. Step \in Requests /\ call'.request = Step
    BY <1>1, StepOf
  <2>2. Waiting'
    BY <2>1 DEF Waiting, Requests
  <2> QED
    BY <1>1, <2>2 DEF ReadyOK, DoneOK, Running
<1>4. ASSUME ~TransferOnly, job.kind # "boot" PROVE n # 0 /\ LastOurs'
  <2>1. Step \notin Untracked
    <3>1. CASE job.kind = "upload"
      BY <1>1, <3>1, UploadPlan DEF JobOK, Step, Untracked
    <3>2. CASE job.kind \in {"read", "remove", "overlay", "metrics", "keepalive"}
      BY <1>1, <3>2, Plans DEF JobOK, Step, Untracked, Unanswered
    <3>3. CASE job.kind = "apply"
      BY <1>1, <3>3, Plans DEF JobOK, Step, Untracked, Unanswered
    <3> QED
      BY <1>1, <1>4, <3>1, <3>2, <3>3 DEF JobOK, Kinds
  <2>2. n = next_track /\ next_track \in Tracks /\ next_track \notin InFlight
    BY <1>1, <2>1 DEF Frame, stamp, write_all, next_track
  <2>3. n # 0 /\ n \notin InFlight
    BY <2>2, TracksAssumption
  <2>4. DOMAIN toDisplay = 1 .. Len(toDisplay) /\ DOMAIN toHost = 1 .. Len(toHost)
        /\ Len(toDisplay) \in Nat
    BY <1>1 DEF TypeOK
  <2>5. \A i \in 1 .. Len(toDisplay) : toDisplay[i].number # n
    BY <2>3, <2>4 DEF InFlight
  <2>6. \A j \in 1 .. Len(toHost) : toHost[j].number # n
    BY <2>3, <2>4 DEF InFlight
  <2>7. \A i \in 1 .. Len(toDisplay') : toDisplay'[i].number = n => i = Len(toDisplay')
    BY <1>2, <2>4, <2>5
  <2>8. \A j \in 1 .. Len(toHost') : toHost'[j].number # n
    <3>1. Fewer(toHost, toHost')
      BY <1>1, <1>4, DrainFewer DEF execute, TypeOK
    <3> QED
      BY <2>6, <3>1 DEF Fewer
  <2>9. call'.number = n /\ call'.request = Step
    BY <1>1
  <2>10. Ours(toDisplay[Len(toDisplay)])'
    <3>1. /\ Frame(Step).request = Step
          /\ Step \in {"begin", "chunk"} => Frame(Step).file = job.file
          /\ Step = "chunk" => Frame(Step).part = job.at - 1
      BY DEF Frame
    <3> QED
      BY <1>1, <1>2, <2>9, <3>1 DEF Ours
  <2>11. Late => toDisplay = <<>> /\ Before
    BY <1>1, <1>4 DEF Orderly, ReadyOK
  <2>12. (Late' => Len(toDisplay') = 1) /\ Before'
    <3>1. Late' = Late
      BY <1>1 DEF Late
    <3>2. Late => Len(toDisplay) = 0
      BY <2>11
    <3> QED
      BY <1>1, <1>2, <2>4, <2>11, <3>1, <3>2 DEF Before
  <2>13. toDisplay' # <<>>
    BY <1>2, <2>4
  <2> QED
    BY <2>3, <2>7, <2>8, <2>9, <2>10, <2>12, <2>13 DEF LastOurs
<1>5. ~TransferOnly => WaitOK'
  <2>1. call'.number = n /\ Step' = Step
    BY <1>1 DEF Step
  <2> QED
    BY <1>1, <1>4, <2>1 DEF WaitOK
<1> QED
  BY <1>2, <1>3, <1>5 DEF Orderly

\* Of the requests that are not waited for, none is an upload's or a write.
LEMMA WriteOnlyOrderly == Inv /\ Orderly /\ write_only => Orderly'
<1> SUFFICES ASSUME Inv, Orderly, write_only PROVE Orderly'
  OBVIOUS
<1>1. /\ TypeOK /\ JobOK /\ Running /\ write_all(Step) /\ Advance(job.seen)
      /\ Step \in Unanswered /\ config' = config /\ job \in Job /\ call' = NoCall
  BY DEF Inv, write_only, displayVars, Advance, TypeOK
<1>2. job.kind # "upload" /\ (job.kind = "apply" => job.at = 3)
  <2>1. CASE job.kind = "upload"
    BY <1>1, <2>1, UploadPlan DEF JobOK, Step, Unanswered
  <2>2. CASE job.kind = "apply"
    BY <1>1, <2>2, Plans DEF JobOK, Step, Unanswered
  <2> QED
    BY <2>1, <2>2
<1>3. ~TransferOnly /\ ~Waiting
  <2>1. job.kind \in Kinds
    BY <1>1 DEF JobOK
  <2>2. ~TransferOnly
    BY <1>2, <2>1 DEF Orderly, TurrisOK, Kinds
  <2>3. ~Waiting
    BY <1>1, <2>2 DEF Orderly, WaitOK
  <2> QED
    BY <2>2, <2>3
<1>4. WritesOK' /\ TurrisOK'
  BY <1>1, <1>3, SentWrites
<1>5. /\ ~Waiting' /\ job'.state # "ok" /\ job'.kind # "upload"
      /\ job'.kind = "apply" => job'.at = 4
  <2>1. Len(Plan.apply) = 4
    BY Plans
  <2>2. job.kind = "apply" => Len(Plan[job.kind]) = 4
    BY <2>1
  <2>3. \/ job'.kind = job.kind /\ job'.at = job.at + 1 /\ job'.state = "running"
        \/ job'.kind = "none" /\ job'.state = "idle"
    <3>1. \/ /\ job.at = Len(Plan[job.kind]) /\ job.kind \in {"apply", "upload"}
          \/ job'.kind = job.kind /\ job'.at = job.at + 1 /\ job'.state = "running"
          \/ job'.kind = "none" /\ job'.state = "idle"
      BY <1>1, AdvanceShape
    <3>2. ~(job.at = Len(Plan[job.kind]) /\ job.kind \in {"apply", "upload"})
      <4>1. job.kind = "apply" => job.at = 3 /\ Len(Plan[job.kind]) = 4
        BY <1>2, <2>2
      <4>2. job.at = 3 /\ Len(Plan[job.kind]) = 4 => job.at # Len(Plan[job.kind])
        OBVIOUS
      <4> QED
        BY <1>2, <4>1, <4>2, Zenon
    <3> QED
      BY <3>1, <3>2
  <2>4. ~Waiting'
    BY <1>1, AdvanceShape
  <2> QED
    BY <1>2, <2>3, <2>4
<1>6. ~Late' /\ ~(job'.kind = "apply" /\ job'.at = 2)
  BY <1>5 DEF Late
<1> QED
  BY <1>4, <1>5, <1>6, FreshStep

\* Frames are looked at and passed over, and the wait goes on.
LEMMA SkipOrderly ==
    ASSUME Inv, Orderly, Running, UNCHANGED <<job, toDisplay, displayVars>>,
           call' = [call EXCEPT !.skipped = @ + 1], Fewer(toHost, toHost')
    PROVE  Orderly'
<1>1. /\ UNCHANGED <<config, incoming, store>>
      /\ call'.number = call.number /\ call'.request = call.request
  BY DEF displayVars, Inv, TypeOK, Call
<1>2. WritesOK' /\ TurrisOK'
  BY <1>1, SameWrites DEF Orderly, TurrisOK
<1>3. Waiting' = Waiting /\ Late' = Late /\ Before' = Before /\ Effect' = Effect
  BY <1>1 DEF Waiting, Late, Before, Effect
<1>4. ReadyOK => ReadyOK'
  BY <1>1, <1>3 DEF ReadyOK, Running
<1>5. DoneOK => DoneOK'
  BY <1>1 DEF DoneOK, Matches
<1>6. LastOurs => LastOurs'
  <2>1. Ours(toDisplay[Len(toDisplay)]) => Ours(toDisplay[Len(toDisplay)])'
    BY <1>1 DEF Ours
  <2>2. (\A j \in 1 .. Len(toHost) : toHost[j].number # call.number)
          => \A j \in 1 .. Len(toHost') : toHost'[j].number # call'.number
    BY <1>1 DEF Fewer
  <2> QED
    BY <1>1, <1>3, <2>1, <2>2 DEF LastOurs
<1>7. AllTaken => AllTaken'
  <2> SUFFICES ASSUME AllTaken PROVE AllTaken'
    OBVIOUS
  <2>1. ASSUME NEW j \in 1 .. Len(toHost'),
               toHost'[j].number = call'.number, toHost'[j].body # "error"
        PROVE  Effect' /\ (toHost'[j].body = "configuration" => toHost'[j].config = config')
    <3>1. PICK i \in 1 .. Len(toHost) : toHost'[j] = toHost[i]
      BY DEF Fewer
    <3> QED
      BY <1>1, <1>3, <2>1, <3>1 DEF AllTaken
  <2> QED
    BY <2>1 DEF AllTaken
<1>8. WaitOK => WaitOK'
  BY <1>1, <1>3, <1>6, <1>7 DEF WaitOK, Step
<1> QED
  BY <1>2, <1>4, <1>5, <1>8 DEF Orderly

\* The reply that is accepted is to the last request on its way, so nothing is,
\* and it tells what the display has.
LEMMA AcceptOrderly ==
    ASSUME Inv, Orderly, Waiting, Running, toHost # <<>>,
           ~Unrelated(Head(toHost)), Accepted(Head(toHost)), Replied(Head(toHost)),
           UNCHANGED <<toDisplay, displayVars>>
    PROVE  Orderly'
<1> DEFINE frame == Head(toHost)
           seen == IF Step = "query" THEN frame.config ELSE job.seen
<1>1. /\ TypeOK /\ JobOK /\ UNCHANGED <<toDisplay, config, incoming, store>>
      /\ call.request = Step /\ Step \in Requests /\ job \in Job
  BY StepOf DEF Inv, displayVars, JobOK, TypeOK
<1>2. CASE Fail
  BY <1>1, <1>2, FailOrderly
<1>3. CASE Advance(seen) /\ ~Fail
  <2>1. call' = NoCall /\ ~Waiting' /\ job.kind \in Kinds
    BY <1>1, <1>3 DEF Advance, NoCall, Waiting, JobOK
  <2>2. WritesOK' /\ TurrisOK'
    <3>1. job'.kind \in {job.kind, "none"}
      BY <1>1, <1>3, AdvanceShape
    <3> QED
      BY <1>1, <3>1, SameWrites DEF Orderly, TurrisOK
  <2>3. CASE job.kind = "boot"
    <3>1. job'.kind \in {"boot", "none"} /\ job'.state # "ok"
      BY <1>1, <1>3, <2>3, AdvanceShape
    <3>2. ~Late' /\ ~(job'.kind = "apply" /\ job'.at = 2)
      BY <3>1 DEF Late
    <3> QED
      BY <2>1, <2>2, <3>1, <3>2, FreshStep
  <2>4. CASE TransferOnly
    BY <2>2, <2>4 DEF Orderly
  <2>5. CASE job.kind # "boot" /\ ~TransferOnly
    <3>1. frame = toHost[1] /\ 1 \in 1 .. Len(toHost)
      BY <1>1 DEF TypeOK
    <3>2. frame.number = call.number
      BY <2>5, <3>1 DEF Inv, NumbersOK, OwnReply, Unrelated
    <3>3. frame.body = Expect[call.request] /\ frame.body # "error"
      BY <1>1 DEF Accepted, Expect, Requests
    <3>4. AllTaken
      BY <2>5, <3>1, <3>2 DEF Orderly, WaitOK, LastOurs
    <3>5. /\ toDisplay = <<>> /\ Effect
          /\ frame.body = "configuration" => frame.config = config
      BY <3>1, <3>2, <3>3, <3>4 DEF AllTaken
    <3>6. Step = "query" => frame.body = "configuration"
      BY <1>1, <3>3 DEF Expect
    <3>7. CASE job.at = Len(Plan[job.kind]) /\ job.kind \in {"apply", "upload"}
      <4>1. job' = [job EXCEPT !.state = "ok", !.at = 0, !.seen = Nothing]
        BY <1>3, <3>7 DEF Advance
      <4>2. /\ job'.kind = job.kind /\ job'.file = job.file /\ job'.change = job.change
            /\ job'.at = 0 /\ job'.state = "ok"
        BY <1>1, <4>1 DEF Job
      <4>3. job.kind = "upload" => store = Parts(job.file, Chunks)
        <5>1. job.kind = "upload" => job.at = Chunks + 2
          BY <3>7, UploadPlan
        <5> QED
          BY <3>5, <5>1 DEF Effect
      <4>4. job.kind = "apply" => Matches(config)
        <5>1. job.kind = "apply" => job.at = 4 /\ Step = "query"
          <6> SUFFICES ASSUME job.kind = "apply" PROVE job.at = 4 /\ Step = "query"
            OBVIOUS
          <6>1. Plan[job.kind] = <<"query", "write", "layout", "query">>
            BY Plans
          <6>2. job.at = 4
            BY <3>7, <6>1
          <6> QED
            BY <6>1, <6>2 DEF Step
        <5>2. job.kind = "apply" => Matches(frame.config)
          BY <1>3, <5>1 DEF Replied
        <5> QED
          BY <3>5, <3>6, <5>1, <5>2
      <4>5. DoneOK'
        BY <1>1, <3>5, <4>2, <4>3, <4>4 DEF DoneOK, Matches
      <4>6. ReadyOK' /\ WaitOK'
        BY <2>1, <4>2 DEF ReadyOK, WaitOK, Running
      <4> QED
        BY <2>2, <4>5, <4>6 DEF Orderly
    <3>8. CASE job.at = Len(Plan[job.kind]) /\ job.kind \notin {"apply", "upload"}
      <4>1. job' = Idle
        BY <1>3, <3>8 DEF Advance
      <4> QED
        BY <1>1, <2>1, <4>1, EndedStep DEF Orderly
    <3>9. CASE job.at # Len(Plan[job.kind])
      <4>1. job' = [job EXCEPT !.at = @ + 1, !.seen = seen]
        BY <1>3, <3>9 DEF Advance
      <4>2. /\ job'.kind = job.kind /\ job'.file = job.file /\ job'.state = "running"
            /\ job'.at = job.at + 1 /\ job'.seen = seen
        BY <1>1, <4>1 DEF Job, Running
      <4>3. job.at \in Nat \ {0}
        BY <1>1, PlanLength DEF JobOK
      <4>4. Late' => Before'
        <5> SUFFICES ASSUME job.kind = "upload" PROVE Before'
          BY <4>2 DEF Late
        <5>1. job.at <= Chunks + 1
          BY <1>1, <3>9, UploadPlan, NumbersAssumption DEF JobOK
        <5>2. incoming = Parts(job.file, job.at - 1)
          BY <3>5, <5>1 DEF Effect
        <5>3. job'.at - 2 = job.at - 1
          BY <4>2, <4>3
        <5> QED
          BY <1>1, <4>2, <5>2, <5>3 DEF Before
      <4>5. job.kind = "apply" /\ job'.at = 2 => job'.seen = config
        <5>1. SUFFICES ASSUME job.kind = "apply", job'.at = 2 PROVE job'.seen = config
          OBVIOUS
        <5>2. job.at = 1
          BY <4>2, <4>3, <5>1
        <5>3. Step = "query"
          BY <5>1, <5>2, Plans DEF Step
        <5> QED
          BY <3>5, <3>6, <4>2, <5>3
      <4>6. ReadyOK'
        BY <1>1, <3>5, <4>2, <4>4, <4>5 DEF ReadyOK
      <4>7. WaitOK' /\ DoneOK'
        BY <2>1, <4>2 DEF WaitOK, DoneOK
      <4> QED
        BY <2>2, <4>6, <4>7 DEF Orderly
    <3> QED
      BY <3>7, <3>8, <3>9
  <2> QED
    BY <2>3, <2>4, <2>5
<1> QED
  BY <1>2, <1>3 DEF Replied

LEMMA ReceiveOrderly == Inv /\ Orderly /\ receive => Orderly'
<1> SUFFICES ASSUME Inv, Orderly, receive PROVE Orderly'
  OBVIOUS
<1>1. /\ Waiting /\ Running /\ toHost # <<>> /\ toHost' = Tail(toHost)
      /\ UNCHANGED <<toDisplay, displayVars>> /\ UNCHANGED <<toDisplay, config>>
      /\ toHost \in Seq(ReplyFrame)
  BY DEF Inv, JobOK, receive, displayVars, TypeOK
<1>2. CASE Fails
  BY <1>1, <1>2, FailsOrderly
<1>3. CASE call' = [call EXCEPT !.skipped = @ + 1] /\ UNCHANGED <<open, job>>
  <2>1. Fewer(toHost, toHost')
    BY <1>1, TailFewer
  <2> QED
    BY <1>1, <1>3, <2>1, SkipOrderly
<1>4. CASE ~Unrelated(Head(toHost)) /\ Accepted(Head(toHost)) /\ Replied(Head(toHost))
  BY <1>1, <1>4, AcceptOrderly
<1> QED
  BY <1>2, <1>3, <1>4 DEF receive

LEMMA CallEndsOrderly ==
    ASSUME Inv, Orderly, NoResponse \/ WriteFails \/ Close \/ Replug
    PROVE  Orderly'
<1>1. CASE NoResponse
  <2>1. Running
    BY <1>1 DEF NoResponse, Inv, JobOK
  <2> QED
    BY <1>1, <2>1, FailsOrderly DEF NoResponse, displayVars
<1>2. CASE WriteFails
  BY <1>2, FailOrderly DEF WriteFails, displayVars
<1>3. CASE Close
  BY <1>3, EndedStep DEF Close, Orderly, displayVars
<1>4. CASE Replug
  BY <1>4, EndedStep DEF Replug, Orderly
<1> QED
  BY <1>1, <1>2, <1>3, <1>4

-----------------------------------------------------------------------------
\* What the display has once it has taken the request that the call is at.
LEMMA ServeEffect ==
    ASSUME TypeOK, JobOK, Running, Before, UNCHANGED job, NEW r \in RequestFrame,
           Ours(r), call.request = Step, Serve(r)
    PROVE  Effect'
<1> SUFFICES ASSUME job.kind = "upload" PROVE Effect'
  BY DEF Effect
<1>1. /\ job.at \in 1 .. Chunks + 2 /\ r.request = Step
      /\ Step = IF job.at = 1 THEN "begin" ELSE IF job.at = Chunks + 2 THEN "end" ELSE "chunk"
      /\ Chunks \in Nat \ {0} /\ job.at \in Nat
  BY UploadPlan, NumbersAssumption DEF JobOK, Step, Ours
<1>2. CASE job.at = 1
  <2>1. incoming' = [file |-> job.file, parts |-> <<>>]
    BY <1>1, <1>2 DEF Serve, Ours
  <2>2. incoming' = Parts(job.file, 0)
    BY <2>1, PartsGrow
  <2> QED
    BY <1>1, <1>2, <2>2 DEF Effect
<1>3. CASE job.at = Chunks + 2
  <2>1. store' = incoming
    BY <1>1, <1>3 DEF Serve
  <2>2. incoming = Parts(job.file, Chunks)
    <3>1. Late /\ job.at - 2 = Chunks
      BY <1>1, <1>3 DEF Late
    <3> QED
      BY <3>1 DEF Before
  <2> QED
    BY <1>1, <1>3, <2>1, <2>2 DEF Effect
<1>4. CASE job.at \in 2 .. Chunks + 1
  <2> DEFINE n == job.at - 2
  <2>1. n \in Nat /\ n + 1 = job.at - 1 /\ Late /\ Step = "chunk"
    BY <1>1, <1>4 DEF Late
  <2>2. incoming' = [incoming EXCEPT !.parts = Append(@, <<job.file, n + 1>>)]
    BY <1>1, <2>1 DEF Serve, Ours
  <2>3. incoming = Parts(job.file, n)
    BY <2>1 DEF Before
  <2>4. incoming' = [file |-> job.file, parts |-> Append(Parts(job.file, n).parts, <<job.file, n + 1>>)]
    BY <2>2, <2>3 DEF Parts
  <2>5. incoming' = Parts(job.file, n + 1)
    BY <2>1, <2>4, PartsGrow DEF Parts
  <2> QED
    BY <1>1, <1>4, <2>1, <2>5 DEF Effect
<1> QED
  BY <1>1, <1>2, <1>3, <1>4

\* The display takes the request at the head.  If it is ours it was the only
\* one, and its reply tells of it; if not, ours stays the last.
LEMMA HandleOrderly == Inv /\ Orderly /\ Handle => Orderly'
<1> SUFFICES ASSUME Inv, Orderly, Handle PROVE Orderly'
  OBVIOUS
<1> DEFINE r == Head(toDisplay)
           n == Len(toDisplay)
<1>1. /\ TypeOK /\ JobOK /\ toDisplay # <<>> /\ toDisplay' = Tail(toDisplay)
      /\ UNCHANGED <<open, job, call>>
      /\ toDisplay \in Seq(RequestFrame)
  BY DEF Inv, Handle, hostVars, TypeOK
<1>2. /\ n \in Nat \ {0} /\ r = toDisplay[1] /\ r \in RequestFrame
      /\ Len(toDisplay') = n - 1
      /\ \A i \in 1 .. Len(toDisplay') : toDisplay'[i] = toDisplay[i + 1] /\ i + 1 \in 1 .. n
  BY <1>1
<1>3. WritesOK' /\ TurrisOK'
  <2>1. \A i \in 1 .. Len(toDisplay') : toDisplay'[i].request # "write"
    <3>1. ASSUME NEW i \in 1 .. Len(toDisplay') PROVE toDisplay'[i].request # "write"
      <4>1. i + 1 # 1
        OBVIOUS
      <4> QED
        BY <1>2, <4>1 DEF Orderly, WritesOK
    <3> QED
      BY <3>1
  <2> QED
    BY <1>1, <2>1 DEF Orderly, WritesOK, TurrisOK
<1>4. ASSUME ~TransferOnly PROVE ReadyOK' /\ WaitOK' /\ DoneOK'
  <2>1. job.state # "ok"
    BY <1>1, <1>4 DEF Orderly, DoneOK
  <2>2. DoneOK'
    BY <1>1, <2>1 DEF DoneOK
  <2>3. ReadyOK'
    <3>1. Running /\ ~Waiting => ~Late /\ ~(job.kind = "apply" /\ job.at = 2)
      BY <1>1, <1>4 DEF Orderly, ReadyOK
    <3> QED
      BY <1>1, <3>1 DEF ReadyOK, Running, Waiting, Late
  <2>4. WaitOK'
    <3>1. /\ Waiting' = Waiting /\ Step' = Step
          /\ Waiting => Step \notin Unanswered
          /\ Waiting => Running /\ call.request = Step
      BY <1>1, <1>4 DEF Orderly, WaitOK, Waiting, Step, JobOK
    <3> SUFFICES ASSUME Waiting, job.kind # "boot"
                 PROVE  call.number # 0 /\ (LastOurs' \/ AllTaken')
      BY <1>1, <3>1 DEF WaitOK
    <3>2. call.number # 0 /\ LastOurs
      BY <1>1, <1>4 DEF Orderly, WaitOK, AllTaken
    <3>3. PICK body \in {Expect[r.request], "error"} :
            /\ Answers(r, body)
            /\ Serve(r) \/ (body = "error" /\ UNCHANGED displayVars)
      BY DEF Handle
    <3> DEFINE f == Reply(r, body)
    <3>4. /\ f.number = r.number /\ f.body = body
          /\ body = "configuration" => f.config = config /\ r.request = "query"
      <4>1. r.request \in Requests
        BY <1>2 DEF RequestFrame
      <4> QED
        BY <3>3, <4>1, ExpectType DEF Reply
    <3>5. ASSUME NEW j \in 1 .. Len(toHost'), toHost'[j].number = call.number
          PROVE  toHost'[j] = f
      <4>1. CASE toHost' = Append(toHost, f)
        <5>1. toHost \in Seq(ReplyFrame) /\ Len(toHost) \in Nat
          BY <1>1 DEF TypeOK
        <5>2. /\ Len(toHost') = Len(toHost) + 1
              /\ toHost'[Len(toHost) + 1] = f
              /\ \A i \in 1 .. Len(toHost) : toHost'[i] = toHost[i]
          BY <4>1, <5>1
        <5>3. j \in 1 .. Len(toHost) \/ j = Len(toHost) + 1
          BY <5>1, <5>2
        <5> QED
          BY <3>2, <3>5, <5>2, <5>3 DEF LastOurs
      <4>2. CASE UNCHANGED toHost
        BY <3>2, <3>5, <4>2 DEF LastOurs
      <4> QED
        BY <3>3, <4>1, <4>2 DEF Answers
    <3>6. CASE n = 1
      <4>1. toDisplay' = <<>>
        BY <1>1, <1>2, <3>6
      <4>2. Ours(r) /\ Before
        BY <1>2, <3>2, <3>6 DEF LastOurs
      <4>3. body # "error" => Effect'
        BY <1>1, <1>2, <3>1, <3>3, <4>2, ServeEffect
      <4>4. body = "configuration" => config' = config
        <5>1. body = "configuration" => r.request = "query" /\ Serve(r)
          BY <3>3, <3>4
        <5> QED
          BY <5>1 DEF Serve, displayVars
      <4>5. ASSUME NEW j \in 1 .. Len(toHost'), toHost'[j].number = call'.number,
                   toHost'[j].body # "error"
            PROVE  Effect' /\ (toHost'[j].body = "configuration" => toHost'[j].config = config')
        <5>1. toHost'[j] = f
          BY <1>1, <3>5, <4>5
        <5>2. f.body = body /\ body # "error"
          BY <3>4, <4>5, <5>1
        <5> QED
          BY <3>4, <4>3, <4>4, <5>1, <5>2
      <4> QED
        BY <3>2, <4>1, <4>5 DEF AllTaken
    <3>7. CASE n # 1
      <4>1. Len(toDisplay') \in Nat \ {0} /\ Len(toDisplay') + 1 = n /\ toDisplay' # <<>>
        <5>1. Len(toDisplay') \in Nat \ {0} /\ Len(toDisplay') + 1 = n
          BY <1>2, <3>7
        <5> QED
          BY <5>1
      <4>2. toDisplay'[Len(toDisplay')] = toDisplay[n]
        BY <1>2, <4>1
      <4>3. Ours(toDisplay[Len(toDisplay)])'
        BY <1>1, <3>2, <4>2 DEF LastOurs, Ours
      <4>4. \A i \in 1 .. Len(toDisplay') :
              toDisplay'[i].number = call'.number => i = Len(toDisplay')
        <5>1. ASSUME NEW i \in 1 .. Len(toDisplay'), toDisplay'[i].number = call'.number
              PROVE  i = Len(toDisplay')
          <6>1. toDisplay[i + 1].number = call.number /\ i + 1 \in 1 .. n
            BY <1>1, <1>2, <5>1
          <6>2. i + 1 = n
            BY <3>2, <6>1 DEF LastOurs
          <6> QED
            BY <4>1, <6>2
        <5> QED
          BY <5>1
      <4>5. r.number # call.number
        <5>1. 1 \in 1 .. n /\ 1 # n
          BY <1>2, <3>7
        <5> QED
          BY <1>2, <3>2, <5>1 DEF LastOurs
      <4>6. \A j \in 1 .. Len(toHost') : toHost'[j].number # call'.number
        BY <1>1, <3>4, <3>5, <4>5
      <4>7. ~Late /\ ~Late' /\ Before'
        BY <1>1, <3>2, <3>7 DEF LastOurs, Late, Before
      <4> QED
        BY <3>2, <4>1, <4>3, <4>4, <4>6, <4>7 DEF LastOurs
    <3> QED
      BY <3>2, <3>6, <3>7
  <2> QED
    BY <2>2, <2>3, <2>4
<1> QED
  BY <1>3, <1>4 DEF Orderly

\* An event has no number.
LEMMA EmitOrderly == Inv /\ Orderly /\ Emit => Orderly'
<1> SUFFICES ASSUME Inv, Orderly, Emit PROVE Orderly'
  OBVIOUS
<1>1. /\ UNCHANGED <<open, job, call, toDisplay, config, incoming, store>>
      /\ toHost \in Seq(ReplyFrame)
  BY DEF Emit, hostVars, displayVars, Inv, TypeOK
<1>2. \A j \in 1 .. Len(toHost') :
        toHost'[j].number = 0 \/ (j \in 1 .. Len(toHost) /\ toHost'[j] = toHost[j])
  <2>1. PICK body \in {"event", "garbage"} :
          toHost' = Append(toHost, [body |-> body, number |-> 0, track |-> 0,
                                    config |-> Nothing])
    BY DEF Emit
  <2> DEFINE f == [body |-> body, number |-> 0, track |-> 0, config |-> Nothing]
  <2>2. /\ Len(toHost') = Len(toHost) + 1 /\ Len(toHost) \in Nat
        /\ toHost'[Len(toHost) + 1] = f
        /\ \A i \in 1 .. Len(toHost) : toHost'[i] = toHost[i]
    BY <1>1, <2>1
  <2>3. \A j \in 1 .. Len(toHost') : j \in 1 .. Len(toHost) \/ j = Len(toHost) + 1
    BY <2>2
  <2> QED
    BY <2>2, <2>3
<1>3. WritesOK' /\ TurrisOK'
  BY <1>1, SameWrites DEF Orderly, TurrisOK
<1>4. Waiting' = Waiting /\ Late' = Late /\ Before' = Before /\ Effect' = Effect
  BY <1>1 DEF Waiting, Late, Before, Effect
<1>5. ReadyOK => ReadyOK'
  BY <1>1, <1>4 DEF ReadyOK, Running
<1>6. DoneOK => DoneOK'
  BY <1>1 DEF DoneOK, Matches
<1>7. call.number # 0 /\ LastOurs => LastOurs'
  BY <1>1, <1>2, <1>4 DEF LastOurs, Ours
<1>8. call.number # 0 /\ AllTaken => AllTaken'
  <2> SUFFICES ASSUME call.number # 0, AllTaken PROVE AllTaken'
    OBVIOUS
  <2>1. ASSUME NEW j \in 1 .. Len(toHost'),
               toHost'[j].number = call'.number, toHost'[j].body # "error"
        PROVE  Effect' /\ (toHost'[j].body = "configuration" => toHost'[j].config = config')
    <3>1. j \in 1 .. Len(toHost) /\ toHost'[j] = toHost[j]
      BY <1>1, <1>2, <2>1
    <3> QED
      BY <1>1, <1>4, <2>1, <3>1 DEF AllTaken
  <2> QED
    BY <1>1, <2>1 DEF AllTaken
<1>9. WaitOK => WaitOK'
  BY <1>1, <1>4, <1>7, <1>8 DEF WaitOK, Step
<1> QED
  BY <1>3, <1>5, <1>6, <1>9 DEF Orderly

LEMMA StutterOrderly == Orderly /\ UNCHANGED vars => Orderly'
  BY DEF Orderly, vars, ReadyOK, WaitOK, DoneOK, WritesOK, TurrisOK, Running, Waiting, Step,
         Late, Before, Effect, LastOurs, AllTaken, Ours, Matches, SoundWrite

LEMMA InitOrderly == Init => Orderly
<1> SUFFICES ASSUME Init PROVE Orderly
  OBVIOUS
<1>1. ~Running /\ ~Waiting /\ job.state # "ok" /\ job.kind = "none" /\ toDisplay = <<>>
  BY DEF Init, Idle, NoCall, Running, Waiting
<1> QED
  BY <1>1 DEF Orderly, ReadyOK, WaitOK, DoneOK, WritesOK, TurrisOK

-----------------------------------------------------------------------------
(* The theorems.                                                           *)

\* The inductive invariant: types, a call that waits for the step it is at,
\* what frames carry, and numbers that no two requests share.
THEOREM Invariance == Spec => []Inv
<1>1. Inv /\ [Next]_vars => Inv'
  BY OpenStep, StartStep, ExecuteStep, WriteOnlyStep, ReceiveStep, NoResponseStep,
     WriteFailsStep, CloseStep, HandleStep, EmitStep, ReplugStep, StutterStep
     DEF Next
<1> QED
  BY <1>1, InitHolds, PTL DEF Spec

\* Type correctness; the frames that are passed over stay within their bound.
THEOREM TypeCorrect == Spec => []TypeOK
<1>1. Inv => TypeOK
  BY DEF Inv
<1> QED
  BY <1>1, Invariance, PTL

\* On every product but the Turris, what Session::execute accepts is the reply
\* to its own request, however many were given up before it.
THEOREM OwnReplies == Spec => [](~TransferOnly => AnswersItsRequest)
<1>1. Inv => (~TransferOnly => AnswersItsRequest)
  <2> SUFFICES ASSUME Inv, ~TransferOnly, Waiting, call.number # 0,
                      NEW i \in Candidates
               PROVE  /\ toHost[i].number = call.number
                      /\ toHost[i].body \in {Expect[call.request], "error"}
    BY DEF AnswersItsRequest
  <2>1. NumbersOK
    BY DEF Inv
  <2>2. job.kind # "boot"
    BY <2>1 DEF NumbersOK
  <2>3. i \in 1 .. Len(toHost) /\ toHost[i].track = call.track
    BY <2>2 DEF Candidates, Unrelated
  <2> QED
    BY <2>1, <2>3 DEF NumbersOK, OwnReply
<1> QED
  BY <1>1, Invariance, PTL

\* What the host knows of the display is so whenever it acts on it: a reply is
\* accepted only when nothing else is on its way.
THEOREM InOrder == Spec => []Orderly
<1>1. Inv /\ Orderly /\ [Next]_vars => Orderly'
  BY OpenOrderly, StartOrderly, ExecuteOrderly, WriteOnlyOrderly, ReceiveOrderly,
     CallEndsOrderly, HandleOrderly, EmitOrderly, StutterOrderly DEF Next
<1> QED
  BY <1>1, InitOrderly, Invariance, PTL DEF Spec

\* A write, given up or not, changes what its caller asked to change and
\* nothing else: it never carries an older configuration (Device::apply).
THEOREM ChangesOnly == Spec => OnlyTheChange
<1> DEFINE P == \A s \in Settings : config'[s] # config[s] =>
                  /\ toDisplay # <<>>
                  /\ s \in DOMAIN Head(toDisplay).change
<1>1. Inv /\ Orderly /\ Next => P
  <2> SUFFICES ASSUME Inv, Orderly, Next, NEW s \in Settings, config'[s] # config[s]
               PROVE  toDisplay # <<>> /\ s \in DOMAIN Head(toDisplay).change
    OBVIOUS
  <2>1. Handle
    BY DEF Next, Open, Start, execute, write_only, receive, NoResponse, WriteFails, Close,
           Emit, Replug, displayVars
  <2>2. toDisplay # <<>> /\ Serve(Head(toDisplay)) /\ toDisplay \in Seq(RequestFrame)
    BY <2>1 DEF Handle, displayVars, Inv, TypeOK
  <2>3. Head(toDisplay).request = "write"
    BY <2>2 DEF Serve, displayVars
  <2>4. SoundWrite(Head(toDisplay))
    <3>1. Head(toDisplay) = toDisplay[1] /\ 1 \in 1 .. Len(toDisplay)
      BY <2>2
    <3> QED
      BY <2>3, <3>1 DEF Orderly, WritesOK
  <2>5. config'[s] = config[s] \/ config'[s] = Head(toDisplay).config[s]
    BY <2>2, <2>3 DEF Serve
  <2> QED
    BY <2>2, <2>4, <2>5 DEF SoundWrite
<1>2. Inv /\ Orderly /\ [Next]_vars => [P]_vars
  BY <1>1
<1>3. Spec => [][P]_vars
  BY <1>2, Invariance, InOrder, PTL DEF Spec
<1> QED
  BY <1>3 DEF OnlyTheChange

\* An apply that succeeds was adopted, in every setting that is read back; it
\* stays so until the next call.
THEOREM AppliedIsThere == Spec => []ApplyConfirmed
<1>1. Inv /\ Orderly => ApplyConfirmed
  BY DEF Orderly, DoneOK, TurrisOK, Matches, ApplyConfirmed
<1> QED
  BY <1>1, Invariance, InOrder, PTL

\* On every product but the Turris, an upload that succeeds left its file there,
\* whole, in order, and with nothing of another.
THEOREM UploadedIsThere == Spec => [](~TransferOnly => UploadWhole)
<1>1. Orderly => (~TransferOnly => UploadWhole)
  BY DEF Orderly, DoneOK, UploadWhole, Parts
<1> QED
  BY <1>1, InOrder, PTL
=============================================================================
