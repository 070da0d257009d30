-------------------------- MODULE TransfersProofs --------------------------
(***************************************************************************)
(* Theorems about transfers, for any number of processes, media and names, *)
(* and any KEEP.                                                           *)
(*                                                                         *)
(* One inductive invariant, Inv, carries them.  Almost every step is of    *)
(* one form: one process goes on, and at most the fate of its own          *)
(* transfer, the journal and an encode change with it.  OneProcess is the  *)
(* invariant's preservation by a step of that form, and the lemmas about   *)
(* the actions establish its premises.                                     *)
(***************************************************************************)
EXTENDS Transfers, TLAPS

Inv == TypeOK /\ JournalTells /\ TransferInvariant /\ SentIsWhole

USE DEF Ids

-----------------------------------------------------------------------------
(* Types.                                                                  *)

LEMMA AnyJobType == AnyJob \in Jobs
  BY JobsAssumption DEF AnyJob

LEMMA IdleType == Idle \in Proc
<1>1. <<>> \in Journal
  BY KeepAssumption DEF Journal
<1> QED
  BY <1>1, AnyJobType, MaxTransfersAssumption DEF Idle, Proc, Front

LEMMA NoFileType == NoFile \in File /\ [by |-> 0, whole |-> TRUE] \in File
  BY MaxTransfersAssumption DEF NoFile, File

\* Rewriting the records of a journal one by one leaves as many.
LEMMA MappedType ==
  ASSUME NEW s \in Seq(Record), NEW f,
         f = [i \in DOMAIN s |-> f[i]], \A i \in DOMAIN s : f[i] \in Record
  PROVE  /\ f \in Seq(Record)
         /\ Len(f) = Len(s)
         /\ DOMAIN f = DOMAIN s
<1>1. DOMAIN s = 1 .. Len(s) /\ Len(s) \in Nat
  OBVIOUS
<1>2. f \in [1 .. Len(s) -> Record]
  BY <1>1
<1>3. f \in Seq(Record) /\ DOMAIN f = DOMAIN s
  BY <1>1, <1>2
<1> QED
  BY <1>1, <1>3

\* The newest records are some of the records, Keep at most.
LEMMA NewestType ==
  ASSUME NEW s \in Seq(Record)
  PROVE  /\ Newest(s) \in Seq(Record)
         /\ Len(Newest(s)) <= Keep
         /\ \A i \in DOMAIN Newest(s) : \E j \in DOMAIN s : Newest(s)[i] = s[j]
<1>1. Len(s) \in Nat /\ Keep \in Nat \ {0}
  BY KeepAssumption
<1>2. CASE Len(s) > Keep
  <2> DEFINE m == Len(s) - Keep + 1
  <2>1. Newest(s) = SubSeq(s, m, Len(s))
    BY <1>2 DEF Newest
  <2>2. m \in 1 .. Len(s) + 1
    BY <1>1, <1>2
  <2>3. /\ SubSeq(s, m, Len(s)) \in Seq(Record)
        /\ Len(SubSeq(s, m, Len(s))) = Keep
        /\ \A i \in 1 .. Keep : SubSeq(s, m, Len(s))[i] = s[m + i - 1]
    BY <1>1, <1>2, <2>2
  <2>4. \A i \in 1 .. Keep : m + i - 1 \in DOMAIN s
    BY <1>1, <1>2
  <2>5. DOMAIN SubSeq(s, m, Len(s)) = 1 .. Keep
    BY <2>3
  <2> HIDE DEF m
  <2> QED
    BY SMTT(30), <1>1, <2>1, <2>3, <2>4, <2>5
<1>3. CASE ~(Len(s) > Keep)
  <2>1. Newest(s) = SubSeq(s, 1, Len(s))
    BY <1>3 DEF Newest
  <2>2. SubSeq(s, 1, Len(s)) = s
    BY <1>1
  <2> QED
    BY <1>1, <1>3, <2>1, <2>2
<1> QED
  BY <1>2, <1>3

-----------------------------------------------------------------------------
(* The step of one process.                                                *)

\* What a step may do to the fates: decide its own, if it is open.
Decides(p) ==
    \/ ended' = ended
    \/ /\ proc[p].pc \in Running
       /\ ended[proc[p].id] = "open"
       /\ \E fate \in {"died", "ok", "failed"} :
             ended' = [ended EXCEPT ![proc[p].id] = fate]

\* A fate decided after a journal was read contradicts nothing it says.
LEMMA StillTells ==
  ASSUME TypeOK, TransferInvariant, NEW p \in Procs, Decides(p),
         NEW s \in Journal, Tells(s, ended)
  PROVE  Tells(s, ended')
<1>1. CASE ended' = ended
  BY <1>1
<1>2. CASE ended' # ended
  <2>1. PICK fate \in {"died", "ok", "failed"} :
           ended' = [ended EXCEPT ![proc[p].id] = fate]
    BY <1>2 DEF Decides
  <2>2. ended[proc[p].id] = "open" /\ ended \in [Ids -> {"open", "died", "ok", "failed"}]
    BY <1>2 DEF Decides, TypeOK
  <2>3. ASSUME NEW i \in DOMAIN s, s[i].outcome # "running"
        PROVE  s[i].outcome = ended'[s[i].id]
    <3>1. s[i] \in Record
      BY DEF Journal
    <3>2. s[i].outcome = ended[s[i].id] /\ s[i].outcome # "open"
      BY <2>3, <3>1 DEF Tells, Record
    <3> QED
      BY <2>1, <2>2, <3>1, <3>2 DEF Record
  <2> QED
    BY <2>3 DEF Tells
<1> QED
  BY <1>1, <1>2

LEMMA OneProcess ==
  ASSUME Inv, NEW p \in Procs, NEW r \in Proc,
         proc' = [proc EXCEPT ![p] = r],
         UNCHANGED <<hostVars, begun>>,
         r.pc \in Running => proc[p].pc \in Running /\ r.id = proc[p].id,
         Decides(p),
         Owner(p)',
         Tells(r.copy, ended),
         journal' \in Journal, Tells(journal', ended),
         cache' \in [Keys -> {"absent", "partial", "whole"}],
         files' \in [Names -> File],
         inputs' \subseteq Media,
         oneDisk => /\ \A k \in Keys : cache'[k] # "partial"
                    /\ r.pc # "copying"
                    /\ r.pc \in {"pushing", "check", "show"} => r.whole
  PROVE  Inv'
<1> USE DEF Inv
<1>1. proc \in [Procs -> Proc] /\ proc' \in [Procs -> Proc] /\ proc'[p] = r
  BY DEF TypeOK
<1>2. \A q \in Procs : q # p => proc'[q] = proc[q]
  BY <1>1
<1>3. ended' \in [Ids -> {"open", "died", "ok", "failed"}]
  BY DEF Decides, TypeOK
<1>4. TypeOK'
  BY <1>1, <1>3 DEF TypeOK, hostVars
<1>5. JournalTells'
  BY StillTells DEF JournalTells
<1>6. ASSUME NEW q \in Procs PROVE Tells(proc[q].copy, ended)'
  <2>1. CASE q = p
    <3>1. r.copy \in Journal
      BY DEF Proc
    <3> QED
      BY <1>1, <2>1, <3>1, StillTells
  <2>2. CASE q # p
    <3>1. proc[q].copy \in Journal /\ Tells(proc[q].copy, ended)
      BY <1>1 DEF Proc, TransferInvariant
    <3> QED
      BY <1>2, <2>2, <3>1, StillTells
  <2> QED
    BY <2>1, <2>2
<1>7. ASSUME NEW q \in Procs, q # p PROVE Owner(q)'
  <2>1. Owner(q) /\ proc'[q] = proc[q] /\ begun' = begun
    BY <1>2, <1>7 DEF TransferInvariant
  <2>2. proc[q].pc \in Running => ended'[proc[q].id] = ended[proc[q].id]
    <3>1. CASE ended' = ended
      BY <3>1
    <3>2. CASE ended' # ended /\ proc[q].pc \in Running
      <4>1. proc[p].id # proc[q].id
        BY <1>7, <3>2 DEF Decides, TransferInvariant
      <4>2. proc[q].id \in Ids
        <5>1. proc[q].id \in 1 .. begun
          BY <2>1, <3>2 DEF Owner
        <5>2. begun \in 0 .. MaxTransfers
          BY DEF TypeOK
        <5> QED
          BY <5>1, <5>2, MaxTransfersAssumption
      <4> QED
        BY <3>2, <4>1, <4>2 DEF Decides, TypeOK
    <3> QED
      BY <3>1, <3>2
  <2> QED
    BY <2>1, <2>2 DEF Owner
<1>8. \A q, u \in Procs :
         q # u /\ proc'[q].pc \in Running /\ proc'[u].pc \in Running
            => proc'[q].id # proc'[u].id
  BY <1>1, <1>2 DEF TransferInvariant
<1>9. \A i \in Ids : i > begun' => ended'[i] = "open"
  <2>1. CASE ended' = ended
    BY <2>1 DEF TransferInvariant
  <2>2. CASE ended' # ended
    <3>1. proc[p].id \in 1 .. begun /\ begun \in Nat
      BY <2>2 DEF Decides, TransferInvariant, Owner, TypeOK
    <3>2. PICK fate : ended' = [ended EXCEPT ![proc[p].id] = fate]
      BY <2>2 DEF Decides
    <3>3. \A i \in Ids : i > begun => i # proc[p].id /\ ended'[i] = ended[i]
      BY <3>1, <3>2 DEF TypeOK
    <3> QED
      BY <3>3 DEF TransferInvariant
  <2> QED
    BY <2>1, <2>2
<1>10. oneDisk' => /\ \A k \in Keys : cache'[k] # "partial"
                   /\ \A q \in Procs : proc'[q].pc # "copying"
  BY <1>1, <1>2 DEF TransferInvariant, hostVars
<1>11. TransferInvariant'
  BY <1>6, <1>7, <1>8, <1>9, <1>10 DEF TransferInvariant
<1>12. SentIsWhole'
  BY <1>1, <1>2 DEF SentIsWhole, hostVars
<1> QED
  BY <1>4, <1>5, <1>11, <1>12

-----------------------------------------------------------------------------
(* The actions.                                                            *)

LEMMA InitInv == Init => Inv
<1> SUFFICES ASSUME Init PROVE Inv
  OBVIOUS
<1>1. TypeOK
  <2>1. proc \in [Procs -> Proc]
    BY IdleType DEF Init
  <2>2. journal \in Journal
    BY KeepAssumption DEF Init, Journal
  <2>3. files \in [Names -> File]
    BY NoFileType DEF Init
  <2> QED
    BY <2>1, <2>2, <2>3, MaxTransfersAssumption DEF Init, TypeOK
<1>2. JournalTells
  BY DEF Init, JournalTells, Tells
<1>3. TransferInvariant /\ SentIsWhole
  BY DEF Init, TransferInvariant, SentIsWhole, Owner, Tells, Running, Idle
<1> QED
  BY <1>1, <1>2, <1>3 DEF Inv

\* A source vanishes, a file is removed.
LEMMA WorldInv ==
  ASSUME Inv, (\E m \in Media : Vanish(m)) \/ (\E n \in Names : RemoveMedia(n))
  PROVE  Inv'
<1>1. UNCHANGED <<hostVars, journal, cache, proc, begun, ended>>
  BY DEF Vanish, RemoveMedia
<1>2. inputs' \subseteq Media /\ files' \in [Names -> File]
  BY NoFileType DEF Inv, TypeOK, Vanish, RemoveMedia
<1>3. TypeOK'
  BY <1>1, <1>2 DEF Inv, TypeOK, hostVars
<1>4. JournalTells' /\ SentIsWhole'
  BY <1>1 DEF Inv, JournalTells, SentIsWhole, hostVars
<1>5. TransferInvariant'
  BY <1>1 DEF Inv, TransferInvariant, Owner, hostVars
<1> QED
  BY <1>3, <1>4, <1>5 DEF Inv

\* A process that ends, dies, or gives up leaves nothing behind in memory.
LEMMA ToIdle ==
  ASSUME Inv, NEW p \in Procs,
         proc' = [proc EXCEPT ![p] = Idle],
         UNCHANGED <<hostVars, begun, cache, files, inputs>>,
         Decides(p),
         journal' \in Journal, Tells(journal', ended)
  PROVE  Inv'
<1>1. Idle.pc \notin Running /\ Idle.copy = <<>> /\ Idle.pc = "idle"
  BY DEF Idle, Running
<1>2. proc'[p] = Idle
  BY DEF Inv, TypeOK
<1>3. Owner(p)'
  BY <1>1, <1>2 DEF Owner
<1>4. Tells(Idle.copy, ended)
  BY <1>1 DEF Tells
<1>5. /\ cache' \in [Keys -> {"absent", "partial", "whole"}]
      /\ files' \in [Names -> File]
      /\ inputs' \subseteq Media
      /\ oneDisk => \A k \in Keys : cache'[k] # "partial"
  BY DEF Inv, TypeOK, TransferInvariant
<1> QED
  BY <1>1, <1>3, <1>4, <1>5, IdleType, OneProcess

LEMMA CrashInv ==
  ASSUME Inv, NEW p \in Procs, Crash(p)
  PROVE  Inv'
<1>1. Decides(p)
  <2>1. CASE ended' = ended
    BY <2>1 DEF Decides
  <2>2. CASE ended' # ended
    <3>1. /\ ended' = [ended EXCEPT ![proc[p].id] = "died"]
          /\ ended[proc[p].id] = "open"
          /\ proc[p].pc \in Running
      BY <2>2 DEF Crash
    <3> QED
      BY <3>1 DEF Decides
  <2> QED
    BY <2>1, <2>2
<1> QED
  BY <1>1, ToIdle DEF Crash, Inv, TypeOK, JournalTells

\* What a running process knows of its transfer.
LEMMA Known ==
  ASSUME Inv, NEW p \in Procs, proc[p].pc \in Running
  PROVE  /\ proc[p] \in Proc
         /\ proc[p].id \in Ids
         /\ Key(proc[p].job) \in Keys
         /\ Tells(proc[p].copy, ended)
         /\ Tells(journal, ended)
         /\ journal \in Journal
         /\ cache \in [Keys -> {"absent", "partial", "whole"}]
         /\ files \in [Names -> File]
         /\ inputs \subseteq Media
         /\ ended \in [Ids -> {"open", "died", "ok", "failed"}]
         /\ oneDisk => \A k \in Keys : cache[k] # "partial"
<1>1. proc[p] \in Proc
  BY DEF Inv, TypeOK
<1>2. proc[p].id \in Ids
  <2>1. proc[p].id \in 1 .. begun
    BY DEF Inv, TransferInvariant, Owner
  <2>2. begun \in 0 .. MaxTransfers
    BY DEF Inv, TypeOK
  <2> QED
    BY <2>1, <2>2, MaxTransfersAssumption
<1>3. Key(proc[p].job) \in Keys
  BY <1>1, JobsAssumption DEF Proc, Key, Keys
<1> QED
  BY <1>1, <1>2, <1>3 DEF Inv, TypeOK, JournalTells, TransferInvariant

LEMMA Undecided ==
  ASSUME Inv, NEW p \in Procs,
         proc[p].pc \in Running \ {"copying", "finish", "finished"}
  PROVE  ended[proc[p].id] = "open"
BY DEF Inv, TransferInvariant, Owner, Running

\* A step that changes only where a process is in its transfer.
LEMMA GoesOn ==
  ASSUME Inv, NEW p \in Procs, NEW r \in Proc,
         proc[p].pc \in Running \ {"copying", "finish", "finished"},
         r.pc \in Running \ {"copying", "finish", "finished"},
         r.id = proc[p].id,
         Tells(r.copy, ended),
         oneDisk => (r.pc \in {"pushing", "check", "show"} => r.whole),
         proc' = [proc EXCEPT ![p] = r],
         UNCHANGED <<hostVars, journal, inputs, begun, ended>>,
         cache' \in [Keys -> {"absent", "partial", "whole"}],
         oneDisk => \A k \in Keys : cache'[k] # "partial",
         files' \in [Names -> File]
  PROVE  Inv'
<1>1. proc'[p] = r
  BY DEF Inv, TypeOK
<1>2. Owner(p)'
  BY <1>1 DEF Inv, TransferInvariant, Owner, Running
<1>3. Decides(p)
  BY DEF Decides
<1> QED
  BY <1>2, <1>3, Known, OneProcess

\* A transfer is settled: its outcome is all that its process still holds.
LEMMA SettleInv ==
  ASSUME Inv, NEW p \in Procs, NEW ok \in BOOLEAN, NEW kept \in BOOLEAN,
         proc[p].pc \in Running,
         ~(ok /\ kept),
         Settle(p, ok, kept),
         \/ /\ ended[proc[p].id] = "open"
            /\ ended' = [ended EXCEPT ![proc[p].id] = IF ok THEN "ok" ELSE "failed"]
         \/ /\ ended[proc[p].id] = "failed" /\ ~ok
            /\ ended' = ended,
         UNCHANGED <<hostVars, journal, inputs, begun>>,
         cache' \in [Keys -> {"absent", "partial", "whole"}],
         oneDisk => \A k \in Keys : cache'[k] # "partial",
         files' \in [Names -> File]
  PROVE  Inv'
<1> DEFINE r == [Idle EXCEPT !.pc = "finish", !.ok = ok,
                             !.id = proc[p].id, !.kept = kept]
<1>1. /\ r \in Proc
      /\ r.pc = "finish" /\ r.ok = ok /\ r.kept = kept /\ r.id = proc[p].id
      /\ r.copy = <<>>
  BY ZenonT(60), IdleType, Known DEF Idle, Proc, Running
<1>2. proc' = [proc EXCEPT ![p] = r]
  BY DEF Settle
<1> HIDE DEF r
<1>3. proc'[p] = r
  BY <1>2 DEF Inv, TypeOK
<1>4. Decides(p)
  BY DEF Decides
<1>5. ended'[proc[p].id] = IF ok THEN "ok" ELSE "failed"
  BY Known
<1>6. proc[p].id \in 1 .. begun
  BY DEF Inv, TransferInvariant, Owner
<1>7. Owner(p)'
  BY <1>1, <1>3, <1>5, <1>6 DEF Owner
<1>8. Tells(r.copy, ended)
  BY <1>1 DEF Tells
<1> QED
  BY <1>1, <1>2, <1>4, <1>7, <1>8, Known, OneProcess DEF Running

\* A transfer begins with an id nobody has had.
LEMMA StartInv ==
  ASSUME Inv, NEW p \in Procs, NEW job \in Jobs, NEW front \in Front,
         Start(p, job, front)
  PROVE  Inv'
<1> DEFINE r == [Idle EXCEPT !.pc = "begin", !.job = job, !.front = front,
                             !.id = begun + 1]
<1>1. begun \in 0 .. MaxTransfers /\ begun < MaxTransfers /\ begun' = begun + 1
  BY DEF Inv, TypeOK, Start
<1>2. begun + 1 \in Ids
  BY <1>1, MaxTransfersAssumption
<1>3. /\ r \in Proc /\ r.pc = "begin" /\ r.id = begun + 1 /\ r.copy = <<>>
  <2>1. begun + 1 \in 0 .. MaxTransfers
    BY <1>1, MaxTransfersAssumption
  <2>2. <<>> \in Journal /\ "begin" \in Running
    BY KeepAssumption DEF Running, Journal
  <2>3. r \in Proc
    BY <2>1, <2>2, IdleType DEF Proc
  <2> QED
    BY <2>3, IdleType DEF Idle, Proc
<1>4. proc' = [proc EXCEPT ![p] = r]
  BY DEF Start
<1> HIDE DEF r
<1>5. UNCHANGED <<hostVars, journal, cache, files, inputs, ended>>
  BY DEF Start
<1>6. proc'[p] = r /\ \A q \in Procs : q # p => proc'[q] = proc[q]
  BY <1>4 DEF Inv, TypeOK
<1>7. TypeOK'
  BY <1>1, <1>2, <1>3, <1>4, <1>5 DEF Inv, TypeOK, hostVars
<1>8. JournalTells'
  BY <1>5 DEF Inv, JournalTells
<1>9. ended[begun + 1] = "open"
  BY <1>1, <1>2 DEF Inv, TransferInvariant
<1>10. ASSUME NEW q \in Procs PROVE Owner(q)' /\ Tells(proc[q].copy, ended)'
  <2>1. CASE q = p
    <3>1. Owner(p)'
      <4>1. begun + 1 \in 1 .. (begun + 1)
        BY <1>1
      <4> QED
        BY <1>1, <1>3, <1>5, <1>6, <1>9, <4>1 DEF Owner
    <3> QED
      BY <1>3, <1>6, <2>1, <3>1 DEF Tells
  <2>2. CASE q # p
    <3>1. Owner(q) /\ Tells(proc[q].copy, ended) /\ proc'[q] = proc[q]
      BY <1>6, <2>2 DEF Inv, TransferInvariant
    <3>2. proc[q].id \in 1 .. begun => proc[q].id \in 1 .. (begun + 1)
      BY <1>1
    <3> QED
      BY <1>1, <1>5, <3>1, <3>2 DEF Owner
  <2> QED
    BY <2>1, <2>2
<1>11. ASSUME NEW q \in Procs, NEW u \in Procs, q # u,
              proc'[q].pc \in Running, proc'[u].pc \in Running
       PROVE  proc'[q].id # proc'[u].id
  <2>1. \A v \in Procs : v # p /\ proc'[v].pc \in Running
                            => proc'[v].id \in 1 .. begun
    BY <1>6 DEF Inv, TransferInvariant, Owner
  <2>2. proc'[p].id = begun + 1 /\ begun + 1 \notin 1 .. begun
    BY <1>1, <1>3, <1>6
  <2>3. q # p /\ u # p => proc'[q].id # proc'[u].id
    BY <1>6, <1>11 DEF Inv, TransferInvariant
  <2> QED
    BY <1>11, <2>1, <2>2, <2>3
<1>12. \A i \in Ids : i > begun' => ended'[i] = "open"
  BY <1>1, <1>5 DEF Inv, TransferInvariant
<1>13. oneDisk' => /\ \A k \in Keys : cache'[k] # "partial"
                   /\ \A q \in Procs : proc'[q].pc # "copying"
  BY <1>3, <1>5, <1>6 DEF Inv, TransferInvariant, hostVars
<1>14. TransferInvariant'
  BY <1>10, <1>11, <1>12, <1>13 DEF TransferInvariant
<1>15. SentIsWhole'
  BY <1>3, <1>5, <1>6 DEF Inv, SentIsWhole, hostVars
<1> QED
  BY <1>7, <1>8, <1>14, <1>15 DEF Inv

LEMMA BeginInv ==
  ASSUME Inv, NEW p \in Procs, Transfer(p) \/ Retry(p)
  PROVE  Inv'
<1>1. CASE Transfer(p)
  BY <1>1, StartInv DEF Transfer
<1>2. CASE Retry(p)
  <2>1. PICK i \in DOMAIN journal, front \in Front :
           /\ front = "tui" => journal[i].job.kind = "upload"
           /\ Start(p, IF front = "cli" THEN journal[i].job
                       ELSE [journal[i].job EXCEPT !.show = FALSE,
                                                   !.replace = FALSE], front)
    BY <1>2 DEF Retry
  <2>2. journal[i].job \in Jobs
    <3>1. journal \in Seq(Record)
      BY DEF Inv, TypeOK, Journal
    <3>2. journal[i] \in Record
      BY <3>1
    <3> QED
      BY <3>2 DEF Record
  <2>3. front = "tui" => [journal[i].job EXCEPT !.show = FALSE,
                                                !.replace = FALSE] \in Jobs
    BY <2>1, <2>2, JobsAssumption
  <2> QED
    BY <2>1, <2>2, <2>3, StartInv DEF Front
<1> QED
  BY <1>1, <1>2

\* The journal is loaded: a copy that tells what the journal tells.
LEMMA LoadInv ==
  ASSUME Inv, NEW p \in Procs, BeginLoad(p) \/ FinishLoad(p)
  PROVE  Inv'
<1>1. PICK next \in {"begun", "finished"} :
         /\ Load(p, next)
         /\ next = "begun" => proc[p].pc = "begin"
         /\ next = "finished" => proc[p].pc = "finish"
  BY DEF BeginLoad, FinishLoad
<1> DEFINE r == [proc[p] EXCEPT !.pc = next, !.copy = journal]
<1>2. proc[p].pc \in Running /\ next \in Running
  BY <1>1 DEF Running
<1>3. /\ r \in Proc /\ r.pc = next /\ r.copy = journal
      /\ r.id = proc[p].id /\ r.ok = proc[p].ok /\ r.kept = proc[p].kept
  BY <1>2, Known DEF Proc
<1>4. proc' = [proc EXCEPT ![p] = r]
  BY <1>1 DEF Load
<1> HIDE DEF r
<1>5. proc'[p] = r
  BY <1>4 DEF Inv, TypeOK
<1>6. UNCHANGED <<hostVars, journal, cache, files, inputs, begun, ended>>
  BY <1>1 DEF Load
<1>7. Owner(p)'
  BY <1>1, <1>2, <1>3, <1>5, <1>6 DEF Inv, TransferInvariant, Owner
<1>8. Decides(p)
  BY <1>6 DEF Decides
<1> QED
  BY <1>1, <1>2, <1>3, <1>4, <1>6, <1>7, <1>8, Known, OneProcess

LEMMA EmptyTells == <<>> \in Journal /\ Tells(<<>>, ended)
  BY KeepAssumption DEF Journal, Tells

LEMMA BeginSaveInv ==
  ASSUME Inv, NEW p \in Procs, BeginSave(p)
  PROVE  Inv'
<1> DEFINE record  == [id |-> proc[p].id, job |-> proc[p].job,
                       outcome |-> "running", kept |-> FALSE]
           records == Append(proc[p].copy, record)
           r       == [proc[p] EXCEPT !.pc = "stage", !.copy = <<>>]
<1>1. proc[p].pc = "begun" /\ proc[p].pc \in Running
  BY DEF BeginSave, Running
<1>2. proc[p].copy \in Seq(Record) /\ record \in Record
  BY <1>1, Known DEF Proc, Record, Journal
<1>3. records \in Seq(Record)
  BY <1>2
<1>4. Tells(records, ended)
  <2>1. ASSUME NEW i \in DOMAIN records
        PROVE  records[i] = record \/ \E j \in DOMAIN proc[p].copy :
                                         records[i] = proc[p].copy[j]
    BY <1>2
  <2>2. record.outcome = "running" /\ ~record.kept
    OBVIOUS
  <2> HIDE DEF records, record
  <2> QED
    BY <1>1, <2>1, <2>2, Known DEF Tells
<1>5. /\ journal' \in {journal, Newest(records), <<>>}
      /\ proc' = [proc EXCEPT ![p] = r]
      /\ UNCHANGED <<hostVars, files, inputs, begun, ended>>
  BY DEF BeginSave, Save
<1>6. /\ cache' \in [Keys -> {"absent", "partial", "whole"}]
      /\ oneDisk => \A k \in Keys : cache'[k] # "partial"
  BY <1>1, Known DEF BeginSave
<1>7. /\ r \in Proc /\ r.pc = "stage" /\ r.copy = <<>> /\ r.id = proc[p].id
  <2>1. <<>> \in Journal /\ "stage" \in Running
    BY KeepAssumption DEF Running, Journal
  <2> QED
    BY ZenonT(60), <1>1, <2>1, Known DEF Proc
<1> HIDE DEF r, records
<1>8. journal' \in Journal /\ Tells(journal', ended)
  <2>1. CASE journal' = journal
    BY <1>1, <2>1, Known
  <2>2. CASE journal' = Newest(records)
    <3>1. Tells(Newest(records), ended)
      BY <1>3, <1>4, NewestType DEF Tells
    <3> QED
      BY <1>3, <2>2, <3>1, NewestType DEF Journal
  <2> QED
    BY <1>5, <2>1, <2>2, EmptyTells
<1>9. proc'[p] = r
  BY <1>5 DEF Inv, TypeOK
<1>10. Owner(p)'
  BY <1>1, <1>5, <1>7, <1>9 DEF Inv, TransferInvariant, Owner
<1>11. Tells(r.copy, ended)
  BY <1>7 DEF Tells
<1>12. Decides(p)
  BY <1>5 DEF Decides
<1> QED
  BY <1>1, <1>5, <1>6, <1>7, <1>8, <1>10, <1>11, <1>12, Known, OneProcess

LEMMA LeaveInv ==
  ASSUME Inv, NEW p \in Procs, proc[p].pc \in {"stage", "push"}, Leave(p)
  PROVE  Inv'
<1>1. proc[p].pc \in Running \ {"copying", "finish", "finished"}
  BY DEF Running
<1>2. Decides(p)
  BY <1>1, Undecided DEF Decides, Leave
<1> QED
  BY <1>1, <1>2, Known, ToIdle DEF Leave

LEMMA StagedInv ==
  ASSUME Inv, NEW p \in Procs, proc[p].pc \in {"stage", "encode"},
         NEW where \in {"input", "cache", "own"}, Staged(p, where)
  PROVE  Inv'
<1> DEFINE r == [proc[p] EXCEPT !.pc = "push", !.staged = where]
<1>1. proc[p].pc \in Running \ {"copying", "finish", "finished"}
  BY DEF Running
<1>2. /\ r \in Proc /\ r.pc = "push" /\ r.id = proc[p].id
      /\ r.copy = proc[p].copy
  BY ZenonT(60), <1>1, Known DEF Proc, Running
<1>3. proc' = [proc EXCEPT ![p] = r]
      /\ UNCHANGED <<hostVars, journal, cache, files, inputs, begun, ended>>
  BY DEF Staged
<1> HIDE DEF r
<1> QED
  BY <1>1, <1>2, <1>3, Known, GoesOn DEF Running

LEMMA GiveUpInv ==
  ASSUME Inv, NEW p \in Procs, proc[p].pc \in {"stage", "encode"}, GiveUp(p)
  PROVE  Inv'
<1>1. proc[p].pc \in Running \ {"copying", "finish", "finished"}
  BY DEF Running
<1> QED
  BY <1>1, Known, Undecided, SettleInv DEF GiveUp

LEMMA StageInv ==
  ASSUME Inv, NEW p \in Procs, Stage(p) \/ Encode(p)
  PROVE  Inv'
<1>1. CASE Encode(p)
  BY <1>1, StagedInv, GiveUpInv DEF Encode
<1>2. CASE Stage(p)
  <2>1. proc[p].pc = "stage"
    BY <1>2 DEF Stage
  <2>2. CASE Staged(p, "input") \/ Staged(p, "cache")
    BY <2>1, <2>2, StagedInv
  <2>3. CASE Leave(p) \/ GiveUp(p)
    BY <2>1, <2>3, LeaveInv, GiveUpInv
  <2>4. CASE proc' = [proc EXCEPT ![p].pc = "encode"]
             /\ UNCHANGED <<hostVars, journal, cache, files, inputs, begun, ended>>
    <3> DEFINE r == [proc[p] EXCEPT !.pc = "encode"]
    <3>1. proc[p].pc \in Running \ {"copying", "finish", "finished"}
      BY <2>1 DEF Running
    <3>2. /\ r \in Proc /\ r.pc = "encode" /\ r.id = proc[p].id
          /\ r.copy = proc[p].copy
      BY <3>1, Known DEF Proc, Running
    <3>3. proc' = [proc EXCEPT ![p] = r]
      BY <2>4
    <3> HIDE DEF r
    <3> QED
      BY ZenonT(60), <2>4, <3>1, <3>2, <3>3, Known, GoesOn DEF Running
  <2> QED
    BY <1>2, <2>2, <2>3, <2>4 DEF Stage
<1> QED
  BY <1>1, <1>2

\* done, for a transfer that succeeded and for one that failed.
LEMMA SucceedInv ==
  ASSUME Inv, NEW p \in Procs, proc[p].pc \in {"pushing", "check", "show"},
         Succeed(p), UNCHANGED sendVars, files' \in [Names -> File]
  PROVE  Inv'
<1>1. proc[p].pc \in Running \ {"copying", "finish", "finished"}
  BY DEF Running
<1>2. /\ cache' \in [Keys -> {"absent", "partial", "whole"}]
      /\ oneDisk => \A k \in Keys : cache'[k] # "partial"
  BY <1>1, Known DEF Succeed
<1>3. ended' = [ended EXCEPT ![proc[p].id] = "ok"] /\ Settle(p, TRUE, FALSE)
  BY DEF Succeed
<1> QED
  BY <1>1, <1>2, <1>3, Undecided, SettleInv DEF sendVars

LEMMA FailInv ==
  ASSUME Inv, NEW p \in Procs,
         proc[p].pc \in {"push", "pushing", "check", "show"},
         Fail(p), UNCHANGED sendVars, files' \in [Names -> File]
  PROVE  Inv'
<1>1. proc[p].pc \in Running \ {"copying", "finish", "finished"}
  BY DEF Running
<1>2. /\ ended[proc[p].id] = "open"
      /\ ended' = [ended EXCEPT ![proc[p].id] = "failed"]
  BY <1>1, Undecided DEF Fail
<1>3. CASE (Settle(p, FALSE, FALSE) \/ Settle(p, FALSE, TRUE)) /\ UNCHANGED cache
  BY <1>1, <1>2, <1>3, Known, SettleInv DEF sendVars
<1>4. CASE KeepMoved(p)
  <2>1. /\ cache' \in [Keys -> {"absent", "partial", "whole"}]
        /\ oneDisk => \A k \in Keys : cache'[k] # "partial"
        /\ Settle(p, FALSE, TRUE)
    BY <1>1, <1>4, Known DEF KeepMoved
  <2> QED
    BY <1>1, <1>2, <2>1, SettleInv DEF sendVars
<1>5. CASE KeepCopying(p) /\ ~oneDisk
  <2> DEFINE r == [proc[p] EXCEPT !.pc = "copying"]
  <2>1. /\ r \in Proc /\ r.pc = "copying" /\ r.id = proc[p].id
        /\ r.copy = proc[p].copy /\ r.pc \in Running
    BY <1>1, Known DEF Proc, Running
  <2>2. /\ cache' \in [Keys -> {"absent", "partial", "whole"}]
        /\ proc' = [proc EXCEPT ![p] = r]
    BY <1>1, <1>5, Known DEF KeepCopying
  <2> HIDE DEF r
  <2>3. Decides(p)
    BY <1>1, <1>2 DEF Decides
  <2>4. Owner(p)'
    <3>1. proc'[p] = r /\ ended'[proc[p].id] = "failed"
      BY <1>1, <1>2, <2>2, Known DEF Inv, TypeOK
    <3>2. proc[p].id \in 1 .. begun
      BY <1>1 DEF Inv, TransferInvariant, Owner
    <3> QED
      BY <2>1, <3>1, <3>2 DEF Owner, sendVars
  <2> QED
    BY <1>1, <1>5, <2>1, <2>2, <2>3, <2>4, Known, OneProcess DEF sendVars
<1> QED
  BY <1>3, <1>4, <1>5 DEF Fail, Renames

\* What a process begins to send is whole, on one file system.
LEMMA PushStartInv ==
  ASSUME Inv, NEW p \in Procs, PushStart(p)
  PROVE  Inv'
<1> DEFINE r == [proc[p] EXCEPT !.pc = "pushing", !.whole = Whole(p)]
<1>1. proc[p].pc = "push" /\ proc[p].pc \in Running \ {"copying", "finish", "finished"}
  BY DEF PushStart, Running
<1>2. Whole(p) \in BOOLEAN
  BY DEF Whole
<1>3. oneDisk => Whole(p)
  <2>1. SUFFICES ASSUME oneDisk, proc[p].staged = "cache"
                 PROVE  cache[Key(proc[p].job)] = "whole"
    BY DEF Whole
  <2>2. cache[Key(proc[p].job)] # "absent"
    BY <2>1 DEF PushStart, Readable
  <2> QED
    BY <1>1, <2>1, <2>2, Known
<1>4. /\ r \in Proc /\ r.pc = "pushing" /\ r.id = proc[p].id
      /\ r.copy = proc[p].copy /\ r.whole = Whole(p)
  BY ZenonT(60), <1>1, <1>2, Known DEF Proc, Running
<1>5. proc' = [proc EXCEPT ![p] = r]
  BY DEF PushStart
<1> HIDE DEF r
<1>6. files' \in [Names -> File]
  <2>1. [by |-> proc[p].id, whole |-> FALSE] \in File
    BY <1>1, Known, MaxTransfersAssumption DEF File
  <2> QED
    BY <1>1, <2>1, Known DEF PushStart
<1>7. UNCHANGED <<hostVars, journal, cache, inputs, begun, ended>>
  BY DEF PushStart, sendVars
<1>8. /\ cache \in [Keys -> {"absent", "partial", "whole"}]
      /\ oneDisk => \A k \in Keys : cache[k] # "partial"
      /\ Tells(proc[p].copy, ended)
  BY <1>1, Known
<1>9. r.pc \in Running \ {"copying", "finish", "finished"}
  BY <1>4 DEF Running
<1> QED
  BY <1>1, <1>3, <1>4, <1>5, <1>6, <1>7, <1>8, <1>9, GoesOn

LEMMA LandedType ==
  ASSUME Inv, NEW p \in Procs, proc[p].pc = "pushing",
         NEW file \in File, Landed(p, file)
  PROVE  files' \in [Names -> File]
BY Known DEF Landed, Running

LEMMA PushEndInv ==
  ASSUME Inv, NEW p \in Procs, PushEnd(p) \/ PushFails(p)
  PROVE  Inv'
<1>1. proc[p].pc = "pushing" /\ proc[p].pc \in Running \ {"copying", "finish", "finished"}
  BY DEF PushEnd, PushFails, Running
<1>2. proc[p].whole \in BOOLEAN /\ proc[p].id \in 0 .. MaxTransfers
  BY <1>1, Known DEF Proc
<1>3. CASE PushFails(p)
  <2>1. PICK left \in {[by |-> proc[p].id, whole |-> FALSE], NoFile} :
           Landed(p, left)
    BY <1>3 DEF PushFails
  <2>2. [by |-> proc[p].id, whole |-> FALSE] \in File
    BY <1>2 DEF File
  <2> QED
    BY <1>1, <1>3, <2>1, <2>2, NoFileType, LandedType, FailInv DEF PushFails
<1>4. CASE PushEnd(p)
  <2>1. PICK all \in BOOLEAN :
          /\ Landed(p, [by |-> proc[p].id, whole |-> all /\ proc[p].whole])
          /\ IF Aside(p) \/ (proc[p].job.show /\ display = "legacy")
             THEN /\ proc' = [proc EXCEPT ![p].arrived = all,
                                 ![p].pc = IF Aside(p) THEN "check" ELSE "show"]
                  /\ UNCHANGED <<cache, ended>>
             ELSE Succeed(p)
    BY <1>4 DEF PushEnd
  <2>2. UNCHANGED sendVars
    BY <1>4 DEF PushEnd
  <2>3. (all /\ proc[p].whole) \in BOOLEAN
    OBVIOUS
  <2>4. [by |-> proc[p].id, whole |-> all /\ proc[p].whole] \in File
    BY <1>2, <2>3 DEF File
  <2>5. files' \in [Names -> File]
    BY <1>1, <2>1, <2>4, LandedType
  <2>6. CASE Succeed(p)
    BY <1>1, <2>2, <2>5, <2>6, SucceedInv
  <2>7. CASE ~Succeed(p)
    <3> DEFINE next == IF Aside(p) THEN "check" ELSE "show"
               r == [proc[p] EXCEPT !.arrived = all, !.pc = next]
    <3>1. next \in {"check", "show"} /\ next \in Running \ {"copying", "finish", "finished"}
      BY DEF Running
    <3>2. proc' = [proc EXCEPT ![p] = r] /\ UNCHANGED <<cache, ended>>
      BY <2>1, <2>7
    <3> HIDE DEF next
    <3>3. /\ r \in Proc /\ r.pc = next /\ r.id = proc[p].id
          /\ r.copy = proc[p].copy /\ r.whole = proc[p].whole
      BY ZenonT(60), <1>1, <3>1, Known DEF Proc
    <3> HIDE DEF r
    <3>4. oneDisk => proc[p].whole
      BY <1>1 DEF Inv, SentIsWhole
    <3> QED
      BY <1>1, <2>2, <2>5, <3>1, <3>2, <3>3, <3>4, Known, GoesOn DEF sendVars
  <2> QED
    BY <2>6, <2>7
<1> QED
  BY <1>3, <1>4

LEMMA CheckInv ==
  ASSUME Inv, NEW p \in Procs, Check(p) \/ Show(p) \/ PushRefused(p)
  PROVE  Inv'
<1>1. proc[p].pc \in {"check", "show", "push"} /\ proc[p].pc \in Running
  BY DEF Check, Show, PushRefused, Running
<1>2. files \in [Names -> File]
  BY DEF Inv, TypeOK
<1>3. CASE Show(p)
  BY <1>2, <1>3, SucceedInv, FailInv DEF Show
<1>4. CASE PushRefused(p)
  BY <1>2, <1>4, FailInv DEF PushRefused
<1>5. CASE Check(p)
  <2>1. CASE Fail(p) /\ UNCHANGED files
    BY <1>2, <1>5, <2>1, FailInv DEF Check
  <2>2. CASE /\ files' = [files EXCEPT ![proc[p].job.name] =
                            [by |-> proc[p].id,
                             whole |-> proc[p].whole /\ proc[p].arrived]]
             /\ Succeed(p) \/ Fail(p)
    <3>1. (proc[p].whole /\ proc[p].arrived) \in BOOLEAN
      OBVIOUS
    <3>2. [by |-> proc[p].id, whole |-> proc[p].whole /\ proc[p].arrived] \in File
      BY <1>1, <3>1, Known DEF File, Proc
    <3>3. files' \in [Names -> File]
      BY <1>2, <2>2, <3>2
    <3> QED
      BY <1>5, <2>2, <3>3, SucceedInv, FailInv DEF Check
  <2> QED
    BY <1>5, <2>1, <2>2 DEF Check
<1> QED
  BY <1>3, <1>4, <1>5

LEMMA CopyInv ==
  ASSUME Inv, NEW p \in Procs, CopyEnds(p) \/ CopyFails(p)
  PROVE  Inv'
<1>1. proc[p].pc = "copying" /\ proc[p].pc \in Running
  BY DEF CopyEnds, CopyFails, Running
<1>2. ended[proc[p].id] = "failed"
  BY <1>1 DEF Inv, TransferInvariant, Owner
<1>3. files' \in [Names -> File] /\ UNCHANGED <<sendVars, ended>>
  BY <1>1, Known DEF CopyEnds, CopyFails
<1>4. CASE CopyEnds(p)
  <2>1. /\ cache' \in [Keys -> {"absent", "partial", "whole"}]
        /\ oneDisk => \A k \in Keys : cache'[k] # "partial"
        /\ Settle(p, FALSE, TRUE)
    BY <1>1, <1>4, Known DEF CopyEnds, KeepMoved
  <2> QED
    BY <1>1, <1>2, <1>3, <2>1, SettleInv DEF sendVars
<1>5. CASE CopyFails(p)
  BY <1>1, <1>2, <1>3, <1>5, Known, SettleInv DEF CopyFails, sendVars
<1> QED
  BY <1>4, <1>5

\* A journal in which every record either stays or takes the outcome that is
\* its transfer's.
LEMMA RewriteTells ==
  ASSUME NEW s \in Journal, Tells(s, ended), NEW f,
         f = [i \in DOMAIN s |-> f[i]],
         \A i \in DOMAIN s :
            \/ f[i] = s[i]
            \/ /\ f[i] \in Record
               /\ f[i].outcome = ended[f[i].id]
               /\ f[i].kept => f[i].outcome = "failed"
            \/ f[i] = [s[i] EXCEPT !.kept = FALSE]
  PROVE  f \in Journal /\ Tells(f, ended)
<1>1. s \in Seq(Record) /\ Len(s) <= Keep
  BY DEF Journal
<1>2. ASSUME NEW i \in DOMAIN s
      PROVE  /\ f[i] \in Record
             /\ f[i].outcome # "running" => f[i].outcome = ended[f[i].id]
             /\ f[i].kept => f[i].outcome = "failed"
  <2>1. s[i] \in Record
    BY <1>1
  <2>2. CASE f[i] = s[i]
    BY <2>1, <2>2 DEF Tells
  <2>3. CASE f[i] = [s[i] EXCEPT !.kept = FALSE]
    <3>1. /\ f[i] \in Record /\ f[i].outcome = s[i].outcome
          /\ f[i].id = s[i].id /\ f[i].kept = FALSE
      BY <2>1, <2>3 DEF Record
    <3> QED
      BY <3>1 DEF Tells
  <2> QED
    BY <2>2, <2>3
<1>3. f \in Seq(Record) /\ Len(f) = Len(s) /\ DOMAIN f = DOMAIN s
  BY <1>1, <1>2, MappedType
<1> QED
  BY <1>1, <1>2, <1>3 DEF Tells, Journal

LEMMA FinishSaveInv ==
  ASSUME Inv, NEW p \in Procs, FinishSave(p)
  PROVE  Inv'
<1> DEFINE s == proc[p].copy
           New(i) == [s[i] EXCEPT !.outcome = IF proc[p].ok THEN "ok" ELSE "failed",
                                  !.kept = proc[p].kept]
           f == [i \in DOMAIN s |-> IF s[i].id = proc[p].id THEN New(i) ELSE s[i]]
<1>1. proc[p].pc = "finished" /\ proc[p].pc \in Running
  BY DEF FinishSave, Running
<1>2. s \in Journal /\ Tells(s, ended) /\ proc[p] \in Proc
  BY <1>1, Known DEF Proc
<1>3. ended[proc[p].id] = (IF proc[p].ok THEN "ok" ELSE "failed")
      /\ ~(proc[p].ok /\ proc[p].kept)
  BY <1>1 DEF Inv, TransferInvariant, Owner
<1>4. ASSUME NEW i \in DOMAIN s, s[i].id = proc[p].id
      PROVE  /\ New(i) \in Record
             /\ New(i).outcome = ended[New(i).id]
             /\ New(i).kept => New(i).outcome = "failed"
  <2>1. s[i] \in Record
    BY <1>2 DEF Journal
  <2>2. /\ New(i) \in Record /\ New(i).id = proc[p].id
        /\ New(i).outcome = (IF proc[p].ok THEN "ok" ELSE "failed")
        /\ New(i).kept = proc[p].kept
    BY <1>2, <1>4, <2>1 DEF Record, Proc
  <2> HIDE DEF New
  <2> QED
    BY <1>2, <1>3, <2>2 DEF Proc
<1>5. journal' \in {journal, f, <<>>} /\ proc' = [proc EXCEPT ![p] = Idle]
      /\ UNCHANGED <<hostVars, cache, files, inputs, begun, ended>>
  BY DEF FinishSave, Save, Matches
<1>6. \A i \in DOMAIN s : f[i] = IF s[i].id = proc[p].id THEN New(i) ELSE s[i]
  OBVIOUS
<1>7. f = [i \in DOMAIN s |-> f[i]]
  OBVIOUS
<1> HIDE DEF f, New
<1>8. f \in Journal /\ Tells(f, ended)
  <2>1. \A i \in DOMAIN s : \/ f[i] = s[i]
                            \/ /\ f[i] \in Record
                               /\ f[i].outcome = ended[f[i].id]
                               /\ f[i].kept => f[i].outcome = "failed"
    BY <1>4, <1>6
  <2> HIDE DEF s
  <2> QED
    BY <1>2, <1>7, <2>1, RewriteTells
<1>9. Decides(p)
  BY <1>5 DEF Decides
<1> QED
  BY <1>1, <1>5, <1>8, <1>9, EmptyTells, Known, ToIdle

LEMMA ClearInv ==
  ASSUME Inv, NEW p \in Procs, Clear(p) \/ ClearSave(p)
  PROVE  Inv'
<1>1. CASE Clear(p)
  <2> DEFINE r == [Idle EXCEPT !.pc = "clearing", !.copy = journal]
  <2>1. /\ journal \in Journal /\ Tells(journal, ended)
        /\ files \in [Names -> File] /\ inputs \subseteq Media
    BY DEF Inv, TypeOK, JournalTells
  <2>2. /\ r \in Proc /\ r.pc = "clearing" /\ r.copy = journal
        /\ r.pc \notin Running
    BY <2>1, IdleType DEF Idle, Proc, Running
  <2>3. proc' = [proc EXCEPT ![p] = r] /\ cache' = [k \in Keys |-> "absent"]
        /\ UNCHANGED <<hostVars, journal, files, inputs, begun, ended>>
    BY <1>1 DEF Clear
  <2> HIDE DEF r
  <2>4. Owner(p)' /\ Decides(p)
    BY <2>2, <2>3 DEF Owner, Decides, Inv, TypeOK
  <2> QED
    BY <2>1, <2>2, <2>3, <2>4, OneProcess
<1>2. CASE ClearSave(p)
  <2> DEFINE s == proc[p].copy
             f == [i \in DOMAIN s |-> [s[i] EXCEPT !.kept = FALSE]]
  <2>1. s \in Journal /\ Tells(s, ended) /\ journal \in Journal /\ Tells(journal, ended)
    BY DEF Inv, TypeOK, JournalTells, TransferInvariant, Proc
  <2>2. journal' \in {journal, <<>>, f}
        /\ proc' = [proc EXCEPT ![p] = Idle]
        /\ UNCHANGED <<hostVars, cache, files, inputs, begun, ended>>
    BY <1>2 DEF ClearSave, Save
  <2>3. /\ f = [i \in DOMAIN s |-> f[i]]
        /\ \A i \in DOMAIN s : f[i] = [s[i] EXCEPT !.kept = FALSE]
    OBVIOUS
  <2> HIDE DEF f, s
  <2>4. f \in Journal /\ Tells(f, ended)
    BY <2>1, <2>3, RewriteTells
  <2>6. Decides(p)
    BY <2>2 DEF Decides
  <2> QED
    BY <2>1, <2>2, <2>4, <2>6, EmptyTells, ToIdle
<1> QED
  BY <1>1, <1>2

-----------------------------------------------------------------------------
(* The theorems.                                                           *)

LEMMA StepInv ==
  ASSUME Inv, NEW p \in Procs, Step(p) \/ Crash(p)
  PROVE  Inv'
BY CrashInv, BeginInv, LoadInv, BeginSaveInv, StageInv, PushStartInv,
   PushEndInv, CheckInv, CopyInv, FinishSaveInv, ClearInv,
   LeaveInv DEF Step, Unreachable

LEMMA NextInv == Inv /\ [Next]_vars => Inv'
<1> SUFFICES ASSUME Inv, [Next]_vars PROVE Inv'
  OBVIOUS
<1>1. CASE Next
  BY <1>1, WorldInv, StepInv DEF Next
<1>2. CASE UNCHANGED vars
  BY <1>2 DEF vars, hostVars, Inv, TypeOK, JournalTells, TransferInvariant,
              Owner, SentIsWhole
<1> QED
  BY <1>1, <1>2

\* The invariant of transfers holds at every step, however many processes
\* run, die and fail.
THEOREM Invariance == Spec => []Inv
BY InitInv, NextInv, PTL DEF Spec

\* The state of transfers has its types; in particular the journal never
\* grows beyond KEEP, though processes save copies of any age.
THEOREM TypeCorrect == Spec => []TypeOK
<1>1. Inv => TypeOK
  BY DEF Inv
<1> QED
  BY <1>1, Invariance, PTL

\* The journal never says of a transfer what did not happen.
THEOREM JournalTrue == Spec => []JournalTells
<1>1. Inv => JournalTells
  BY DEF Inv
<1> QED
  BY <1>1, Invariance, PTL

\* No process sends a part of an encode for the whole, on one file system.
THEOREM SentWhole == Spec => []SentIsWhole
<1>1. Inv => SentIsWhole
  BY DEF Inv
<1> QED
  BY <1>1, Invariance, PTL

\* The condition of ReplaceLeavesOldOrNew on one process's step.
Replacing(p) ==
    proc[p].pc \notin {"idle", "clearing"} /\ Aside(p) /\ oneDisk

LEMMA StepReplaces ==
  ASSUME Inv, NEW p \in Procs, Step(p) \/ Crash(p), Replacing(p)
  PROVE  \A n \in Names :
            files'[n] \in {files[n], [by |-> proc[p].id, whole |-> TRUE]}
<1>1. CASE UNCHANGED files
  BY <1>1
<1>2. CASE Check(p)
  <2>1. CASE UNCHANGED files
    BY <2>1
  <2>2. CASE files' = [files EXCEPT ![proc[p].job.name] =
                          [by |-> proc[p].id,
                           whole |-> proc[p].whole /\ proc[p].arrived]]
             /\ Verified(p)
    <3>1. proc[p].whole = TRUE /\ proc[p].arrived = TRUE
      <4>1. proc[p].whole /\ proc[p].arrived
        BY <1>2, <2>2 DEF Check, Inv, SentIsWhole, Replacing, Verified
      <4>2. proc[p].whole \in BOOLEAN /\ proc[p].arrived \in BOOLEAN
        BY DEF Inv, TypeOK, Proc
      <4> QED
        BY <4>1, <4>2
    <3>2. files' = [files EXCEPT ![proc[p].job.name] =
                       [by |-> proc[p].id, whole |-> TRUE]]
      BY <2>2, <3>1
    <3> QED
      BY <3>2 DEF Inv, TypeOK
  <2> QED
    BY <1>2, <2>1, <2>2 DEF Check
<1>3. CASE PushStart(p)
  BY <1>1, <1>3 DEF PushStart, Replacing
<1>4. CASE PushEnd(p) \/ PushFails(p)
  BY <1>1, <1>4 DEF PushEnd, PushFails, Landed, Replacing
<1>5. CASE BeginLoad(p) \/ FinishLoad(p) \/ BeginSave(p) \/ FinishSave(p)
           \/ Stage(p) \/ Encode(p) \/ Unreachable(p)
  BY <1>1, <1>5 DEF BeginLoad, FinishLoad, Load, BeginSave, FinishSave, Stage,
       Encode, Unreachable, Staged, Leave, GiveUp
<1>6. CASE PushRefused(p) \/ Show(p) \/ CopyEnds(p) \/ CopyFails(p) \/ Crash(p)
  BY <1>1, <1>6 DEF PushRefused, Show, CopyEnds, CopyFails, Crash
<1>7. CASE Transfer(p) \/ Retry(p) \/ Clear(p) \/ ClearSave(p)
  BY <1>7 DEF Transfer, Retry, Start, Clear, ClearSave, Replacing
<1> QED
  BY <1>2, <1>3, <1>4, <1>5, <1>6, <1>7 DEF Step

\* A step of one process leaves the others as they are.
LEMMA OnlyItsOwn ==
  ASSUME Inv, NEW q \in Procs, Step(q) \/ Crash(q), NEW u \in Procs, u # q
  PROVE  proc'[u] = proc[u]
<1>1. SUFFICES \E r : proc' = [proc EXCEPT ![q] = r]
  BY DEF Inv, TypeOK
<1>2. ASSUME NEW ok, NEW kept, Settle(q, ok, kept)
      PROVE  \E r : proc' = [proc EXCEPT ![q] = r]
  BY <1>2 DEF Settle
<1>3. ASSUME Fail(q) \/ Succeed(q) \/ KeepMoved(q) \/ GiveUp(q)
      PROVE  \E r : proc' = [proc EXCEPT ![q] = r]
  BY <1>2, <1>3 DEF Fail, Succeed, KeepMoved, KeepCopying, GiveUp
<1>4. ASSUME NEW where, Leave(q) \/ Staged(q, where) \/ Load(q, where)
      PROVE  \E r : proc' = [proc EXCEPT ![q] = r]
  BY <1>4 DEF Leave, Staged, Load
<1>5. CASE Transfer(q) \/ Retry(q) \/ Clear(q) \/ ClearSave(q) \/ Crash(q)
  BY <1>5 DEF Transfer, Retry, Start, Clear, ClearSave, Crash
<1>6. CASE BeginLoad(q) \/ FinishLoad(q) \/ BeginSave(q) \/ FinishSave(q)
  BY <1>4, <1>6 DEF BeginLoad, FinishLoad, BeginSave, FinishSave
<1>7. CASE Stage(q) \/ Encode(q) \/ Unreachable(q)
  BY <1>3, <1>4, <1>7 DEF Stage, Encode, Unreachable
<1>8. CASE PushStart(q) \/ PushRefused(q) \/ PushEnd(q) \/ PushFails(q)
  BY <1>3, <1>8 DEF PushStart, PushRefused, PushEnd, PushFails
<1>9. CASE Check(q) \/ Show(q) \/ CopyEnds(q) \/ CopyFails(q)
  BY <1>2, <1>3, <1>9 DEF Check, Show, CopyEnds, CopyFails
<1> QED
  BY <1>5, <1>6, <1>7, <1>8, <1>9 DEF Step

\* `media replace` over adb leaves the old file or the whole new one, at
\* every step and wherever it is interrupted.
THEOREM ReplaceAtomic == Spec => ReplaceLeavesOldOrNew
<1>1. ASSUME Inv, [Next]_vars, NEW p \in Procs, Replacing(p), proc'[p] # proc[p]
      PROVE  \A n \in Names :
                files'[n] \in {files[n], [by |-> proc[p].id, whole |-> TRUE]}
  <2>1. PICK q \in Procs : Step(q) \/ Crash(q)
    BY <1>1 DEF Next, vars, Vanish, RemoveMedia
  <2>2. q = p
    BY <1>1, <2>1, OnlyItsOwn
  <2> QED
    BY <1>1, <2>1, <2>2, StepReplaces
<1>2. Inv /\ [Next]_vars =>
        [\A p \in Procs :
          proc[p].pc \notin {"idle", "clearing"} /\ Aside(p) /\ oneDisk
             /\ proc'[p] # proc[p]
          => \A n \in Names :
                files'[n] \in {files[n], [by |-> proc[p].id, whole |-> TRUE]}]_vars
  BY <1>1 DEF Replacing
<1> QED
  BY <1>2, Invariance, PTL DEF Spec, ReplaceLeavesOldOrNew

============================================================================
