----------------------------- MODULE Transfers -----------------------------
(***************************************************************************)
(* Transfers of media to the display, the journal that records them, and   *)
(* the encodes kept from failed ones (tryxctl/src/media.rs, ops.rs and the *)
(* uploads of tui/worker.rs).                                              *)
(*                                                                         *)
(* Every command is a process of its own: nothing locks the journal, the   *)
(* encodes or the files on the display, a process may die between any two  *)
(* steps, and any step that asks the host or the display for something may *)
(* fail.  A transfer goes through                                          *)
(*                                                                         *)
(*   begin -> begun -> stage (-> encode) -> push -> pushing (-> check or   *)
(*   show) (-> copying) -> finish -> finished                              *)
(*                                                                         *)
(* where begin and finish are about to load the journal, and begun and     *)
(* finished hold a copy of it that they are about to save.                 *)
(***************************************************************************)
EXTENDS Naturals, Sequences

CONSTANTS
    Procs,        \* the processes that may run at the same time
    Media,        \* sources, each with the options it is prepared with
    Compliant,    \* those that go to the display unchanged
    Names,        \* names on the display
    Jobs,         \* the transfers the user may ask for
    Keep,         \* KEEP, the records the journal holds
    MaxTransfers  \* bound: transfers begun in one behaviour

ASSUME CompliantAssumption == Compliant \subseteq Media
\* What a transfer needs to be run again: Pending.
ASSUME JobsAssumption ==
    /\ Jobs \subseteq [kind : {"upload", "replace"}, media : Media, name : Names,
                      show : BOOLEAN, replace : BOOLEAN]
    /\ Jobs # {}
    /\ \A j \in Jobs : j.kind = "replace" => j.replace /\ ~j.show
    /\ \A j \in Jobs : j.kind = "upload" =>
          [j EXCEPT !.show = FALSE, !.replace = FALSE] \in Jobs
ASSUME KeepAssumption == Keep \in Nat \ {0}
ASSUME MaxTransfersAssumption == MaxTransfers \in Nat

VARIABLES
    display, \* which protocol the display speaks; never changes
    oneDisk, \* the encodes are on the file system of the temporary files
    journal, \* operations.json
    cache,   \* the kept encodes, by key
    files,   \* the files on the display, by name
    inputs,  \* the sources that exist
    proc,    \* the processes
    begun,   \* how many transfers have begun; also the newest id
    ended    \* history: how each transfer ended

hostVars == <<display, oneDisk>>
vars == <<hostVars, journal, cache, files, inputs, proc, begun, ended>>

-----------------------------------------------------------------------------

Ids == 1 .. MaxTransfers

Record == [id : Ids, job : Jobs, outcome : {"running", "ok", "failed"},
           kept : BOOLEAN]
Journal == {records \in Seq(Record) : Len(records) <= Keep}

\* A file on the display: the transfer that wrote it last, 0 for one that
\* was there before, and whether it is whole.
File == [by : 0 .. MaxTransfers, whole : BOOLEAN]
NoFile == [by |-> 0, whole |-> FALSE]

Key(job) == <<job.media, job.name>>
Keys == Media \X Names

Front == {"cli", "tui"}
Running == {"begin", "begun", "stage", "encode", "push", "pushing", "check",
            "show", "copying", "finish", "finished"}

\* A process: where its staged file is, whether what it sends is whole, how
\* its transfer went, and its copy of the journal.
Proc == [pc : Running \cup {"idle", "clearing"}, front : Front, job : Jobs,
         id : 0 .. MaxTransfers, staged : {"none", "input", "cache", "own"},
         whole : BOOLEAN, arrived : BOOLEAN, ok : BOOLEAN, kept : BOOLEAN,
         copy : Journal]

AnyJob == CHOOSE j \in Jobs : TRUE
Idle == [pc |-> "idle", front |-> "cli", job |-> AnyJob, id |-> 0,
         staged |-> "none", whole |-> FALSE, arrived |-> FALSE, ok |-> FALSE,
         kept |-> FALSE, copy |-> <<>>]

TypeOK ==
    /\ display \in {"legacy", "kanali"}
    /\ oneDisk \in BOOLEAN
    /\ journal \in Journal
    /\ cache \in [Keys -> {"absent", "partial", "whole"}]
    /\ files \in [Names -> File]
    /\ inputs \subseteq Media
    /\ proc \in [Procs -> Proc]
    /\ begun \in 0 .. MaxTransfers
    /\ ended \in [Ids -> {"open", "died", "ok", "failed"}]

Init ==
    /\ display \in {"legacy", "kanali"}
    /\ oneDisk \in BOOLEAN
    /\ journal = <<>>
    /\ cache = [k \in Keys |-> "absent"]
    /\ files \in [Names -> {NoFile, [by |-> 0, whole |-> TRUE]}]
    /\ inputs = Media
    /\ proc = [p \in Procs |-> Idle]
    /\ begun = 0
    /\ ended = [i \in Ids |-> "open"]

-----------------------------------------------------------------------------
(* The world outside the processes.                                        *)

\* The user moves or deletes a source.
Vanish(m) ==
    /\ m \in inputs
    /\ inputs' = inputs \ {m}
    /\ UNCHANGED <<hostVars, journal, cache, files, proc, begun, ended>>

\* `media rm` takes a file off the display.
RemoveMedia(n) ==
    /\ files[n] # NoFile
    /\ files' = [files EXCEPT ![n] = NoFile]
    /\ UNCHANGED <<hostVars, journal, cache, inputs, proc, begun, ended>>

\* A process is killed.
Crash(p) ==
    /\ proc[p].pc # "idle"
    /\ proc' = [proc EXCEPT ![p] = Idle]
    /\ ended' = IF proc[p].pc \in Running /\ ended[proc[p].id] = "open"
                THEN [ended EXCEPT ![proc[p].id] = "died"] ELSE ended
    /\ UNCHANGED <<hostVars, journal, cache, files, inputs, begun>>

-----------------------------------------------------------------------------
(* Starting a transfer, and its record in the journal.                     *)

\* Whether the name is free to be written, as the display's list says before
\* anything is encoded.
Accepts(job, front) ==
    LET exists == files[job.name] # NoFile IN
    CASE front = "tui"       -> ~exists
      [] job.kind = "upload" -> exists => job.replace
      [] OTHER               -> display = "legacy" => exists

\* A catalog the command line cannot read counts as an empty one.
Unlisted(front) == front = "cli" /\ display = "kanali"

Start(p, job, front) ==
    /\ proc[p].pc = "idle"
    /\ begun < MaxTransfers
    /\ job.media \in inputs
    /\ Accepts(job, front) \/ Unlisted(front)
    /\ begun' = begun + 1
    /\ proc' = [proc EXCEPT ![p] = [Idle EXCEPT !.pc = "begin", !.job = job,
                                   !.front = front, !.id = begun + 1]]
    /\ UNCHANGED <<hostVars, journal, cache, files, inputs, ended>>

\* `media upload`, `media replace`, and an upload in the terminal interface,
\* which offers neither --show nor --replace.
Transfer(p) ==
    \E job \in Jobs, front \in Front :
        /\ front = "tui" => job.kind = "upload" /\ ~job.show /\ ~job.replace
        /\ Start(p, job, front)

\* `op retry` runs a failed transfer again as it was; the terminal interface
\* only uploads, and never replaces.
Retry(p) ==
    \E i \in DOMAIN journal, front \in Front :
        /\ journal[i].outcome = "failed"
        /\ front = "tui" => journal[i].job.kind = "upload"
        /\ Start(p, IF front = "cli" THEN journal[i].job
                    ELSE [journal[i].job EXCEPT !.show = FALSE,
                                                !.replace = FALSE], front)

Load(p, next) ==
    /\ proc' = [proc EXCEPT ![p].pc = next, ![p].copy = journal]
    /\ UNCHANGED <<hostVars, journal, cache, files, inputs, begun, ended>>

\* A save may fail, and the failure is ignored; two at once write the same
\* temporary file, and may leave a journal that reads as empty.
Save(p, records) ==
    \/ journal' \in {journal, records}
    \/ /\ journal' = <<>>
       /\ \E q \in Procs \ {p} : proc[q].pc \in {"begun", "finished", "clearing"}

BeginLoad(p) == proc[p].pc = "begin" /\ Load(p, "begun")

\* The records over Keep go, and with each the encode kept from it.
Evicted(records) ==
    {records[i] : i \in 1 .. (IF Len(records) > Keep THEN Len(records) - Keep
                                                     ELSE 0)}
KeepsAll(records) == records
Newest(records) ==
    SubSeq(records, IF Len(records) > Keep THEN Len(records) - Keep + 1 ELSE 1,
           Len(records))

BeginSave(p) ==
    /\ proc[p].pc = "begun"
    /\ LET record  == [id |-> proc[p].id, job |-> proc[p].job,
                       outcome |-> "running", kept |-> FALSE]
           records == Append(proc[p].copy, record)
           lost    == {Key(r.job) : r \in {r \in Evicted(records) : r.kept}}
       IN /\ Save(p, Newest(records))
          /\ cache' = [k \in Keys |-> IF k \in lost THEN "absent" ELSE cache[k]]
    /\ proc' = [proc EXCEPT ![p].pc = "stage", ![p].copy = <<>>]
    /\ UNCHANGED <<hostVars, files, inputs, begun, ended>>

-----------------------------------------------------------------------------
(* Staging: the file itself, a kept encode, or a new one.                  *)

\* The process returns without a word to the journal.
Leave(p) ==
    /\ proc' = [proc EXCEPT ![p] = Idle]
    /\ ended' = [ended EXCEPT ![proc[p].id] = "died"]
    /\ UNCHANGED <<hostVars, journal, cache, files, inputs, begun>>

\* All that is left of a transfer is its outcome.
Settle(p, ok, kept) ==
    proc' = [proc EXCEPT ![p] = [Idle EXCEPT !.pc = "finish", !.ok = ok,
                                    !.id = proc[p].id, !.kept = kept]]

\* The transfer failed, and there is nothing to keep.
GiveUp(p) ==
    /\ Settle(p, FALSE, FALSE)
    /\ ended' = [ended EXCEPT ![proc[p].id] = "failed"]
    /\ UNCHANGED <<hostVars, journal, cache, files, inputs, begun>>

Staged(p, where) ==
    /\ proc' = [proc EXCEPT ![p].pc = "push", ![p].staged = where]
    /\ UNCHANGED <<hostVars, journal, cache, files, inputs, begun, ended>>

Stage(p) ==
    /\ proc[p].pc = "stage"
    /\ LET job == proc[p].job IN
       IF job.media \in Compliant THEN Staged(p, "input")
       ELSE IF job.media \notin inputs
            THEN IF proc[p].front = "cli" THEN Leave(p) ELSE GiveUp(p)
       ELSE IF cache[Key(job)] # "absent" THEN Staged(p, "cache")
       ELSE /\ proc' = [proc EXCEPT ![p].pc = "encode"]
            /\ UNCHANGED <<hostVars, journal, cache, files, inputs, begun, ended>>

\* The encode, verified before it is used and deleted when it failed.
Encode(p) ==
    /\ proc[p].pc = "encode"
    /\ Staged(p, "own") \/ GiveUp(p)

-----------------------------------------------------------------------------
(* Sending.                                                                *)

\* Whether the staged file is there and, when it is, is whole.
Readable(p) ==
    CASE proc[p].staged = "input" -> proc[p].job.media \in inputs
      [] proc[p].staged = "cache" -> cache[Key(proc[p].job)] # "absent"
      [] OTHER                    -> TRUE
Whole(p) ==
    proc[p].staged = "cache" => cache[Key(proc[p].job)] = "whole"

\* keep: a rename or, when that fails, a copy.
CopiesAlways == FALSE
Renames == oneDisk
KeepMoved(p) ==
    /\ cache' = [cache EXCEPT ![Key(proc[p].job)] = "whole"]
    /\ Settle(p, FALSE, TRUE)
KeepCopying(p) ==
    /\ cache' = [cache EXCEPT ![Key(proc[p].job)] = "partial"]
    /\ proc' = [proc EXCEPT ![p].pc = "copying"]

\* done: a sent encode is deleted, and one that was not is kept.
Succeed(p) ==
    /\ cache' = IF proc[p].staged = "input" THEN cache
                ELSE [cache EXCEPT ![Key(proc[p].job)] = "absent"]
    /\ Settle(p, TRUE, FALSE)
    /\ ended' = [ended EXCEPT ![proc[p].id] = "ok"]
Fail(p) ==
    /\ \/ /\ proc[p].staged # "cache" \* nothing to keep, or nowhere
          /\ Settle(p, FALSE, FALSE)
          /\ UNCHANGED cache
       \/ /\ proc[p].staged = "cache"
          /\ Settle(p, FALSE, TRUE)
          /\ UNCHANGED cache
       \/ proc[p].staged = "own" /\ Renames /\ KeepMoved(p)
       \/ proc[p].staged = "own" /\ ~Renames /\ KeepCopying(p)
    /\ ended' = [ended EXCEPT ![proc[p].id] = "failed"]

sendVars == <<hostVars, journal, inputs, begun>>

\* Only `media replace` over adb pushes under a name of its own.
Aside(p) == proc[p].job.kind = "replace" /\ display = "legacy"

\* The push begins, and with it the file on the display; or it does not: no
\* room, no staged file, no connection.  A KANALI display takes one transfer
\* at a time.
PushStart(p) ==
    /\ proc[p].pc = "push"
    /\ Readable(p)
    /\ display = "kanali" => \A q \in Procs : proc[q].pc # "pushing"
    /\ proc' = [proc EXCEPT ![p].pc = "pushing", ![p].whole = Whole(p)]
    /\ files' = IF Aside(p) THEN files
                ELSE [files EXCEPT ![proc[p].job.name] =
                                      [by |-> proc[p].id, whole |-> FALSE]]
    /\ UNCHANGED <<sendVars, cache, ended>>

PushRefused(p) ==
    /\ proc[p].pc = "push"
    /\ Fail(p)
    /\ UNCHANGED <<sendVars, files>>

\* In the terminal interface a display that cannot be reached at all ends
\* the transfer before the journal hears of it.
Unreachable(p) ==
    /\ proc[p].pc = "push"
    /\ proc[p].front = "tui"
    /\ Leave(p)

\* Who wrote the name last owns it.
Landed(p, file) ==
    LET name == proc[p].job.name IN
    files' = IF Aside(p) \/ files[name].by # proc[p].id THEN files
             ELSE [files EXCEPT ![name] = file]

\* The push reports success, whether or not all of it arrived.
PushEnd(p) ==
    /\ proc[p].pc = "pushing"
    /\ \E all \in BOOLEAN :
          /\ Landed(p, [by |-> proc[p].id, whole |-> all /\ proc[p].whole])
          /\ IF Aside(p) \/ (proc[p].job.show /\ display = "legacy")
             THEN /\ proc' = [proc EXCEPT ![p].arrived = all,
                                 ![p].pc = IF Aside(p) THEN "check" ELSE "show"]
                  /\ UNCHANGED <<cache, ended>>
             ELSE Succeed(p)
    /\ UNCHANGED sendVars

\* The push fails and leaves a part of the file, or none.
PushFails(p) ==
    /\ proc[p].pc = "pushing"
    /\ \E left \in {[by |-> proc[p].id, whole |-> FALSE], NoFile} :
          Landed(p, left)
    /\ Fail(p)
    /\ UNCHANGED sendVars

\* replace: a copy of the right size is renamed over the old file.
SizeIgnored(p) == TRUE
Verified(p) == proc[p].arrived
Check(p) ==
    /\ proc[p].pc = "check"
    /\ \/ /\ Verified(p)
          /\ files' = [files EXCEPT ![proc[p].job.name] =
                          [by |-> proc[p].id,
                           whole |-> proc[p].whole /\ proc[p].arrived]]
          /\ Succeed(p) \/ Fail(p) \* done, and perhaps reported otherwise
       \/ /\ Fail(p)
          /\ UNCHANGED files
    /\ UNCHANGED sendVars

\* upload --show: the screen is part of the transfer.
Show(p) ==
    /\ proc[p].pc = "show"
    /\ Succeed(p) \/ Fail(p)
    /\ UNCHANGED <<sendVars, files>>

\* The copy into the cache ends, or stops half way.
CopyEnds(p) ==
    /\ proc[p].pc = "copying"
    /\ KeepMoved(p)
    /\ UNCHANGED <<sendVars, files, ended>>
CopyFails(p) ==
    /\ proc[p].pc = "copying"
    /\ Settle(p, FALSE, FALSE)
    /\ UNCHANGED <<sendVars, cache, files, ended>>

-----------------------------------------------------------------------------
(* The record of the outcome, and clearing.                                *)

FinishLoad(p) == proc[p].pc = "finish" /\ Load(p, "finished")

\* The record with the transfer's id, if it is still there.
MatchesNewest(record, p) == record.id = proc[p].copy[Len(proc[p].copy)].id
Matches(record, p) == record.id = proc[p].id

FinishSave(p) ==
    /\ proc[p].pc = "finished"
    /\ Save(p, [i \in DOMAIN proc[p].copy |->
                LET record == proc[p].copy[i] IN
                IF Matches(record, p)
                THEN [record EXCEPT !.outcome = IF proc[p].ok THEN "ok"
                                                ELSE "failed",
                                    !.kept = proc[p].kept]
                ELSE record])
    /\ proc' = [proc EXCEPT ![p] = Idle]
    /\ UNCHANGED <<hostVars, cache, files, inputs, begun, ended>>

\* `op clear`: the encodes go, and the journal is read.
Clear(p) ==
    /\ proc[p].pc = "idle"
    /\ cache' = [k \in Keys |-> "absent"]
    /\ proc' = [proc EXCEPT ![p] = [Idle EXCEPT !.pc = "clearing",
                                                !.copy = journal]]
    /\ UNCHANGED <<hostVars, journal, files, inputs, begun, ended>>

\* The journal forgets the encodes or, with --journal, everything.
ClearSave(p) ==
    /\ proc[p].pc = "clearing"
    /\ \E records \in {<<>>, [i \in DOMAIN proc[p].copy |->
                                 [proc[p].copy[i] EXCEPT !.kept = FALSE]]} :
          Save(p, records)
    /\ proc' = [proc EXCEPT ![p] = Idle]
    /\ UNCHANGED <<hostVars, cache, files, inputs, begun, ended>>

-----------------------------------------------------------------------------

Step(p) ==
    \/ Transfer(p) \/ Retry(p) \/ BeginLoad(p) \/ BeginSave(p)
    \/ Stage(p) \/ Encode(p)
    \/ PushStart(p) \/ PushRefused(p) \/ Unreachable(p)
    \/ PushEnd(p) \/ PushFails(p) \/ Check(p) \/ Show(p)
    \/ CopyEnds(p) \/ CopyFails(p)
    \/ FinishLoad(p) \/ FinishSave(p)
    \/ Clear(p) \/ ClearSave(p)

Next ==
    \/ \E m \in Media : Vanish(m)
    \/ \E n \in Names : RemoveMedia(n)
    \/ \E p \in Procs : Step(p) \/ Crash(p)

Spec == Init /\ [][Next]_vars

-----------------------------------------------------------------------------
(* What a transfer promises.                                               *)

\* The journal never says of a transfer what did not happen: with processes
\* that overwrite each other's journal, saves that fail and processes that
\* die, a record may be lost or stay "running", but one that says "ok" or
\* "failed" is right, and only a failed one has an encode kept from it.
Tells(records, fates) ==
    \A i \in DOMAIN records :
        /\ records[i].outcome # "running"
              => records[i].outcome = fates[records[i].id]
        /\ records[i].kept => records[i].outcome = "failed"
JournalTells == Tells(journal, ended)

\* `media replace` over adb leaves the old file or the whole new one, at
\* every step, wherever it fails or dies, whatever else writes that name.
ReplaceLeavesOldOrNew ==
    [][\A p \in Procs :
          proc[p].pc \notin {"idle", "clearing"} /\ Aside(p) /\ oneDisk
             /\ proc'[p] # proc[p]
          => \A n \in Names :
                files'[n] \in {files[n], [by |-> proc[p].id, whole |-> TRUE]}]_vars

\* With the encodes on the file system of the temporary files, where keep is
\* a rename, no process ever sends a part of an encode for the whole, though
\* others keep, replace, evict, and delete it at any time.
SentIsWhole ==
    oneDisk => \A p \in Procs : proc[p].pc \in {"pushing", "check", "show"}
                                    => proc[p].whole

\* On two file systems as on one, an encode that is kept is whole unless a
\* process is still copying it.
KeptIsWhole ==
    \A k \in Keys :
        cache[k] = "partial" => \E p \in Procs : proc[p].pc = "copying"
                                                 /\ Key(proc[p].job) = k

\* A failed transfer whose encode was kept can be retried: that all of the
\* file reached the display, and only showing it failed, is no reason to
\* refuse.
KeptIsRetriable ==
    \A i \in DOMAIN journal :
        LET record == journal[i] IN
        record.kept
          /\ files[record.job.name] = [by |-> record.id, whole |-> TRUE]
        => Accepts(record.job, "cli")

\* What makes JournalTells and SentIsWhole inductive: a transfer's end is
\* decided once, by the one process that has its id; what a process will
\* record is how its transfer ended; a copy of the journal that is about to
\* be saved, however old, says nothing false either; and on one file system
\* no encode is ever partial.
Owner(p) ==
    proc[p].pc \in Running =>
        /\ proc[p].id \in 1 .. begun
        /\ ended[proc[p].id] =
              CASE proc[p].pc = "copying" -> "failed"
                [] proc[p].pc \in {"finish", "finished"} ->
                      IF proc[p].ok THEN "ok" ELSE "failed"
                [] OTHER -> "open"
        /\ proc[p].pc \in {"finish", "finished"} => ~(proc[p].ok /\ proc[p].kept)
TransferInvariant ==
    /\ \A p \in Procs : Owner(p) /\ Tells(proc[p].copy, ended)
    /\ \A p, q \in Procs :
          p # q /\ proc[p].pc \in Running /\ proc[q].pc \in Running
             => proc[p].id # proc[q].id
    /\ \A i \in Ids : i > begun => ended[i] = "open"
    /\ oneDisk => /\ \A k \in Keys : cache[k] # "partial"
                  /\ \A p \in Procs : proc[p].pc # "copying"

============================================================================
