---------------------------- MODULE DaemonProofs ----------------------------
(***************************************************************************)
(* Theorems about the daemon's main loop, for every set of clients,        *)
(* screens, products and every SILENT_PUSH_LIMIT.                          *)
(*                                                                         *)
(* The argument is one inductive invariant, Inv.  TypeOK is not inductive  *)
(* by itself: that silent_pushes stays below its limit and that a request  *)
(* in hand has a connection rest on LoopInvariant, which in turn needs     *)
(* the types.  Each lemma below shows that one step keeps both.            *)
(***************************************************************************)
EXTENDS Daemon, TLAPS

Inv == TypeOK /\ LoopInvariant

LEMMA InitInv == Init => Inv
<1> SUFFICES ASSUME Init PROVE Inv
  OBVIOUS
<1>1. DisplayType
  BY DEF Init, DisplayType, ScreenVals
<1>2. LinkType
  BY DEF Init, LinkType, ScreenVals, Errors
<1>3. CountType
  BY SilentLimitAssumption DEF Init, CountType
<1>4. LoopType
  BY DEF Init, LoopType, Steps
<1>5. ClientType
  <2>1. IdleCall \in Calling
    BY DEF IdleCall, Calling, ScreenVals
  <2> QED
    BY <2>1 DEF Init, ClientType
<1>6. LoopInvariant
  BY DEF Init, LoopInvariant
<1> QED
  BY <1>1, <1>2, <1>3, <1>4, <1>5, <1>6 DEF Inv, TypeOK

-----------------------------------------------------------------------------
(* The environment touches neither the loop nor its counters.              *)

LEMMA EnvironmentInv ==
  ASSUME Inv, Environment
  PROVE  Inv'
<1> USE DEF Inv, TypeOK
<1>1. CASE Unplug
  <2>1. DisplayType' /\ LinkType'
    BY <1>1 DEF Unplug, DisplayType, LinkType, fileVars
  <2>2. UNCHANGED <<pushVars, due, wakeVars, loopVars, clientVars, owned, status>>
    BY <1>1 DEF Unplug
  <2>3. CountType' /\ LoopType' /\ ClientType' /\ LoopInvariant'
    BY <2>2 DEF CountType, LoopType, ClientType, LoopInvariant, pushVars,
                wakeVars, loopVars, clientVars
  <2> QED
    BY <2>1, <2>3
<1>2. CASE Plug \/ ChangeMood
  <2>1. DisplayType'
    <3>1. CASE Plug
      BY <3>1 DEF Plug, DisplayType, fileVars
    <3>2. CASE ChangeMood
      <4>1. PICK m \in Moods : device' = [device EXCEPT !.mood = m]
        BY <3>2 DEF ChangeMood
      <4> QED
        BY <3>2, <4>1 DEF ChangeMood, DisplayType, fileVars
    <3> QED
      BY <1>2, <3>1, <3>2
  <2>2. UNCHANGED <<linkVars, status, pushVars, due, wakeVars, loopVars,
                    clientVars>>
    BY <1>2 DEF Plug, ChangeMood
  <2>3. LinkType' /\ CountType' /\ LoopType' /\ ClientType' /\ LoopInvariant'
    BY <2>2 DEF LinkType, CountType, LoopType, ClientType, LoopInvariant,
                linkVars, pushVars, wakeVars, loopVars, clientVars
  <2> QED
    BY <2>1, <2>3
<1>3. CASE Suspend
  <2>1. LoopType'
    BY <1>3 DEF Suspend, LoopType, loopVars
  <2>2. UNCHANGED <<device, fileVars, linkVars, status, pushVars, loopVars,
                    clientVars>>
    BY <1>3 DEF Suspend
  <2>3. DisplayType' /\ LinkType' /\ CountType' /\ ClientType' /\ LoopInvariant'
    BY <2>2 DEF DisplayType, LinkType, CountType, ClientType, LoopInvariant,
                fileVars, linkVars, pushVars, loopVars, clientVars
  <2> QED
    BY <2>1, <2>3
<1>4. ASSUME NEW c \in Calls, Submit(c) \/ Abandon(c) \/ Finish(c)
      PROVE  Inv'
  <2>1. DisplayType'
    BY <1>4 DEF Submit, Abandon, Finish, Save, DisplayType, ClientType, Calling,
                fileVars
  <2>2. call' \in [Calls -> Calling]
    <3>1. CASE Submit(c)
      <4>1. PICK k \in Kinds, s \in Screens :
              call' = [call EXCEPT ![c] =
                          [state |-> "waiting", kind |-> k, ok |-> FALSE,
                           screen |-> CASE k = "apply" -> s
                                        [] k = "set"   -> disk
                                        [] OTHER       -> NoScreen]]
        BY <3>1 DEF Submit
      <4>2. (CASE k = "apply" -> s [] k = "set" -> disk [] OTHER -> NoScreen)
               \in ScreenVals
        BY DEF DisplayType, ScreenVals
      <4> QED
        BY <4>1, <4>2 DEF ClientType, Calling
    <3>2. CASE Abandon(c)
      BY <3>2 DEF Abandon, ClientType, Calling
    <3>3. CASE Finish(c)
      BY <3>3 DEF Finish, ClientType, Calling, IdleCall, ScreenVals
    <3> QED
      BY <1>4, <3>1, <3>2, <3>3
  <2>3. queue' \in Seq(Calls)
    BY <1>4 DEF Submit, Abandon, Finish, ClientType
  <2>4. UNCHANGED <<linkVars, status, pushVars, due, wakeVars, loopVars>>
    BY <1>4 DEF Submit, Abandon, Finish
  <2>5. LinkType' /\ CountType' /\ LoopType' /\ LoopInvariant'
    BY <2>4 DEF LinkType, CountType, LoopType, LoopInvariant, linkVars,
                pushVars, wakeVars, loopVars
  <2> QED
    BY <2>1, <2>2, <2>3, <2>5 DEF ClientType
<1> QED
  BY <1>1, <1>2, <1>3, <1>4 DEF Environment

-----------------------------------------------------------------------------
(* The main loop.                                                          *)

LEMMA ElapseInv ==
  ASSUME Inv, NEW t \in Timers, Elapse(t)
  PROVE  Inv'
<1> USE DEF Inv, TypeOK
<1>1. LoopType'
  BY DEF Elapse, LoopType, wakeVars, loopVars
<1>2. UNCHANGED <<device, fileVars, linkVars, status, pushVars, loopVars,
                  clientVars>>
  BY DEF Elapse
<1>3. DisplayType' /\ LinkType' /\ CountType' /\ ClientType' /\ LoopInvariant'
  BY <1>2 DEF DisplayType, LinkType, CountType, ClientType, LoopInvariant,
              fileVars, linkVars, pushVars, loopVars, clientVars
<1> QED
  BY <1>1, <1>3

\* Opening needs a product that is not "none"; it restarts both counters.
LEMMA OpenInv ==
  ASSUME Inv, Open \/ OpenFails \/ Listen
  PROVE  Inv'
<1> USE DEF Inv, TypeOK
<1>1. CASE Open
  <2>1. DisplayType' /\ ClientType'
    BY <1>1 DEF Open, ResetCounters, DisplayType, ClientType, clientVars
  <2>2. LinkType'
    BY <1>1 DEF Open, ResetCounters, DisplayType, LinkType, ScreenVals, Errors
  <2>3. CountType'
    BY <1>1, SilentLimitAssumption DEF Open, ResetCounters, CountType
  <2>4. LoopType'
    BY <1>1 DEF Open, ResetCounters, LoopType, Steps, Timers, Watched, wakeVars
  <2>5. LoopInvariant'
    BY <1>1, ProductsAssumption
       DEF Open, ResetCounters, LoopInvariant, DisplayType
  <2> QED
    BY <2>1, <2>2, <2>3, <2>4, <2>5
<1>2. CASE OpenFails
  <2>1. DisplayType' /\ CountType' /\ ClientType'
    BY <1>2 DEF OpenFails, DisplayType, CountType, ClientType, fileVars,
                pushVars, clientVars
  <2>2. LinkType'
    BY <1>2 DEF OpenFails, LinkType, Errors, linkVars
  <2>3. LoopType'
    BY <1>2 DEF OpenFails, LoopType, Steps, Timers, wakeVars
  <2>4. LoopInvariant'
    BY <1>2 DEF OpenFails, LoopInvariant, LinkType, LossErrors, Errors,
                linkVars, pushVars
  <2> QED
    BY <2>1, <2>2, <2>3, <2>4
<1>3. CASE Listen
  <2>1. LoopType' /\ LoopInvariant'
    BY <1>3 DEF Listen, LoopType, LoopInvariant, Steps, linkVars, pushVars,
                wakeVars
  <2>2. UNCHANGED <<device, fileVars, linkVars, status, pushVars, clientVars>>
    BY <1>3 DEF Listen
  <2>3. DisplayType' /\ LinkType' /\ CountType' /\ ClientType'
    BY <2>2 DEF DisplayType, LinkType, CountType, ClientType, fileVars,
                linkVars, pushVars, clientVars
  <2> QED
    BY <2>1, <2>3
<1> QED
  BY <1>1, <1>2, <1>3

LEMMA RestoreInv ==
  ASSUME Inv, Restore
  PROVE  Inv'
<1> USE DEF Inv, TypeOK
<1>1. DisplayType' /\ CountType' /\ ClientType'
  BY DEF Restore, Save, DisplayType, CountType, ClientType, ScreenVals, pushVars,
         clientVars
<1>2. LinkType'
  BY DEF Restore, LinkType, DisplayType, OverlayOf, ScreenVals, Errors
<1>3. LoopType'
  BY DEF Restore, LoopType, Steps
<1>4. LoopInvariant'
  BY DEF Restore, LoopInvariant, LinkType, pushVars
<1> QED
  BY <1>1, <1>2, <1>3, <1>4

\* Leaving recv_timeout, with the restore of a wake in between or not.
LEMMA WaitInv ==
  ASSUME Inv, Receive \/ Expire
  PROVE  Inv'
<1> USE DEF Inv, TypeOK
<1>1. LinkType' /\ CountType'
  BY DEF Receive, RequestReady, TakeOldest, Expire, Wake, Overran, LinkType,
         CountType,
         linkVars, pushVars
<1>2. CASE Receive
  <2>1. Head(queue) \in Calls /\ Tail(queue) \in Seq(Calls)
    BY <1>2 DEF Receive, RequestReady, TakeOldest, ClientType
  <2>2. DisplayType' /\ ClientType'
    BY <1>2, <2>1
       DEF Receive, RequestReady, TakeOldest, Wake, Overran, DisplayType, ClientType
  <2>3. LoopType'
    BY <1>2, <2>1
       DEF Receive, RequestReady, TakeOldest, Wake, Overran, LoopType, Steps, Timers
  <2>4. LoopInvariant'
    BY <1>2, <2>1
       DEF Receive, RequestReady, TakeOldest, Wake, Overran, LoopInvariant, linkVars,
           pushVars
  <2> QED
    BY <1>1, <2>2, <2>3, <2>4
<1>3. CASE Expire
  <2>1. DisplayType' /\ ClientType'
    BY <1>3 DEF Expire, Wake, Overran, DisplayType, ClientType, clientVars
  <2>2. LoopType'
    BY <1>3 DEF Expire, Wake, Overran, LoopType, Steps, Timers
  <2> DEFINE next == CASE owned = "none" -> "open"
                       [] owned # "none" /\ "keepalive" \in due -> "keepalive"
                       [] OTHER -> "push"
  <2>3. IF owned = "none" THEN next = "open" ELSE next \in {"keepalive", "push"}
    OBVIOUS
  <2>4. Wake(next) /\ current' = current /\ pc = "recv"
    BY <1>3 DEF Expire
  <2>5. LoopInvariant'
    <3> HIDE DEF next
    <3> QED
      BY <2>3, <2>4 DEF Wake, Overran, LoopInvariant, linkVars, pushVars
  <2> QED
    BY <1>1, <2>1, <2>2, <2>5
<1> QED
  BY <1>2, <1>3

-----------------------------------------------------------------------------
(* The handlers.                                                           *)

\* Replying keeps the clients' records well formed.
LEMMA ReplyType ==
  ASSUME ClientType, NEW ok \in BOOLEAN, Reply(ok)
  PROVE  /\ call' \in [Calls -> Calling]
         /\ current' = NoCall
  BY ZenonT(60) DEF ClientType, Reply, Calling, IdleCall, ScreenVals

\* A handler that drops the link or leaves it alone, says so in the status,
\* and gives a reason when it drops it, keeps the invariant.
LEMMA RefuseInv ==
  ASSUME Inv, pc = "handle", owned # "none",
         NEW error \in LossErrors, NEW ok \in BOOLEAN, NEW lost \in BOOLEAN,
         Refuse(error, ok, lost), Handled, UNCHANGED <<disk, unsaved, stale>>
  PROVE  Inv'
<1> USE DEF Inv, TypeOK
<1>1. ClientType'
  BY ReplyType DEF Refuse, Handled, ClientType
<1>2. DisplayType' /\ CountType'
  BY DEF Handled, DisplayType, CountType, pushVars
<1>3. LinkType'
  BY DEF Refuse, Drop, LinkType, LossErrors, ScreenVals, linkVars
<1>4. LoopType'
  BY DEF Refuse, Reply, Handled, LoopType, Steps, Timers
<1>5. LoopInvariant'
  BY DEF Refuse, Drop, Handled, LoopInvariant, LinkType, linkVars, pushVars
<1> QED
  BY <1>1, <1>2, <1>3, <1>4, <1>5

\* A reply that changes nothing else.
LEMMA AnswerInv ==
  ASSUME Inv, pc = "handle", NEW ok \in BOOLEAN, Reply(ok), Handled,
         UNCHANGED <<disk, unsaved, linkVars, status, due, stale>>
  PROVE  Inv'
<1> USE DEF Inv, TypeOK
<1>1. ClientType'
  BY ReplyType DEF Handled, ClientType
<1>2. DisplayType' /\ CountType' /\ LinkType'
  BY DEF Handled, DisplayType, CountType, LinkType, pushVars, linkVars
<1>3. LoopType' /\ LoopInvariant'
  BY DEF Reply, Handled, LoopType, LoopInvariant, Steps, linkVars, pushVars
<1> QED
  BY <1>1, <1>2, <1>3

LEMMA HandleInv ==
  ASSUME Inv, Handle
  PROVE  Inv'
<1>1. CASE HandleStatus \/ HandleUnlinked
  BY <1>1, AnswerInv DEF HandleStatus, HandleUnlinked, Handling
<1>2. CASE HandleCommand
  <2>1. PICK o \in CommandOutcomes :
          IF o \in {"ok", "memory"}
          THEN Reply(TRUE) /\ UNCHANGED <<linkVars, status, due>>
          ELSE Refuse("command", FALSE, Lost(o))
    BY <1>2 DEF HandleCommand
  <2>2. CASE o \in {"ok", "memory"}
    BY <1>2, <2>1, <2>2, AnswerInv DEF HandleCommand, Handling
  <2>3. CASE o \notin {"ok", "memory"}
    BY <1>2, <2>1, <2>3, RefuseInv
       DEF HandleCommand, Handling, Lost, LossErrors, Errors
  <2> QED
    BY <2>2, <2>3
<1>3. CASE HandleApply
  <2> DEFINE screen == call[current].screen
  <2>1. PICK o \in ApplyOutcomes(screen) :
          IF o = "ok"
          THEN /\ Reply(TRUE)
               /\ status' = [status EXCEPT !.screen = screen]
               /\ Save(screen)
               /\ unsaved' = (disk' # screen)
               /\ lease' = IF owned = "legacy" THEN lease ELSE OverlayOf(screen)
               /\ stale' = FALSE
               /\ UNCHANGED <<owned, alive, due>>
          ELSE /\ Refuse("command", FALSE, Lost(o) /\ owned = "legacy")
               /\ UNCHANGED <<disk, unsaved, stale>>
    BY <1>3 DEF HandleApply
  <2>2. CASE o = "ok"
    <3> USE DEF Inv, TypeOK
    <3>1. pc = "handle" /\ owned # "none" /\ Handled
      BY <1>3 DEF HandleApply, Handling
    <3>2. screen \in ScreenVals
      BY <3>1 DEF LoopInvariant, ClientType, Calling
    <3> HIDE DEF screen
    <3>3. ClientType'
      BY <2>1, <2>2, <3>1, ReplyType DEF Handled, ClientType
    <3>4. DisplayType' /\ CountType'
      BY <2>1, <2>2, <3>1, <3>2 DEF Save, Handled, DisplayType, CountType, pushVars
    <3>5. LinkType'
      BY <2>1, <2>2, <3>2 DEF LinkType, OverlayOf, ScreenVals
    <3>6. LoopType' /\ LoopInvariant'
      BY <2>1, <2>2, <3>1
         DEF Reply, Handled, LoopType, LoopInvariant, LinkType, Steps, pushVars
    <3> QED
      BY <3>3, <3>4, <3>5, <3>6
  <2>3. CASE o # "ok"
    BY <1>3, <2>1, <2>3, RefuseInv
       DEF HandleApply, Handling, Lost, LossErrors, Errors
  <2> QED
    BY <2>2, <2>3
<1>4. CASE HandleReboot
  <2>1. PICK o : IF o = "ok" THEN Refuse("reboot", TRUE, TRUE)
                 ELSE Refuse("command", FALSE, Lost(o))
    BY <1>4 DEF HandleReboot
  <2>2. "reboot" \in LossErrors /\ "command" \in LossErrors
    BY DEF LossErrors, Errors
  <2> QED
    BY <1>4, <2>1, <2>2, RefuseInv DEF HandleReboot, Handling, Lost
<1> QED
  BY <1>1, <1>2, <1>3, <1>4 DEF Handle

-----------------------------------------------------------------------------
(* The timers.                                                             *)

LEMMA KeepaliveInv ==
  ASSUME Inv, Keepalive
  PROVE  Inv'
<1> USE DEF Inv, TypeOK
<1>1. DisplayType' /\ ClientType'
  BY DEF Keepalive, AfterKeepalive, Lost, DisplayType, ClientType, fileVars,
         clientVars
<1>2. LinkType'
  BY DEF Keepalive, AfterKeepalive, Lost, Drop, LinkType, Errors, ScreenVals,
         linkVars
<1>3. CountType'
  BY SilentLimitAssumption DEF Keepalive, AfterKeepalive, Lost, CountType
<1>4. LoopType'
  BY DEF Keepalive, AfterKeepalive, Lost, LoopType, Steps, Timers, wakeVars
<1>5. LoopInvariant'
  BY DEF Keepalive, AfterKeepalive, Lost, Drop, LoopInvariant, LinkType,
         LossErrors, Errors, linkVars
<1> QED
  BY <1>1, <1>2, <1>3, <1>4, <1>5

\* The push is where the counter moves: with silent = streak below the
\* limit, one more failure reaches the limit exactly when the link goes.
LEMMA PushInv ==
  ASSUME Inv, Push
  PROVE  Inv'
<1> USE DEF Inv, TypeOK
<1>1. DisplayType' /\ ClientType'
  BY DEF Push, LimitReached, Lost, DisplayType, ClientType, fileVars,
         clientVars
<1>2. LinkType'
  BY ZenonT(60) DEF Push, LimitReached, Lost, Drop, LinkType, Errors, ScreenVals, linkVars
<1>3. CountType'
  BY SilentLimitAssumption
     DEF Push, LimitReached, Lost, CountType, LoopInvariant
<1>4. LoopType'
  BY DEF Push, LimitReached, Lost, LoopType, Steps, Timers, wakeVars
<1>5. LoopInvariant'
  BY DEF Push, LimitReached, Lost, Drop, LoopInvariant, LinkType, LossErrors,
         Errors, linkVars
<1> QED
  BY <1>1, <1>2, <1>3, <1>4, <1>5

-----------------------------------------------------------------------------
(* The theorems.                                                           *)

LEMMA NextInv == Inv /\ [Next]_vars => Inv'
<1> SUFFICES ASSUME Inv, [Next]_vars PROVE Inv'
  OBVIOUS
<1>1. CASE Environment
  BY <1>1, EnvironmentInv
<1>2. CASE \E t \in Timers : Elapse(t)
  BY <1>2, ElapseInv
<1>3. CASE Expire \/ Receive
  BY <1>3, WaitInv
<1>4. CASE Open \/ OpenFails \/ Listen
  BY <1>4, OpenInv
<1>5. CASE Restore
  BY <1>5, RestoreInv
<1>6. CASE Handle
  BY <1>6, HandleInv
<1>7. CASE Keepalive \/ Push
  BY <1>7, KeepaliveInv, PushInv
<1>8. CASE UNCHANGED vars
  BY <1>8 DEF vars, Inv, TypeOK, DisplayType, LinkType, CountType, LoopType,
              ClientType, LoopInvariant, fileVars, linkVars, pushVars,
              wakeVars, loopVars, clientVars
<1> QED
  BY <1>1, <1>2, <1>3, <1>4, <1>5, <1>6, <1>7, <1>8 DEF Next, Loop

\* Every state of the main loop is well typed and satisfies what the loop
\* relies on between its steps.
THEOREM Invariance == Safety => []Inv
<1> QED
  BY InitInv, NextInv, PTL DEF Safety

\* The types hold, whatever the constants: in particular silent_pushes stays
\* below SILENT_PUSH_LIMIT between steps.
THEOREM TypeCorrect == Safety => []TypeOK
<1>1. Inv => TypeOK
  BY DEF Inv
<1> QED
  BY <1>1, Invariance, PTL

\* Every reply is built from a status that tells the truth about the link,
\* and a daemon without a display can say why it has none.
THEOREM StatusTrue == Safety => []StatusTellsTheLink
<1>1. Inv => StatusTellsTheLink
  BY DEF Inv, LoopInvariant, StatusTellsTheLink
<1> QED
  BY <1>1, Invariance, PTL

-----------------------------------------------------------------------------
(* Why a link is lost.                                                     *)

LEMMA AliveOutcomes ==
  ASSUME TypeOK, alive
  PROVE  /\ "gone" \notin Outcomes
         /\ "gone" \notin WriteOutcomes
<1>1. device.mood \in {"well", "flaky", "mute"}
  BY MoodsAssumption DEF TypeOK, DisplayType
<1> QED
  BY <1>1 DEF Outcomes, WriteOutcomes

LEMMA LossStep ==
  ASSUME Inv, Next, owned # "none", owned' = "none", alive
  PROVE  \/ pc = "handle" /\ call[current].kind = "reboot"
         \/ streak' = SilentLimit
<1> USE DEF Inv
<1>1. CASE Environment \/ \E t \in Timers : Elapse(t)
  BY <1>1 DEF Environment, Unplug, Plug, ChangeMood, Suspend, Submit, Abandon,
              Finish, Elapse, linkVars
<1>2. CASE Open \/ OpenFails \/ Listen \/ Restore \/ Receive \/ Expire
  BY <1>2, ProductsAssumption
     DEF Open, OpenFails, Listen, Restore, Receive, Expire, Wake, Overran, linkVars,
         LoopInvariant
<1>3. CASE HandleStatus \/ HandleUnlinked
  BY <1>3 DEF HandleStatus, HandleUnlinked, linkVars
<1>4. CASE HandleCommand
  <2>1. "gone" \notin CommandOutcomes
    BY AliveOutcomes DEF CommandOutcomes
  <2> QED
    BY <1>4, <2>1 DEF HandleCommand, Refuse, Drop, Lost, linkVars
<1>5. CASE HandleApply
  <2>1. ASSUME NEW s PROVE "gone" \notin ApplyOutcomes(s)
    BY AliveOutcomes DEF ApplyOutcomes
  <2> QED
    BY <1>5, <2>1 DEF HandleApply, Refuse, Drop, Lost, linkVars
<1>6. CASE HandleReboot
  BY <1>6 DEF HandleReboot, Handling
<1>7. CASE Keepalive
  <2>1. "gone" \notin KeepaliveOutcomes
    BY AliveOutcomes DEF KeepaliveOutcomes
  <2> QED
    BY <1>7, <2>1 DEF Keepalive, AfterKeepalive, Lost, Drop, linkVars
<1>8. CASE Push
  <2>1. "gone" \notin PushOutcomes
    BY AliveOutcomes DEF PushOutcomes
  <2>2. silent + 1 >= SilentLimit /\ streak' = streak + 1
    BY <1>8, <2>1 DEF Push, LimitReached, Lost, Drop, linkVars
  <2> QED
    BY <2>2, SilentLimitAssumption DEF LoopInvariant, TypeOK, CountType
<1> QED
  BY <1>1, <1>2, <1>3, <1>4, <1>5, <1>6, <1>7, <1>8 DEF Next, Loop, Handle

\* A display that can be reached is given up only on request or after
\* SILENT_PUSH_LIMIT failures in a row on the link at hand.
THEOREM LostForCause == Safety => LinkLostForCause
<1> DEFINE P == owned # "none" /\ owned' = "none" =>
                   \/ ~alive
                   \/ pc = "handle" /\ call[current].kind = "reboot"
                   \/ streak' = SilentLimit
<1>1. Inv /\ [Next]_vars => [P]_vars
  BY LossStep
<1>2. Safety => [][P]_vars
  BY <1>1, Invariance, PTL DEF Safety
<1> QED
  BY <1>2 DEF LinkLostForCause

-----------------------------------------------------------------------------
(* No request is lost or answered twice.                                   *)

\* Steps that touch neither the queue, the clients, nor the request in hand.
LEMMA AccountedQuiet ==
  ASSUME RequestsAccounted, UNCHANGED <<clientVars, current>>,
         current # NoCall =>
            pc' = "handle" \/ (pc' = "restore" /\ after' = "handle")
  PROVE  RequestsAccounted'
  BY DEF RequestsAccounted, Queued, clientVars

LEMMA AccountedClient ==
  ASSUME Inv, RequestsAccounted, NEW c \in Calls,
         Submit(c) \/ Abandon(c) \/ Finish(c)
  PROVE  RequestsAccounted'
<1> USE DEF Inv, TypeOK
<1>1. UNCHANGED <<pc, after, current>>
  BY DEF Submit, Abandon, Finish, loopVars
<1>2. CASE Submit(c)
  <2>1. /\ call[c].state = "idle"
        /\ queue' = Append(queue, c)
        /\ call' = [call EXCEPT ![c] = call'[c]]
        /\ call'[c].state = "waiting"
    BY <1>2 DEF Submit, ClientType
  <2>2. current # c /\ ~Queued(c)
    BY <2>1 DEF RequestsAccounted
  <2>3. /\ queue \in Seq(Calls)
        /\ DOMAIN queue = 1 .. Len(queue)
        /\ DOMAIN queue' = 1 .. Len(queue) + 1
        /\ queue'[Len(queue) + 1] = c
        /\ \A i \in DOMAIN queue : queue'[i] = queue[i]
    BY <2>1 DEF ClientType
  <2>4. \A d : Queued(d)' <=> Queued(d) \/ d = c
    BY <2>3 DEF Queued
  <2>5. \A i, j \in DOMAIN queue' : queue'[i] = queue'[j] => i = j
    BY <2>2, <2>3 DEF RequestsAccounted, Queued
  <2>6. \A d \in Calls : call'[d].state \in {"waiting", "abandoned"}
                            <=> (current' = d \/ Queued(d)')
    BY <1>1, <2>1, <2>4 DEF RequestsAccounted, ClientType
  <2>7. \A i \in DOMAIN queue' : queue'[i] # current'
    BY <1>1, <2>2, <2>3 DEF RequestsAccounted
  <2> QED
    BY <1>1, <2>5, <2>6, <2>7 DEF RequestsAccounted
<1>3. CASE Abandon(c) \/ Finish(c)
  <2>1. /\ queue' = queue
        /\ \A d \in Calls : call'[d].state \in {"waiting", "abandoned"}
                               <=> call[d].state \in {"waiting", "abandoned"}
    BY <1>3 DEF Abandon, Finish, IdleCall, ClientType, Calling
  <2> QED
    BY <1>1, <2>1 DEF RequestsAccounted, Queued
<1> QED
  BY <1>2, <1>3

LEMMA AccountedReceive ==
  ASSUME Inv, RequestsAccounted, Receive
  PROVE  RequestsAccounted'
<1>1. /\ queue \in Seq(Calls) /\ queue # <<>>
      /\ current' = queue[1]
      /\ queue' = Tail(queue)
      /\ UNCHANGED call
      /\ current = NoCall
      /\ pc' = "handle" \/ (pc' = "restore" /\ after' = "handle")
  BY DEF Receive, RequestReady, TakeOldest, Wake, Overran, Inv, TypeOK,
         ClientType,
         RequestsAccounted
<1>2. /\ DOMAIN queue = 1 .. Len(queue)
      /\ 1 \in DOMAIN queue
      /\ DOMAIN queue' = 1 .. Len(queue) - 1
      /\ \A i \in DOMAIN queue' : i + 1 \in DOMAIN queue /\ queue'[i] = queue[i + 1]
  BY <1>1
<1>3. \A i \in DOMAIN queue : i = 1 \/ i - 1 \in DOMAIN queue'
  BY <1>1, <1>2
<1>4. \A i, j \in DOMAIN queue' : queue'[i] = queue'[j] => i = j
  BY <1>2 DEF RequestsAccounted
<1>5. \A i \in DOMAIN queue' : queue'[i] # current'
  BY <1>1, <1>2 DEF RequestsAccounted
<1>6. \A c \in Calls : Queued(c) <=> (current' = c \/ Queued(c)')
  BY <1>1, <1>2, <1>3 DEF Queued
<1>7. \A c \in Calls : c # NoCall
  BY CallsAssumption
<1>8. \A c \in Calls : call'[c].state \in {"waiting", "abandoned"}
                          <=> (current' = c \/ Queued(c)')
  BY <1>1, <1>6, <1>7 DEF RequestsAccounted
<1> QED
  BY <1>1, <1>4, <1>5, <1>8 DEF RequestsAccounted

LEMMA AccountedHandle ==
  ASSUME Inv, RequestsAccounted, Handle
  PROVE  RequestsAccounted'
<1>1. PICK ok \in BOOLEAN : Reply(ok)
  BY DEF Handle, HandleStatus, HandleUnlinked, HandleCommand, HandleApply,
         HandleReboot, Refuse
<1>2. queue' = queue /\ pc = "handle"
  BY DEF Handle, HandleStatus, HandleUnlinked, HandleCommand, HandleApply,
         HandleReboot, Handled, Handling
<1>3. current \in Calls
  BY <1>2 DEF Inv, LoopInvariant
<1>4. /\ current' = NoCall
      /\ call'[current].state \in {"idle", "replied"}
      /\ \A c \in Calls \ {current} : call'[c] = call[c]
  BY <1>1, <1>3 DEF Reply, IdleCall, Inv, TypeOK, ClientType, Calling
<1>5. ~Queued(current)
  BY DEF RequestsAccounted, Queued
<1>6. \A i \in DOMAIN queue : queue[i] \in Calls
  BY DEF Inv, TypeOK, ClientType
<1>7. \A i \in DOMAIN queue' : queue'[i] # current'
  BY <1>2, <1>4, <1>6, CallsAssumption
<1>8. \A c \in Calls : call'[c].state \in {"waiting", "abandoned"} <=> Queued(c)
  BY <1>4, <1>5 DEF RequestsAccounted
<1> QED
  BY <1>2, <1>4, <1>7, <1>8, CallsAssumption DEF RequestsAccounted, Queued

LEMMA AccountedNext ==
  ASSUME Inv, RequestsAccounted, [Next]_vars
  PROVE  RequestsAccounted'
<1>1. CASE Unplug \/ Plug \/ ChangeMood \/ Suspend \/ UNCHANGED vars
           \/ \E t \in Timers : Elapse(t)
  <2>1. UNCHANGED <<clientVars, loopVars>>
    BY <1>1 DEF Unplug, Plug, ChangeMood, Suspend, Elapse, vars
  <2> QED
    BY <2>1, AccountedQuiet DEF RequestsAccounted, loopVars
<1>2. CASE \E c \in Calls : Submit(c) \/ Abandon(c) \/ Finish(c)
  BY <1>2, AccountedClient
<1>3. CASE Open \/ OpenFails \/ Listen \/ Expire \/ Keepalive \/ Push
  <2>1. UNCHANGED <<clientVars, current>> /\ pc \notin {"restore", "handle"}
    BY <1>3 DEF Open, OpenFails, Listen, Expire, Keepalive, Push
  <2> QED
    BY <2>1, AccountedQuiet DEF RequestsAccounted
<1>4. CASE Restore
  BY <1>4, AccountedQuiet DEF Restore, RequestsAccounted
<1>5. CASE Receive
  BY <1>5, AccountedReceive
<1>6. CASE Handle
  BY <1>6, AccountedHandle
<1> QED
  BY <1>1, <1>2, <1>3, <1>4, <1>5, <1>6 DEF Next, Loop, Environment

\* For any number of clients: every request that was sent and not answered
\* is in the channel once or in hand, and nothing else is.
THEOREM NothingLost == Safety => []RequestsAccounted
<1>1. Init => RequestsAccounted
  BY CallsAssumption DEF Init, RequestsAccounted, Queued, IdleCall
<1>2. Inv /\ RequestsAccounted /\ [Next]_vars => RequestsAccounted'
  BY AccountedNext
<1> QED
  BY <1>1, <1>2, Invariance, PTL DEF Safety

-----------------------------------------------------------------------------
(* What is saved is what is reported.                                      *)

\* A client that is changing a setting: it writes back, with its change, the
\* whole of what it read before (display.rs:124).
Changing(c) == call[c].state # "idle" /\ call[c].kind \in {"apply", "set"}

\* Changes do not overlap; any other requests may.  With one client it is so,
\* and with two that change something it is not: the file may then be undone.
OneChange == \A c, d \in Calls : Changing(c) /\ Changing(d) => c = d

\* The screen a client would write.
Carries(c) ==
    /\ Changing(c)
    /\ call[c].kind = "set" \/ (call[c].state = "replied" /\ call[c].ok)

\* The file, the copy that a restore works on, the status, and what a client is
\* about to write are one screen, unless the last one applied was not saved.
AllOne ==
    /\ pc = "restore" => saved = disk
    /\ owned # "none" /\ pc # "restore" => disk = status.screen
    /\ \A c \in Calls : Carries(c) => call[c].screen = disk
Agree == ~unsaved => AllOne

\* Steps that leave the screens and the clients alone.
LEMMA AgreeQuiet ==
  ASSUME Agree, UNCHANGED <<disk, unsaved, call>>, status'.screen = status.screen,
         pc' = "restore" => saved' = disk,
         pc' # "restore" /\ owned' # "none" => pc # "restore" /\ owned # "none"
  PROVE  Agree'
  BY DEF Agree, AllOne, Carries, Changing

LEMMA AgreeClient ==
  ASSUME Inv, Agree, NEW c \in Calls, Submit(c) \/ Abandon(c) \/ Finish(c)
  PROVE  Agree'
<1> USE DEF Inv, TypeOK, ClientType
<1>1. UNCHANGED <<saved, unsaved, owned, status, pc>>
  BY DEF Submit, Abandon, Finish, fileVars, linkVars, loopVars
<1>2. \A d \in Calls \ {c} : call'[d] = call[d]
  BY DEF Submit, Abandon, Finish
<1>3. AllOne => disk' = disk /\ (Carries(c)' => call'[c].screen = disk)
  <2>1. CASE Submit(c)
    <3>1. PICK k \in Kinds, s \in Screens :
            call' = [call EXCEPT ![c] =
                        [state |-> "waiting", kind |-> k, ok |-> FALSE,
                         screen |-> CASE k = "apply" -> s
                                      [] k = "set"   -> disk
                                      [] OTHER       -> NoScreen]]
      BY <2>1 DEF Submit
    <3>2. /\ call'[c].state = "waiting" /\ call'[c].kind = k
          /\ k = "set" => call'[c].screen = disk
      BY <3>1
    <3> QED
      BY <2>1, <3>2 DEF Submit, Carries, fileVars
  <2>2. CASE Abandon(c)
    <3>1. /\ call'[c].state = "abandoned" /\ call'[c].kind = call[c].kind
          /\ call'[c].screen = call[c].screen
      BY <2>2 DEF Abandon, Calling
    <3> QED
      BY <2>2, <3>1 DEF Abandon, AllOne, Carries, Changing, fileVars
  <2>3. CASE Finish(c)
    <3>1. ~Carries(c)' /\ call[c].state = "replied"
      BY <2>3 DEF Finish, IdleCall, Carries, Changing
    <3>2. AllOne /\ Writes(c) => call[c].screen = disk
      BY <3>1 DEF AllOne, Carries, Changing, Writes
    <3> QED
      BY <2>3, <3>1, <3>2 DEF Finish, Save
  <2> QED
    BY <2>1, <2>2, <2>3
<1> QED
  BY <1>1, <1>2, <1>3 DEF Agree, AllOne, Carries, Changing

\* A request is answered: to nobody, or with what was asked.
LEMMA ReplyCall ==
  ASSUME TypeOK, NEW c \in Calls, current = c, NEW ok \in BOOLEAN, Reply(ok)
  PROVE  /\ \/ ~Changing(c)' /\ ~Carries(c)'
            \/ /\ call'[c].kind = call[c].kind /\ call'[c].screen = call[c].screen
               /\ call'[c].state = "replied" /\ call'[c].ok = ok
         /\ \A d \in Calls \ {c} : call'[d] = call[d]
<1>1. call \in [Calls -> Calling]
  BY DEF TypeOK, ClientType
<1>2. CASE call[c].state = "abandoned"
  <2>1. call' = [call EXCEPT ![c] = IdleCall]
    BY <1>2 DEF Reply
  <2> QED
    BY <1>1, <2>1 DEF IdleCall, Changing, Carries
<1>3. CASE call[c].state # "abandoned"
  <2>1. call' = [call EXCEPT ![c] = [@ EXCEPT !.state = "replied", !.ok = ok]]
    BY <1>3 DEF Reply
  <2> QED
    BY <1>1, <2>1 DEF Calling
<1> QED
  BY <1>2, <1>3

\* What a client may write once it has its answer is what it read, unless it
\* was applied.
LEMMA AgreeReply ==
  ASSUME Inv, Agree, Handle, ~HandleApply, RequestsAccounted
  PROVE  Agree'
<1> USE DEF Inv, TypeOK, ClientType
<1>1. PICK ok \in BOOLEAN : Reply(ok) /\ (ok => call[current].kind # "apply")
  BY DEF Handle, HandleStatus, HandleUnlinked, HandleCommand,
         HandleReboot, Refuse, Handling
<1>2. /\ UNCHANGED <<disk, saved, unsaved>> /\ status'.screen = status.screen
      /\ pc = "handle" /\ pc' = "recv"
      /\ owned' \in {owned, "none"}
  BY DEF Handle, HandleStatus, HandleUnlinked, HandleCommand, HandleReboot,
         Refuse, Drop, Handled, Handling, LinkType, linkVars
<1>3. PICK c \in Calls : c = current /\ call[c].state # "idle"
  BY <1>2, CallsAssumption DEF LoopInvariant, RequestsAccounted
<1>4. \A d \in Calls \ {c} : call'[d] = call[d]
  BY <1>1, <1>3, ReplyCall
<1>5. Carries(c)' => Carries(c) /\ call'[c].screen = call[c].screen
  BY <1>1, <1>3, ReplyCall DEF Carries, Changing
<1> QED
  BY <1>2, <1>3, <1>4, <1>5 DEF Agree, AllOne, Carries, Changing

LEMMA AgreeApply ==
  ASSUME Inv, Agree, HandleApply, RequestsAccounted, OneChange
  PROVE  Agree'
<1> USE DEF Inv, TypeOK, ClientType
<1>1. /\ pc = "handle" /\ pc' = "recv" /\ call[current].kind = "apply"
      /\ owned # "none"
  BY DEF HandleApply, Handling, Handled
<1>2. PICK c \in Calls : c = current /\ call[c].state # "idle"
  BY <1>1, CallsAssumption DEF LoopInvariant, RequestsAccounted
<1>3. PICK o \in ApplyOutcomes(call[c].screen) :
        IF o = "ok"
        THEN /\ Reply(TRUE) /\ unsaved' = (disk' # call[c].screen)
             /\ status' = [status EXCEPT !.screen = call[c].screen]
        ELSE /\ Refuse("command", FALSE, Lost(o) /\ owned = "legacy")
             /\ UNCHANGED <<disk, unsaved>>
  BY <1>2 DEF HandleApply
<1>4. \A d \in Calls \ {c} : ~Carries(d)'
  <2>1. \A d \in Calls \ {c} : ~Changing(d) /\ call'[d] = call[d]
    BY <1>1, <1>2, <1>3, ReplyCall DEF OneChange, Changing, Refuse
  <2> QED
    BY <2>1 DEF Carries, Changing
<1>5. CASE o = "ok"
  <2>1. ~unsaved' => status'.screen = disk' /\ disk' = call[c].screen
    BY <1>3, <1>5 DEF LinkType
  <2>2. Carries(c)' => call'[c].screen = call[c].screen
    BY <1>2, <1>3, <1>5, ReplyCall
  <2> QED
    BY <1>1, <1>4, <2>1, <2>2 DEF Agree, AllOne
<1>6. CASE o # "ok"
  <2>1. /\ UNCHANGED <<disk, unsaved>> /\ status'.screen = status.screen /\ Reply(FALSE)
    BY <1>3, <1>6 DEF Refuse, LinkType
  <2>2. ~Carries(c)'
    BY <1>1, <1>2, <2>1, ReplyCall DEF Carries
  <2> QED
    BY <1>1, <1>4, <2>1, <2>2 DEF Agree, AllOne
<1> QED
  BY <1>5, <1>6

LEMMA AgreeNext ==
  ASSUME Inv, Agree, RequestsAccounted, OneChange, [Next]_vars
  PROVE  Agree'
<1>1. CASE Unplug \/ Plug \/ ChangeMood \/ Suspend \/ UNCHANGED vars
           \/ \E t \in Timers : Elapse(t)
  BY <1>1, AgreeQuiet DEF Unplug, Plug, ChangeMood, Suspend, Elapse, vars, Agree, AllOne,
                          fileVars, linkVars, loopVars, clientVars
<1>2. CASE \E c \in Calls : Submit(c) \/ Abandon(c) \/ Finish(c)
  BY <1>2, AgreeClient
<1>3. CASE Open \/ OpenFails
  BY <1>3, AgreeQuiet DEF Open, OpenFails, Inv, TypeOK, LinkType, LoopInvariant,
                          fileVars, linkVars, clientVars
<1>4. CASE Listen
  BY <1>4, AgreeQuiet DEF Listen, fileVars, linkVars, clientVars
<1>5. CASE Restore
  BY <1>5 DEF Restore, Save, Agree, AllOne, Carries, Changing, Inv, LoopInvariant, clientVars
<1>6. CASE Receive \/ Expire
  BY <1>6, AgreeQuiet DEF Receive, Expire, Wake, linkVars, clientVars
<1>7. CASE Keepalive \/ Push
  BY <1>7, AgreeQuiet DEF Keepalive, Push, AfterKeepalive, Drop, Inv, TypeOK, LinkType,
                          fileVars, linkVars, clientVars
<1>8. CASE Handle
  BY <1>8, AgreeReply, AgreeApply
<1> QED
  BY <1>1, <1>2, <1>3, <1>4, <1>5, <1>6, <1>7, <1>8 DEF Next, Loop, Environment

\* While changes do not overlap, display.json between requests holds the screen
\* the daemon reports, through failures, replugs, restores and reboots, saves
\* that fail, and clients that give up or take their answer late; but not after
\* a screen the daemon applied and could not save.
THEOREM SavedAsReported == Safety /\ []OneChange => []SavedIsReported
<1>1. Init => Agree
  BY DEF Init, Agree, AllOne, Carries, Changing, IdleCall
<1>2. Inv /\ RequestsAccounted /\ OneChange /\ Agree /\ [Next]_vars => Agree'
  BY AgreeNext
<1>3. Agree => SavedIsReported
  BY DEF Agree, AllOne, SavedIsReported
<1> QED
  BY <1>1, <1>2, <1>3, Invariance, NothingLost, PTL DEF Safety

-----------------------------------------------------------------------------
(* The daemon is the abstract service.                                     *)

\* The parts of the mapping, under names of their own.
Line == IF current = NoCall THEN queue ELSE <<current>> \o queue
AskOf(c) == IF call[c].kind = "status" THEN "status" ELSE "other"
AnswerOf(c) == IF call[c].state # "replied" THEN "none"
               ELSE IF call[c].ok THEN "yes" ELSE "no"
Askings == [c \in Calls |-> AskOf(c)]
Answers == [c \in Calls |-> AnswerOf(c)]
Up == owned # "none"

\* The steps of the service, in those names.
AskStep(c) ==
    /\ Answers[c] = "none"
    /\ \A i \in DOMAIN Line : Line[i] # c
    /\ Line' = Append(Line, c)
    /\ \E a \in {"status", "other"} : Askings' = [Askings EXCEPT ![c] = a]
    /\ Answers' = Answers /\ Up' = Up
AnswerStep(c) ==
    /\ Line # <<>> /\ c = Head(Line)
    /\ Line' = Tail(Line)
    /\ \E a \in IF Up \/ Askings[c] = "status" THEN {"yes", "no", "none"}
                                               ELSE {"no", "none"} :
          Answers' = [Answers EXCEPT ![c] = a]
    /\ Askings' \in {Askings, [Askings EXCEPT ![c] = "status"]}
    /\ Up' \in {Up, FALSE}
TakeStep(c) ==
    /\ Answers[c] # "none"
    /\ Answers' = [Answers EXCEPT ![c] = "none"]
    /\ Askings' = [Askings EXCEPT ![c] = "status"]
    /\ Line' = Line /\ Up' = Up
Same == Line' = Line /\ Askings' = Askings /\ Answers' = Answers
ServiceStep ==
    \/ \E c \in Calls : AskStep(c) \/ TakeStep(c) \/ AnswerStep(c)
    \/ Same /\ (Up' = Up \/ Up' = ~Up)

LEMMA ServiceStepIsPromise ==
  ASSUME ServiceStep
  PROVE  [Promise!Next]_(Promise!vars)
<1>1. CASE \E c \in Calls : AskStep(c) \/ TakeStep(c)
  <2>1. PICK c \in Calls : AskStep(c) \/ TakeStep(c)
    BY <1>1
  <2>2. CASE AskStep(c)
    <3>1. Promise!Ask(c)
      BY <2>2 DEF AskStep, Promise!Ask, Promise!Asks, Line, Askings, Answers, Up,
                  AskOf, AnswerOf
    <3> QED
      BY <3>1 DEF Promise!Next
  <2>3. CASE TakeStep(c)
    <3>1. Promise!Take(c)
      BY <2>3 DEF TakeStep, Promise!Take, Line, Askings, Answers, Up, AskOf, AnswerOf
    <3> QED
      BY <3>1 DEF Promise!Next
  <2> QED
    BY <2>1, <2>2, <2>3
<1>2. CASE \E c \in Calls : AnswerStep(c)
  <2>1. Promise!Answer
    BY <1>2 DEF AnswerStep, Promise!Answer, Line, Askings, Answers, Up, AskOf, AnswerOf
  <2> QED
    BY <2>1 DEF Promise!Next
<1>3. CASE Same /\ Up' = Up
  BY <1>3 DEF Same, Promise!vars, Line, Askings, Answers, Up, AskOf, AnswerOf
<1>4. CASE Same /\ Up' = ~Up
  <2>1. Promise!Change
    BY <1>4 DEF Same, Promise!Change, Line, Askings, Answers, Up, AskOf, AnswerOf
  <2> QED
    BY <2>1 DEF Promise!Next
<1> QED
  BY <1>1, <1>2, <1>3, <1>4 DEF ServiceStep

\* Steps that leave the requests alone, and at most open or drop the link.
LEMMA ServesQuiet ==
  ASSUME UNCHANGED <<queue, call, current>>
  PROVE  ServiceStep
  BY DEF ServiceStep, Same, Line, Askings, Answers, AskOf, AnswerOf, Up

LEMMA ServesClient ==
  ASSUME Inv, RequestsAccounted, NEW c \in Calls, Submit(c) \/ Abandon(c) \/ Finish(c)
  PROVE  ServiceStep
<1> USE DEF Inv, TypeOK, ClientType
<1>1. current' = current /\ owned' = owned /\ \A d \in Calls \ {c} : call'[d] = call[d]
  BY DEF Submit, Abandon, Finish, loopVars, linkVars
<1>2. /\ Up' = Up
      /\ \A d \in Calls \ {c} : AskOf(d)' = AskOf(d) /\ AnswerOf(d)' = AnswerOf(d)
  BY <1>1 DEF Up, AskOf, AnswerOf
<1>3. CASE Submit(c)
  <2>1. call[c].state = "idle" /\ queue' = Append(queue, c)
    BY <1>3 DEF Submit
  <2>2. call'[c].state = "waiting"
    BY <1>3 DEF Submit
  <2>3. AnswerOf(c) = "none" /\ AnswerOf(c)' = "none" /\ AskOf(c)' \in {"status", "other"}
    BY <2>1, <2>2 DEF AnswerOf, AskOf
  <2>4. Line' = Append(Line, c)
    <3>1. CASE current = NoCall
      BY <1>1, <2>1, <3>1 DEF Line
    <3>2. CASE current # NoCall
      <4>1. current \in Calls /\ queue \in Seq(Calls)
        BY <3>2 DEF LoopType
      <4>2. <<current>> \o Append(queue, c) = Append(<<current>> \o queue, c)
        BY <4>1
      <4> QED
        BY <1>1, <2>1, <3>2, <4>2 DEF Line
    <3> QED
      BY <3>1, <3>2
  <2>5. \A i \in DOMAIN Line : Line[i] # c
    <3>1. current # c /\ ~Queued(c)
      BY <2>1 DEF RequestsAccounted
    <3>2. CASE current = NoCall
      BY <3>1, <3>2 DEF Line, Queued
    <3>3. CASE current # NoCall
      <4>1. current \in Calls /\ queue \in Seq(Calls)
        BY <3>3 DEF LoopType
      <4>2. \A i \in DOMAIN (<<current>> \o queue) :
              \/ (<<current>> \o queue)[i] = current
              \/ i - 1 \in DOMAIN queue /\ (<<current>> \o queue)[i] = queue[i - 1]
        BY <4>1
      <4> QED
        BY <3>1, <3>3, <4>2 DEF Line, Queued
    <3> QED
      BY <3>2, <3>3
  <2>6. /\ Askings' = [Askings EXCEPT ![c] = AskOf(c)']
        /\ Answers' = Answers
    BY <1>2, <2>3 DEF Askings, Answers
  <2>7. AskStep(c)
    BY <1>2, <2>3, <2>4, <2>5, <2>6 DEF AskStep, Answers
  <2> QED
    BY <2>7 DEF ServiceStep
<1>4. CASE Abandon(c)
  <2>1. AnswerOf(c)' = AnswerOf(c) /\ AskOf(c)' = AskOf(c) /\ queue' = queue
    BY <1>4 DEF Abandon, AnswerOf, AskOf, Calling
  <2>2. Same
    BY <1>1, <1>2, <2>1 DEF Same, Line, Askings, Answers
  <2> QED
    BY <1>2, <2>2 DEF ServiceStep
<1>5. CASE Finish(c)
  <2>1. AnswerOf(c) # "none" /\ AnswerOf(c)' = "none" /\ AskOf(c)' = "status" /\ queue' = queue
    BY <1>5 DEF Finish, AnswerOf, AskOf, IdleCall
  <2>2. TakeStep(c)
    BY <1>1, <1>2, <2>1 DEF TakeStep, Line, Askings, Answers
  <2> QED
    BY <2>2 DEF ServiceStep
<1> QED
  BY <1>3, <1>4, <1>5

LEMMA ServesReceive ==
  ASSUME Inv, RequestsAccounted, Receive
  PROVE  ServiceStep
<1>1. /\ queue \in Seq(Calls) /\ queue # <<>>
      /\ current' = Head(queue) /\ queue' = Tail(queue)
      /\ UNCHANGED <<call, owned>>
      /\ current = NoCall
  BY DEF Receive, RequestReady, TakeOldest, Wake, Inv, TypeOK, ClientType,
         RequestsAccounted, linkVars
<1>2. Head(queue) \in Calls /\ <<Head(queue)>> \o Tail(queue) = queue
  BY <1>1
<1>3. Line' = Line
  BY <1>1, <1>2, CallsAssumption DEF Line
<1> QED
  BY <1>1, <1>3 DEF ServiceStep, Same, Askings, Answers, AskOf, AnswerOf, Up

LEMMA ServesHandle ==
  ASSUME Inv, RequestsAccounted, Handle
  PROVE  ServiceStep
<1> USE DEF Inv, TypeOK, ClientType
<1>1. PICK ok \in BOOLEAN :
        /\ Reply(ok)
        /\ ok /\ owned = "none" => call[current].kind = "status"
  BY DEF Handle, HandleStatus, HandleUnlinked, HandleCommand, HandleApply,
         HandleReboot, Refuse, Handling
<1>2. queue' = queue /\ pc = "handle" /\ owned' \in {owned, "none"}
  BY DEF Handle, HandleStatus, HandleUnlinked, HandleCommand, HandleApply,
         HandleReboot, Refuse, Drop, Handled, Handling, linkVars
<1>3. PICK c \in Calls : c = current
  BY <1>2 DEF LoopInvariant
<1>4. c # NoCall /\ current' = NoCall
  BY <1>1, <1>3, CallsAssumption DEF Reply
<1>5. Line # <<>> /\ c = Head(Line) /\ Line' = Tail(Line)
  <2>1. <<c>> \o queue # <<>> /\ Head(<<c>> \o queue) = c /\ Tail(<<c>> \o queue) = queue
    OBVIOUS
  <2> QED
    BY <1>2, <1>3, <1>4, <2>1 DEF Line
<1>6. \A d \in Calls \ {c} : AskOf(d)' = AskOf(d) /\ AnswerOf(d)' = AnswerOf(d)
  BY <1>1, <1>3, ReplyCall DEF AskOf, AnswerOf
<1>7. \/ AnswerOf(c)' = "none" /\ AskOf(c)' = "status"
      \/ AnswerOf(c)' = (IF ok THEN "yes" ELSE "no") /\ AskOf(c)' = AskOf(c)
  <2>1. CASE call[c].state = "abandoned"
    BY <1>1, <1>3, <2>1 DEF Reply, IdleCall, AskOf, AnswerOf
  <2>2. CASE call[c].state # "abandoned"
    <3>1. call' = [call EXCEPT ![c] = [@ EXCEPT !.state = "replied", !.ok = ok]]
      BY <1>1, <1>3, <2>2 DEF Reply
    <3>2. call'[c].state = "replied" /\ call'[c].ok = ok /\ call'[c].kind = call[c].kind
      BY <3>1 DEF Calling
    <3> QED
      BY <3>2 DEF AskOf, AnswerOf
  <2> QED
    BY <2>1, <2>2
<1>8. ok /\ ~Up => Askings[c] = "status"
  BY <1>1, <1>3 DEF Up, Askings, AskOf
<1>9. /\ Answers' = [Answers EXCEPT ![c] = AnswerOf(c)']
      /\ Askings' = [Askings EXCEPT ![c] = AskOf(c)']
  BY <1>6 DEF Answers, Askings
<1>10. Askings' \in {Askings, [Askings EXCEPT ![c] = "status"]}
  BY <1>7, <1>9 DEF Askings
<1>11. \E a \in IF Up \/ Askings[c] = "status" THEN {"yes", "no", "none"}
                                               ELSE {"no", "none"} :
         Answers' = [Answers EXCEPT ![c] = a]
  BY <1>7, <1>8, <1>9
<1>12. Up' \in {Up, FALSE}
  BY <1>2 DEF Up
<1>13. AnswerStep(c)
  BY <1>5, <1>10, <1>11, <1>12 DEF AnswerStep
<1> QED
  BY <1>13 DEF ServiceStep

LEMMA ServesNext ==
  ASSUME Inv, RequestsAccounted, [Next]_vars
  PROVE  ServiceStep
<1>1. CASE Unplug \/ Plug \/ ChangeMood \/ Suspend \/ UNCHANGED vars
           \/ \E t \in Timers : Elapse(t)
  BY <1>1, ServesQuiet DEF Unplug, Plug, ChangeMood, Suspend, Elapse, vars,
                           loopVars, clientVars
<1>2. CASE \E c \in Calls : Submit(c) \/ Abandon(c) \/ Finish(c)
  BY <1>2, ServesClient
<1>3. CASE Open \/ OpenFails \/ Listen \/ Restore \/ Expire \/ Keepalive \/ Push
  BY <1>3, ServesQuiet DEF Open, OpenFails, Listen, Restore, Expire, Keepalive, Push,
                           clientVars
<1>4. CASE Receive
  BY <1>4, ServesReceive
<1>5. CASE Handle
  BY <1>5, ServesHandle
<1> QED
  BY <1>1, <1>2, <1>3, <1>4, <1>5 DEF Next, Loop, Environment

\* For any number of clients, seen from them the daemon is the abstract
\* service: it answers in order, at most once, and refuses all but a status
\* while the display is away.
THEOREM Serves == Safety => ServesClients
<1>1. Init => Promise!Init
  BY DEF Init, Promise!Init, IdleCall
<1>2. Inv /\ RequestsAccounted /\ [Next]_vars => [Promise!Next]_(Promise!vars)
  BY ServesNext, ServiceStepIsPromise
<1> QED
  BY <1>1, <1>2, Invariance, NothingLost, PTL DEF Safety, ServesClients, Promise!Spec

=============================================================================
