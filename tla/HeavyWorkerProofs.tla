-------------------------- MODULE HeavyWorkerProofs --------------------------
(***************************************************************************)
(* Proofs about HeavyWorker, for any number of callers, sources, children  *)
(* and faults.                                                             *)
(***************************************************************************)
EXTENDS HeavyWorker, TLAPS

-----------------------------------------------------------------------------
(* Types.                                                                  *)

(* What the shared head of every queue decision may do to the supervisor:  *)
(* a live one is left alone.                                               *)
SupKept ==
  /\ job' = job /\ unsure' = unsure
  /\ sup' = sup \/ (~SupAlive /\ sup' \in {"read", "none"})
  /\ faults' \in 0..MaxFaults

LEMMA FaultTyped ==
  ASSUME faults \in 0..MaxFaults, Fault
  PROVE  faults' \in 0..MaxFaults
  BY BoundsAssumption DEF Fault

LEMMA RecoverKeeps ==
  ASSUME TypeOK, NEW s, Recover(s)
  PROVE  SupKept
<1>1. CASE s # NoSlot /\ ~SupAlive
  <2>1. Attach
    BY <1>1 DEF Recover
  <2>2. faults' \in 0..MaxFaults
    BY <2>1, FaultTyped DEF Attach, TypeOK
  <2>3. QED
    BY <1>1, <2>1, <2>2 DEF Attach, SupKept
<1>2. CASE ~(s # NoSlot /\ ~SupAlive)
  BY <1>2 DEF Recover, supVars, SupKept, TypeOK
<1>3. QED
  BY <1>1, <1>2

LEMMA HeldTyped ==
  ASSUME TypeOK, NEW ms
  PROVE  Held(ms) \in [Kinds -> Statuses]
  BY DEF TypeOK, Held, Statuses

LEMMA RepairKeeps ==
  ASSUME TypeOK, Repair
  PROVE  /\ SupKept
         /\ pending' \in {pending, <<>>} /\ (Orphaned => pending' = <<>>)
         /\ pending' \in Seq(Sources)
         /\ status' \in [Kinds -> Statuses]
<1>1. CASE Orphaned
  BY <1>1, HeldTyped DEF Repair, ReleaseOrphans, Orphaned, SupKept, TypeOK
<1>2. CASE ~Orphaned
  BY <1>2, RecoverKeeps DEF Repair, TypeOK
<1>3. QED
  BY <1>1, <1>2

LEMMA QueueKeeps ==
  ASSUME TypeOK, NEW m \in Sources, QueueIfRunning(m)
  PROVE  /\ SupKept
         /\ pending' \in Seq(Sources)
         /\ status' \in [Kinds -> Statuses]
<1>1. CASE Answer(m) = "QUEUED"
  BY <1>1, RecoverKeeps DEF QueueIfRunning, TypeOK
<1>2. CASE Answer(m) # "QUEUED"
  BY <1>2, RepairKeeps DEF QueueIfRunning
<1>3. QED
  BY <1>1, <1>2

LEMMA KeptTyped ==
  ASSUME TypeOK, SupKept
  PROVE  /\ sup' \in SupSteps \cup {"none", "dead"}
         /\ job' \in Job /\ unsure' \in Unsure /\ faults' \in 0..MaxFaults
  BY DEF TypeOK, SupKept, SupSteps

LEMMA NothingTyped == NoCall \in Call /\ NoJob \in Job /\ NoSlot \in Slot /\ Certain \in Unsure
  BY BoundsAssumption DEF NoCall, Call, NoJob, Job, NoSlot, Slot, Certain, Unsure

LEMMA LaunchTyped ==
  ASSUME TypeOK, NEW m \in Kinds, Launch(m)
  PROVE  /\ slot' \in Slot /\ slot' # NoSlot /\ slot'.gen \in Gens /\ slot'.kind = m
         /\ child' \in [Gens -> ChildStates]
         /\ \A g \in Gens : g # slot'.gen => child'[g] = child[g]
<1>1. PICK g \in Gens : /\ child' = [child EXCEPT ![g] = "running"]
                        /\ slot' = [kind |-> m, gen |-> g]
  BY DEF Launch
<1>2. g \in 0..MaxGens /\ g # 0
  BY BoundsAssumption DEF Gens
<1>3. slot'.gen = g /\ slot'.kind = m
  BY <1>1
<1>4. slot' \in Slot
  BY <1>1, <1>2, Zenon DEF Slot
<1>5. slot' # NoSlot
  <2>1. NoSlot.gen = 0
    BY DEF NoSlot
  <2>2. QED
    BY <1>2, <1>3, <2>1
<1>6. child \in [Gens -> ChildStates] /\ "running" \in ChildStates
  BY DEF TypeOK, ChildStates
<1>7. child' \in [Gens -> ChildStates] /\ \A h \in Gens : h # g => child'[h] = child[h]
  BY <1>1, <1>6
<1>8. QED
  BY <1>3, <1>4, <1>5, <1>7

Steps == {"idle", "admit", "recheck", "launch", "publish",
          "matchAdmit", "matchLaunch", "matchPublish"}

(* The answer changes, the kind asked for does not.                        *)
LEMMA TellKind ==
  ASSUME TypeOK, NEW c \in Callers, NEW step, NEW reply, Tell(c, step, reply)
  PROVE  \A d \in Callers : call'[d].kind = call[d].kind /\ (d # c => call'[d] = call[d])
<1>1. \A d \in Callers : d # c => call'[d] = call[d]
  BY DEF TypeOK, Tell
<1>2. call'[c].kind = call[c].kind
  BY DEF TypeOK, Tell, Call
<1>3. QED
  BY <1>1, <1>2

LEMMA TellTyped ==
  ASSUME TypeOK, NEW c \in Callers, NEW step \in Steps,
         NEW reply \in {"", "STARTED", "QUEUED", "HOLD"}, Tell(c, step, reply)
  PROVE  at' \in [Callers -> Steps] /\ call' \in [Callers -> Call]
  BY DEF TypeOK, Tell, Steps, Call

LEMMA ReturnTyped ==
  ASSUME TypeOK, NEW c \in Callers, Return(c)
  PROVE  at' \in [Callers -> Steps] /\ call' \in [Callers -> Call]
  BY NothingTyped DEF TypeOK, Return, Steps

(* A caller only asks for one of the sources, unless it asks for match.    *)
Asked ==
  /\ \A c \in Callers : at[c] \in {"admit", "recheck", "launch", "publish"}
                          => call[c].kind \in Sources
  /\ sup \in {"admit", "occupied", "launch", "hold"} => job.next \in Sources
  /\ sup \in {"watch", "signalled", "backoff", "record", "publish", "release"}
       => job.kind \in Kinds
  /\ slot # NoSlot => slot.kind \in Kinds /\ slot.gen \in Gens

Typed == TypeOK /\ Asked

LEMMA KeptAsked ==
  ASSUME Typed, SupKept, at' = at, call' = call, slot' = slot
  PROVE  Asked'
  BY DEF Typed, Asked, SupKept

LEMMA RequestTyped ==
  ASSUME Typed, NEW c \in Callers, NEW m \in Sources, NEW explicit \in BOOLEAN,
         Request(c, m, explicit)
  PROVE  Typed'
<1>1. slot' = slot /\ child' = child /\ launchLock' = launchLock
  BY DEF Request
<1>2. /\ SupKept /\ pending' \in Seq(Sources) /\ status' \in [Kinds -> Statuses]
  <2>1. CASE explicit /\ Busy
    BY <2>1 DEF Request, supVars, SupKept, Typed, TypeOK
  <2>2. CASE ~(explicit /\ Busy)
    BY <2>2, QueueKeeps DEF Request, Typed
  <2>3. QED
    BY <2>1, <2>2
<1>3. \/ at' = at /\ call' = call
      \/ \E step \in {"publish", "admit"}, reply \in {"HOLD", "QUEUED", ""}, flag \in BOOLEAN :
           /\ at' = [at EXCEPT ![c] = step]
           /\ call' = [call EXCEPT ![c] = [kind |-> m, explicit |-> flag, reply |-> reply]]
  BY DEF Request, callerVars
<1>4. /\ at' \in [Callers -> Steps] /\ call' \in [Callers -> Call]
      /\ \A d \in Callers : at'[d] \in {"admit", "recheck", "launch", "publish"}
                              => call'[d].kind \in Sources
  <2>1. CASE at' = at /\ call' = call
    BY <2>1 DEF Typed, TypeOK, Asked, Steps
  <2>2. ASSUME NEW step \in {"publish", "admit"}, NEW reply \in {"HOLD", "QUEUED", ""},
               NEW flag \in BOOLEAN, at' = [at EXCEPT ![c] = step],
               call' = [call EXCEPT ![c] = [kind |-> m, explicit |-> flag, reply |-> reply]]
        PROVE  <1>4
    <3>1. [kind |-> m, explicit |-> flag, reply |-> reply] \in Call
      BY Zenon DEF Call, Kinds
    <3>2. QED
      BY <2>2, <3>1 DEF Typed, TypeOK, Asked, Steps
  <2>3. QED
    BY <1>3, <2>1, <2>2
<1>5. TypeOK'
  BY <1>1, <1>2, <1>4, KeptTyped DEF Typed, TypeOK, Steps
<1>6. Asked'
  BY <1>1, <1>2, <1>4 DEF Typed, Asked, SupKept
<1>7. QED
  BY <1>5, <1>6 DEF Typed

(* An action of a caller that keeps its request.                           *)
LEMMA TellAsked ==
  ASSUME Typed, NEW c \in Callers, NEW step \in Steps,
         NEW reply \in {"", "STARTED", "QUEUED", "HOLD"}, Tell(c, step, reply),
         step \in {"admit", "recheck", "launch", "publish"} => call[c].kind \in Sources
  PROVE  \A d \in Callers : at'[d] \in {"admit", "recheck", "launch", "publish"}
                             => call'[d].kind \in Sources
  BY TellKind DEF Typed, TypeOK, Asked, Tell, Steps

LEMMA ReturnAsked ==
  ASSUME Typed, NEW c \in Callers, Return(c)
  PROVE  \A d \in Callers : at'[d] \in {"admit", "recheck", "launch", "publish"}
                             => call'[d].kind \in Sources
  BY DEF Typed, TypeOK, Asked, Return, Steps

LEMMA AdmitTyped ==
  ASSUME Typed, NEW c \in Callers, Admit(c)
  PROVE  Typed'
<1>1. /\ slot' = slot /\ child' = child /\ pending' = pending /\ status' = status
      /\ sup' = sup /\ job' = job /\ unsure' = unsure /\ faults' = faults
      /\ launchLock' \in Callers \cup {Free, SupLock}
  BY DEF Admit, supVars, Typed, TypeOK
<1>2. /\ at' \in [Callers -> Steps] /\ call' \in [Callers -> Call]
      /\ \A d \in Callers : at'[d] \in {"admit", "recheck", "launch", "publish"}
                              => call'[d].kind \in Sources
  BY TellTyped, TellAsked DEF Admit, Typed, Asked, Steps
<1>3. QED
  BY <1>1, <1>2 DEF Typed, TypeOK, Asked, Steps

LEMMA RecheckTyped ==
  ASSUME Typed, NEW c \in Callers, Recheck(c)
  PROVE  Typed'
<1>1. call[c].kind \in Sources
  BY DEF Recheck, Typed, Asked
<1>2. slot' = slot /\ child' = child /\ launchLock' \in Callers \cup {Free, SupLock}
  BY DEF Recheck, Typed, TypeOK
<1>3. SupKept /\ pending' \in Seq(Sources) /\ status' \in [Kinds -> Statuses]
  <2>1. CASE call[c].explicit /\ Busy
    BY <2>1 DEF Recheck, supVars, SupKept, Typed, TypeOK
  <2>2. CASE ~(call[c].explicit /\ Busy)
    BY <1>1, <2>2, QueueKeeps, RepairKeeps DEF Recheck, Typed
  <2>3. QED
    BY <2>1, <2>2
<1>4. /\ at' \in [Callers -> Steps] /\ call' \in [Callers -> Call]
      /\ \A d \in Callers : at'[d] \in {"admit", "recheck", "launch", "publish"}
                              => call'[d].kind \in Sources
  BY <1>1, TellTyped, TellAsked, ReturnTyped, ReturnAsked DEF Recheck, Typed, Steps
<1>5. TypeOK'
  BY <1>2, <1>3, <1>4, KeptTyped DEF Typed, TypeOK, Steps
<1>6. Asked'
  BY <1>2, <1>3, <1>4 DEF Typed, Asked, SupKept
<1>7. QED
  BY <1>5, <1>6 DEF Typed

LEMMA LaunchSourceTyped ==
  ASSUME Typed, NEW c \in Callers, LaunchSource(c)
  PROVE  Typed'
<1>1. call[c].kind \in Sources /\ call[c].kind \in Kinds
  BY DEF LaunchSource, Typed, Asked, Kinds
<1>2. pending' = pending /\ status' = status /\ launchLock' \in Callers \cup {Free, SupLock}
  BY DEF LaunchSource
<1>3. /\ at' \in [Callers -> Steps] /\ call' \in [Callers -> Call]
      /\ \A d \in Callers : at'[d] \in {"admit", "recheck", "launch", "publish"}
                              => call'[d].kind \in Sources
  BY <1>1, TellTyped, TellAsked, ReturnTyped, ReturnAsked DEF LaunchSource, Typed, Steps
<1>4. /\ slot' \in Slot /\ child' \in [Gens -> ChildStates]
      /\ slot' # NoSlot => slot'.kind \in Kinds /\ slot'.gen \in Gens
      /\ SupKept
  <2>1. CASE Launch(call[c].kind) /\ Recover(slot')
    BY <1>1, <2>1, LaunchTyped, RecoverKeeps DEF Typed
  <2>2. CASE UNCHANGED <<slot, child, supVars, faults>>
    BY <2>2 DEF Typed, TypeOK, Asked, supVars, SupKept
  <2>3. CASE Fault /\ UNCHANGED <<slot, child, supVars>>
    BY <2>3, FaultTyped DEF Typed, TypeOK, Asked, supVars, SupKept
  <2>4. QED
    BY <2>1, <2>2, <2>3 DEF LaunchSource
<1>5. TypeOK'
  BY <1>2, <1>3, <1>4, KeptTyped DEF Typed, TypeOK, Steps
<1>6. Asked'
  BY <1>2, <1>3, <1>4 DEF Typed, Asked, SupKept
<1>7. QED
  BY <1>5, <1>6 DEF Typed

LEMMA SetTyped ==
  ASSUME TypeOK, NEW m \in Kinds, NEW new \in Statuses, Set(m, new)
  PROVE  status' \in [Kinds -> Statuses]
  BY DEF TypeOK, Set

LEMMA PublishTyped ==
  ASSUME Typed, NEW c \in Callers, Publish(c)
  PROVE  Typed'
<1>1. call[c].kind \in Sources /\ call[c].kind \in Kinds
  BY DEF Publish, Typed, Asked, Kinds
<1>2. slot' = slot /\ child' = child /\ launchLock' = launchLock
  BY DEF Publish
<1>3. /\ at' \in [Callers -> Steps] /\ call' \in [Callers -> Call]
      /\ \A d \in Callers : at'[d] \in {"admit", "recheck", "launch", "publish"}
                              => call'[d].kind \in Sources
  BY ReturnTyped, ReturnAsked DEF Publish, Typed
<1>4. SupKept /\ pending' \in Seq(Sources) /\ status' \in [Kinds -> Statuses]
  <2>1. CASE call[c].reply = "STARTED" \/ call[c].reply = "QUEUED"
    BY <1>1, <2>1, SetTyped DEF Publish, supVars, SupKept, Typed, TypeOK, Statuses
  <2>2. CASE call[c].reply = "HOLD" /\ QueueIfRunning(call[c].kind)
    BY <1>1, <2>2, QueueKeeps DEF Typed
  <2>3. CASE Recover(slot) /\ pending' = Append(pending, call[c].kind)
             /\ Set(call[c].kind, "QUEUED")
    BY <1>1, <2>3, RecoverKeeps, SetTyped DEF Typed, TypeOK, Statuses
  <2>4. CASE IF Orphaned
             THEN pending' = <<>> /\ sup' = "none" /\ status' = Held(Queued \cup {call[c].kind})
                  /\ UNCHANGED <<job, unsure, faults>>
             ELSE Recover(slot) /\ Set(call[c].kind, "HELD") /\ UNCHANGED pending
    <3>1. CASE Orphaned
      BY <2>4, <3>1, HeldTyped DEF Orphaned, SupKept, Typed, TypeOK
    <3>2. CASE ~Orphaned
      BY <1>1, <2>4, <3>2, RecoverKeeps, SetTyped DEF Typed, TypeOK, Statuses
    <3>3. QED
      BY <3>1, <3>2
  <2>5. QED
    BY <2>1, <2>2, <2>3, <2>4 DEF Publish
<1>5. TypeOK'
  BY <1>2, <1>3, <1>4, KeptTyped DEF Typed, TypeOK, Steps
<1>6. Asked'
  BY <1>2, <1>3, <1>4 DEF Typed, Asked, SupKept
<1>7. QED
  BY <1>5, <1>6 DEF Typed

LEMMA MatchTyped ==
  ASSUME Typed, NEW c \in Callers,
         RequestMatch(c) \/ AdmitMatch(c) \/ LaunchMatch(c) \/ PublishMatch(c)
  PROVE  Typed'
<1>1. pending' = pending /\ launchLock' \in Callers \cup {Free, SupLock}
  BY DEF RequestMatch, AdmitMatch, LaunchMatch, PublishMatch, Typed, TypeOK
<1>2. Match \in Kinds
  BY DEF Kinds
<1>3. /\ at' \in [Callers -> Steps] /\ call' \in [Callers -> Call]
      /\ \A d \in Callers : at'[d] \in {"admit", "recheck", "launch", "publish"}
                              => call'[d].kind \in Sources
  <2>1. CASE RequestMatch(c)
    BY <1>2, <2>1 DEF RequestMatch, Typed, TypeOK, Asked, Steps, Call
  <2>2. CASE AdmitMatch(c) \/ LaunchMatch(c)
    BY <2>2, TellTyped, TellAsked DEF AdmitMatch, LaunchMatch, Typed, Steps
  <2>3. CASE PublishMatch(c)
    BY <2>3, ReturnTyped, ReturnAsked DEF PublishMatch, Typed
  <2>4. QED
    BY <2>1, <2>2, <2>3
<1>4. /\ slot' \in Slot /\ child' \in [Gens -> ChildStates]
      /\ slot' # NoSlot => slot'.kind \in Kinds /\ slot'.gen \in Gens
      /\ SupKept
  <2>1. CASE Launch(Match) /\ Recover(slot')
    BY <1>2, <2>1, LaunchTyped, RecoverKeeps DEF Typed
  <2>2. CASE UNCHANGED <<slot, child, supVars, faults>>
    BY <2>2 DEF Typed, TypeOK, Asked, supVars, SupKept
  <2>3. QED
    BY <2>1, <2>2 DEF RequestMatch, AdmitMatch, LaunchMatch, PublishMatch
<1>5. status' \in [Kinds -> Statuses]
  BY <1>2, SetTyped
  DEF RequestMatch, AdmitMatch, LaunchMatch, PublishMatch, Typed, TypeOK, Statuses
<1>6. TypeOK'
  BY <1>1, <1>3, <1>4, <1>5, KeptTyped DEF Typed, TypeOK, Steps
<1>7. Asked'
  BY <1>1, <1>3, <1>4 DEF Typed, Asked, SupKept
<1>8. QED
  BY <1>6, <1>7 DEF Typed

LEMMA PollTyped ==
  ASSUME Typed, StatusPoll
  PROVE  Typed'
<1>1. /\ slot' = slot /\ child' = child /\ launchLock' = launchLock
      /\ at' = at /\ call' = call
  BY DEF StatusPoll, callerVars
<1>2. SupKept /\ pending' \in Seq(Sources) /\ status' \in [Kinds -> Statuses]
  BY RepairKeeps DEF StatusPoll, Typed
<1>3. TypeOK'
  BY <1>1, <1>2, KeptTyped DEF Typed, TypeOK
<1>4. QED
  BY <1>1, <1>2, <1>3, KeptAsked DEF Typed

LEMMA ChildExitsTyped ==
  ASSUME Typed, NEW g \in Gens, ChildExits(g)
  PROVE  Typed'
<1>1. child' \in [Gens -> ChildStates]
  BY DEF ChildExits, Typed, TypeOK, ChildStates
<1>2. QED
  BY <1>1 DEF ChildExits, callerVars, supVars, Typed, TypeOK, Asked

(* The supervisor.                                                         *)

(* A step of the supervisor that only moves its own variables.             *)
Inner ==
  /\ slot' = slot /\ child' = child /\ pending' = pending /\ launchLock' = launchLock
  /\ status' = status /\ at' = at /\ call' = call

LEMMA InnerTyped ==
  ASSUME Typed, Inner, job' \in Job, unsure' \in Unsure, faults' \in 0..MaxFaults,
         sup' \in SupSteps \cup {"none", "dead"},
         sup' \in {"admit", "occupied", "launch", "hold"} => job'.next \in Sources,
         sup' \in {"watch", "signalled", "backoff", "record", "publish", "release"}
           => job'.kind \in Kinds
  PROVE  Typed'
  BY DEF Inner, Typed, TypeOK, Asked

LEMMA ReapedTyped ==
  ASSUME Typed, Inner, sup \in {"watch", "signalled"}, faults' \in 0..MaxFaults,
         NEW result \in {"ok", "quit", "held"}, Reaped(result)
  PROVE  Typed'
<1>1. job' \in Job /\ job'.kind = job.kind
  BY DEF Reaped, Typed, TypeOK, Job
<1>2. unsure' \in Unsure
  BY NothingTyped DEF Reaped
<1>3. sup' = "record"
  BY DEF Reaped, SupGo
<1>4. job.kind \in Kinds
  BY DEF Typed, Asked
<1>5. QED
  BY <1>1, <1>2, <1>3, <1>4, InnerTyped DEF SupSteps

LEMMA SupReapTyped ==
  ASSUME Typed, SupWait \/ SupWaitUncertain \/ SupReapSignalled
  PROVE  Typed'
<1>1. Inner /\ sup \in {"watch", "signalled"}
  BY DEF Inner, SupWait, SupWaitUncertain, SupReapSignalled, callerVars
<1>2. faults' \in 0..MaxFaults
  BY FaultTyped DEF SupWait, SupWaitUncertain, SupReapSignalled, Typed, TypeOK
<1>3. PICK result \in {"ok", "quit", "held"} : Reaped(result)
  BY DEF SupWait, SupWaitUncertain, SupReapSignalled, Exited, UncertainResult
<1>4. QED
  BY <1>1, <1>2, <1>3, ReapedTyped

LEMMA SupReadTyped ==
  ASSUME Typed, SupRead
  PROVE  Typed'
<1>1. Inner /\ faults' = faults
  BY DEF Inner, SupRead, callerVars
<1>2. CASE slot = NoSlot
  BY <1>1, <1>2, InnerTyped DEF SupRead, SupGo, SupSteps, Typed, TypeOK, Asked
<1>3. CASE slot # NoSlot
  <2>1. slot.kind \in Kinds /\ slot.gen \in 0..MaxGens
    BY <1>3 DEF Typed, TypeOK, Asked, Slot
  <2>2. job' = [NoJob EXCEPT !.gen = slot.gen, !.kind = slot.kind] /\ sup' = "watch"
    BY <1>3 DEF SupRead, SupGo
  <2>3. job' \in Job /\ job'.kind = slot.kind
    BY <2>1, <2>2, NothingTyped DEF Job, NoJob
  <2>4. unsure' \in Unsure
    BY <1>3, NothingTyped DEF SupRead, Typed, TypeOK
  <2>5. QED
    BY <1>1, <2>1, <2>2, <2>3, <2>4, InnerTyped DEF SupSteps, Typed, TypeOK
<1>4. QED
  BY <1>2, <1>3

LEMMA SupSignalTyped ==
  ASSUME Typed, SupSignal
  PROVE  Typed'
<1>1. Inner /\ sup = "watch" /\ sup' = "signalled"
  BY DEF Inner, SupSignal, SupGo, callerVars
<1>2. faults' \in 0..MaxFaults
  BY FaultTyped DEF SupSignal, Typed, TypeOK
<1>3. PICK lost \in BOOLEAN : job' = [job EXCEPT !.waitLost = lost]
  BY DEF SupSignal
<1>4. job \in Job /\ job.kind \in Kinds
  BY <1>1 DEF Typed, TypeOK, Asked
<1>5. job' \in Job /\ job'.kind = job.kind
  BY <1>3, <1>4, Zenon DEF Job
<1>6. unsure' \in Unsure
  <2> DEFINE early == IF unsure.cooling /\ unsure.early < 2 THEN unsure.early + 1
                      ELSE unsure.early
             u == [unsure EXCEPT !.early = early]
  <2>1. unsure \in Unsure
    BY DEF Typed, TypeOK
  <2>2. early \in 0..2
    BY <2>1 DEF Unsure
  <2>3. u \in Unsure
    BY <2>1, <2>2, Zenon DEF Unsure
  <2>4. u.urgent \in {"no", "pending", "used"}
    BY <2>3 DEF Unsure
  <2>5. (IF u.urgent = "pending" THEN "used" ELSE u.urgent) \in {"no", "pending", "used"}
    BY <2>4
  <2>6. AfterSignal(u) \in Unsure
    BY <2>3, <2>5, Zenon DEF Unsure, AfterSignal
  <2>7. unsure' = unsure \/ unsure' = AfterSignal(u)
    BY DEF SupSignal
  <2>8. QED
    BY <2>1, <2>6, <2>7
<1>7. QED
  BY <1>1, <1>2, <1>4, <1>5, <1>6, InnerTyped DEF SupSteps

LEMMA SupUnconfirmedTyped ==
  ASSUME Typed, SupUnconfirmed
  PROVE  Typed'
<1>1. Inner /\ job' = job /\ sup \in {"watch", "signalled"} /\ sup' = "backoff"
  BY DEF Inner, SupUnconfirmed, SupGo, callerVars
<1>2. faults' \in 0..MaxFaults
  BY FaultTyped DEF SupUnconfirmed, Typed, TypeOK
<1>3. unsure' \in Unsure
  <2>1. job.gen \in 0..MaxGens
    BY DEF Typed, TypeOK, Job
  <2>2. [Certain EXCEPT !.gen = job.gen, !.cooling = TRUE] \in Unsure
    BY <2>1, NothingTyped, Zenon DEF Unsure
  <2>3. QED
    BY <2>2 DEF SupUnconfirmed, Typed, TypeOK
<1>4. QED
  BY <1>1, <1>2, <1>3, InnerTyped DEF SupSteps, Typed, TypeOK, Asked

LEMMA SupBackoffTyped ==
  ASSUME Typed, SupBackoff
  PROVE  Typed'
<1>1. Inner /\ job' = job /\ sup' = "read" /\ faults' = faults
  BY DEF Inner, SupBackoff, SupGo, callerVars
<1>2. unsure' \in Unsure
  <2>1. PICK urgent \in {"no", "pending", "used"}, cooling \in BOOLEAN :
             unsure' = [unsure EXCEPT !.urgent = urgent, !.cooling = cooling]
    BY DEF SupBackoff, Typed, TypeOK, Unsure
  <2>2. QED
    BY <2>1, Zenon DEF Typed, TypeOK, Unsure
<1>3. QED
  BY <1>1, <1>2, InnerTyped DEF SupSteps, Typed, TypeOK

LEMMA SupRecordTyped ==
  ASSUME Typed, SupRecord
  PROVE  Typed'
<1>1. Inner /\ sup = "record" /\ unsure' = unsure
  BY DEF Inner, SupRecord, callerVars
<1>2. faults' \in 0..MaxFaults
  BY FaultTyped DEF SupRecord, Typed, TypeOK
<1>3. \/ sup' = "publish" /\ job' = job
      \/ sup' = "dead" /\ job' = NoJob
  BY DEF SupRecord, SupGo, SupDies
<1>4. QED
  BY <1>1, <1>2, <1>3, NothingTyped, InnerTyped DEF SupSteps, Typed, TypeOK, Asked

LEMMA SupIdleTyped ==
  ASSUME Typed, SupIdle
  PROVE  Typed'
<1>1. Inner /\ job' = job /\ unsure' = unsure /\ faults' = faults /\ sup' \in {"read", "none"}
  BY DEF Inner, SupIdle, SupGo, callerVars
<1>2. QED
  BY <1>1, InnerTyped DEF SupSteps, Typed, TypeOK

LEMMA SupPublishTyped ==
  ASSUME Typed, SupPublish
  PROVE  Typed'
<1>1. /\ slot' = slot /\ child' = child /\ pending' = pending /\ launchLock' = launchLock
      /\ at' = at /\ call' = call /\ job' = job /\ unsure' = unsure
      /\ sup = "publish" /\ sup' = "release" /\ job.kind \in Kinds
  BY DEF SupPublish, SupGo, callerVars, Typed, Asked
<1>2. faults' \in 0..MaxFaults
  BY FaultTyped DEF SupPublish, Typed, TypeOK
<1>3. status' \in [Kinds -> Statuses]
  BY <1>1, SetTyped DEF SupPublish, ExitStatus, Statuses, Typed
<1>4. QED
  BY <1>1, <1>2, <1>3 DEF Typed, TypeOK, Asked, SupSteps

LEMMA SupReleaseTyped ==
  ASSUME Typed, SupRelease
  PROVE  Typed'
<1>1. /\ launchLock' = launchLock /\ status' = status /\ at' = at /\ call' = call
      /\ unsure' = unsure /\ faults' = faults
  BY DEF SupRelease, callerVars
<1>2. /\ slot' \in Slot /\ child' \in [Gens -> ChildStates]
      /\ slot' # NoSlot => slot'.kind \in Kinds /\ slot'.gen \in Gens
  BY NothingTyped DEF SupRelease, Typed, TypeOK, Asked, ChildStates
<1>3. CASE pending = <<>>
  BY <1>1, <1>2, <1>3, NothingTyped DEF SupRelease, SupGo, Typed, TypeOK, Asked, SupSteps
<1>4. CASE pending # <<>>
  <2>1. Head(pending) \in Sources /\ Tail(pending) \in Seq(Sources)
    BY <1>4 DEF Typed, TypeOK
  <2>2. /\ sup' = "admit" /\ job' = [NoJob EXCEPT !.next = Head(pending)]
        /\ pending' = Tail(pending)
    BY <1>4 DEF SupRelease, SupGo
  <2>3. job' \in Job /\ job'.next = Head(pending)
    BY <2>1, <2>2, NothingTyped, Zenon DEF Job
  <2>4. QED
    BY <1>1, <1>2, <2>1, <2>2, <2>3 DEF Typed, TypeOK, Asked, SupSteps
<1>5. QED
  BY <1>3, <1>4

LEMMA SupAdmitTyped ==
  ASSUME Typed, SupAdmit
  PROVE  Typed'
<1>1. /\ slot' = slot /\ child' = child /\ pending' = pending /\ status' = status
      /\ at' = at /\ call' = call /\ unsure' = unsure /\ faults' = faults
      /\ launchLock' = SupLock /\ sup = "admit" /\ sup' = "occupied"
  BY DEF SupAdmit, SupGo, callerVars
<1>2. PICK ok \in BOOLEAN : job' = [job EXCEPT !.admitted = ok]
  BY DEF SupAdmit
<1>3. job' \in Job /\ job'.next = job.next
  BY <1>2, Zenon DEF Typed, TypeOK, Job
<1>4. QED
  BY <1>1, <1>3 DEF Typed, TypeOK, Asked, SupSteps

LEMMA YieldTyped ==
  ASSUME Typed, Yield, job.next \in Sources, launchLock' \in Callers \cup {Free, SupLock}
  PROVE  Typed'
<1>1. /\ slot' = slot /\ child' = child /\ status' = status /\ at' = at /\ call' = call
      /\ unsure' = unsure /\ faults' = faults /\ sup' = "read" /\ job' = NoJob
  BY DEF Yield, SupGo, callerVars
<1>2. pending' \in Seq(Sources)
  BY DEF Yield, PutBack, Typed, TypeOK
<1>3. QED
  BY <1>1, <1>2, NothingTyped DEF Typed, TypeOK, Asked, SupSteps

LEMMA SupOccupiedTyped ==
  ASSUME Typed, SupOccupied
  PROVE  Typed'
<1>1. sup = "occupied" /\ job.next \in Sources
  BY DEF SupOccupied, Typed, Asked
<1>2. CASE Yield /\ launchLock' = Free
  BY <1>1, <1>2, YieldTyped
<1>3. CASE /\ slot' = slot /\ child' = child /\ pending' = pending /\ status' = status
           /\ at' = at /\ call' = call /\ unsure' = unsure /\ faults' = faults
           /\ job' = job /\ sup' \in {"launch", "hold"} /\ launchLock' \in {launchLock, Free}
  BY <1>1, <1>3 DEF Typed, TypeOK, Asked, SupSteps
<1>4. QED
  BY <1>2, <1>3 DEF SupOccupied, SupGo, callerVars

LEMMA SupLaunchTyped ==
  ASSUME Typed, SupLaunch
  PROVE  Typed'
<1>1. /\ sup = "launch" /\ job.next \in Sources /\ job.next \in Kinds
      /\ launchLock' = Free /\ pending' = pending /\ unsure' = unsure
      /\ at' = at /\ call' = call
  BY DEF SupLaunch, callerVars, Typed, Asked, Kinds
<1>2. CASE /\ Launch(job.next) /\ Set(job.next, "RUNNING")
           /\ sup' = "read" /\ job' = NoJob /\ faults' = faults
  <2>1. status' \in [Kinds -> Statuses]
    BY <1>1, <1>2, SetTyped DEF Typed, Statuses
  <2>2. /\ slot' \in Slot /\ child' \in [Gens -> ChildStates]
        /\ slot'.kind \in Kinds /\ slot'.gen \in Gens
    BY <1>1, <1>2, LaunchTyped DEF Typed
  <2>3. QED
    BY <1>1, <1>2, <2>1, <2>2, NothingTyped DEF Typed, TypeOK, Asked, SupSteps
<1>3. CASE sup' = "hold" /\ UNCHANGED <<slot, child, status, job, faults>>
  BY <1>1, <1>3 DEF Typed, TypeOK, Asked, SupSteps
<1>4. CASE Fault /\ SupDies /\ UNCHANGED <<slot, child, status>>
  BY <1>1, <1>4, FaultTyped, NothingTyped DEF SupDies, Typed, TypeOK, Asked, SupSteps
<1>5. QED
  BY <1>2, <1>3, <1>4 DEF SupLaunch, SupGo

LEMMA SupHoldTyped ==
  ASSUME Typed, SupHold
  PROVE  Typed'
<1>1. sup = "hold" /\ job.next \in Sources /\ launchLock' = launchLock
  BY DEF SupHold, Typed, Asked
<1>2. CASE Yield
  BY <1>1, <1>2, YieldTyped DEF Typed, TypeOK
<1>3. CASE /\ status' = Held(Queued \cup {job.next}) /\ pending' = <<>>
           /\ sup' = "none" /\ job' = NoJob
           /\ UNCHANGED <<slot, child, unsure, callerVars, faults>>
  BY <1>1, <1>3, HeldTyped, NothingTyped DEF callerVars, Typed, TypeOK, Asked, SupSteps
<1>4. QED
  BY <1>2, <1>3 DEF SupHold, SupGo

LEMMA InitTyped == Init => Typed
  BY NothingTyped, BoundsAssumption
  DEF Init, Typed, TypeOK, Asked, ChildStates, Statuses, Certain, SupSteps

LEMMA NextTyped == Typed /\ [Next]_vars => Typed'
<1> SUFFICES ASSUME Typed, [Next]_vars PROVE Typed'
  OBVIOUS
<1>1. ASSUME NEW c \in Callers, NEW m \in Sources, NEW explicit \in BOOLEAN,
             Request(c, m, explicit)
      PROVE  Typed'
  BY <1>1, RequestTyped
<1>2. ASSUME NEW c \in Callers, RequestMatch(c) \/ Proceed(c) PROVE Typed'
  BY <1>2, AdmitTyped, RecheckTyped, LaunchSourceTyped, PublishTyped, MatchTyped DEF Proceed
<1>3. CASE StatusPoll
  BY <1>3, PollTyped
<1>4. CASE Supervise
  BY <1>4, SupReapTyped, SupReadTyped, SupSignalTyped, SupUnconfirmedTyped, SupBackoffTyped,
     SupRecordTyped, SupIdleTyped, SupPublishTyped, SupReleaseTyped, SupAdmitTyped,
     SupOccupiedTyped, SupLaunchTyped, SupHoldTyped DEF Supervise
<1>5. ASSUME NEW g \in Gens, ChildExits(g) PROVE Typed'
  BY <1>5, ChildExitsTyped
<1>6. CASE UNCHANGED vars
  BY <1>6 DEF vars, Typed, TypeOK, Asked
<1>7. QED
  BY <1>1, <1>2, <1>3, <1>4, <1>5, <1>6 DEF Next

(* Every variable keeps its type, and whoever is on its way to a launch    *)
(* carries the kind it will launch.                                        *)
THEOREM TypeCorrect == Spec => []TypeOK
<1>1. Spec => []Typed
  BY InitTyped, NextTyped, PTL DEF Spec
<1>2. Typed => TypeOK
  BY DEF Typed
<1>3. QED
  BY <1>1, <1>2, PTL

-----------------------------------------------------------------------------
(* One slot, one child.                                                    *)

Supervised == {"watch", "signalled", "backoff", "record", "publish", "release"}

(* Whoever goes on to a launch holds the launch lock.                      *)
LockHeld ==
  /\ \A c \in Callers : at[c] \in {"recheck", "launch", "matchLaunch"} => launchLock = c
  /\ sup \in {"occupied", "launch"} => launchLock = SupLock

(* The slot, once seen empty by the holder of the lock, stays empty until  *)
(* its launch.                                                             *)
LaunchFree ==
  /\ \A c \in Callers : at[c] = "launch" => slot = NoSlot
  /\ sup = "launch" => slot = NoSlot

(* The supervisor watches the child in the slot, and reports only an exit. *)
Watched ==
  /\ sup \in Supervised => slot # NoSlot /\ job.gen = slot.gen
  /\ sup \in {"record", "publish", "release"} => Exited(slot.gen)

SlotInv == LockHeld /\ LaunchFree /\ Watched /\ OneChild

LEMMA KeptWatched ==
  ASSUME SlotInv, SupKept, slot' = slot, child' = child
  PROVE  /\ Watched' /\ OneChild'
         /\ sup' \in {"occupied", "launch"} => sup' = sup
  BY DEF SlotInv, SupKept, Watched, OneChild, Supervised, SupAlive, SupSteps, Exited

LEMMA RequestSlot ==
  ASSUME Typed, SlotInv, NEW c \in Callers, NEW m \in Sources, NEW explicit \in BOOLEAN,
         Request(c, m, explicit)
  PROVE  SlotInv'
<1>1. slot' = slot /\ child' = child /\ launchLock' = launchLock
  BY DEF Request
<1>2. SupKept
  BY QueueKeeps DEF Request, supVars, SupKept, Typed, TypeOK
<1>3. at' = at \/ at' = [at EXCEPT ![c] = "publish"] \/ at' = [at EXCEPT ![c] = "admit"]
  BY DEF Request, callerVars
<1>4. \A d \in Callers : at'[d] \in {"recheck", "launch", "matchLaunch"} => at'[d] = at[d]
  BY <1>3 DEF Typed, TypeOK
<1>5. QED
  BY <1>1, <1>2, <1>4, KeptWatched DEF SlotInv, LockHeld, LaunchFree

LEMMA LockNames == Free \notin Callers /\ SupLock \notin Callers /\ Free # SupLock
  BY CallersAssumption DEF Free, SupLock

LEMMA AdmitSlot ==
  ASSUME Typed, SlotInv, NEW c \in Callers, Admit(c) \/ AdmitMatch(c)
  PROVE  SlotInv'
<1>1. slot' = slot /\ child' = child /\ sup' = sup /\ job' = job
  BY DEF Admit, AdmitMatch, supVars
<1>2. launchLock = Free
  BY DEF Admit, AdmitMatch
<1>3. \A d \in Callers : at[d] \notin {"recheck", "launch", "matchLaunch"}
  BY <1>2, LockNames DEF SlotInv, LockHeld
<1>4. \/ launchLock' = c /\ at' = [at EXCEPT ![c] = "recheck"]
      \/ launchLock' = c /\ at' = [at EXCEPT ![c] = "matchLaunch"]
      \/ launchLock' = launchLock /\ at' = [at EXCEPT ![c] = "publish"]
      \/ launchLock' = launchLock /\ at' = [at EXCEPT ![c] = "matchPublish"]
  BY DEF Admit, AdmitMatch, Tell
<1>5. LockHeld' /\ LaunchFree'
  BY <1>1, <1>2, <1>3, <1>4, LockNames DEF SlotInv, LockHeld, LaunchFree, Typed, TypeOK
<1>6. QED
  BY <1>1, <1>5 DEF SlotInv, Watched, OneChild, Exited

(* A caller that holds the lock is alone.                                  *)
LEMMA HolderAlone ==
  ASSUME SlotInv, NEW c \in Callers, at[c] \in {"recheck", "launch", "matchLaunch"}
  PROVE  /\ \A d \in Callers \ {c} : at[d] \notin {"recheck", "launch", "matchLaunch"}
         /\ sup \notin {"occupied", "launch"}
  BY LockNames DEF SlotInv, LockHeld

LEMMA RecheckSlot ==
  ASSUME Typed, SlotInv, NEW c \in Callers, Recheck(c)
  PROVE  SlotInv'
<1>1. slot' = slot /\ child' = child /\ at[c] = "recheck"
  BY DEF Recheck
<1>2. call[c].kind \in Sources
  BY <1>1 DEF Typed, Asked
<1>3. SupKept
  BY <1>2, QueueKeeps, RepairKeeps DEF Recheck, supVars, SupKept, Typed, TypeOK
<1>4. \/ at' = [at EXCEPT ![c] = "idle"] \/ at' = [at EXCEPT ![c] = "publish"]
      \/ at' = [at EXCEPT ![c] = "launch"] /\ launchLock' = launchLock /\ slot = NoSlot
  BY DEF Recheck, Tell, Return, RecheckAnswer, Answer
<1>5. LockHeld' /\ LaunchFree'
  BY <1>1, <1>3, <1>4, HolderAlone, KeptWatched
  DEF SlotInv, LockHeld, LaunchFree, Typed, TypeOK
<1>6. QED
  BY <1>1, <1>3, <1>5, KeptWatched DEF SlotInv

(* A launch into the empty slot by the holder of the lock.                 *)
LEMMA LaunchSlot ==
  ASSUME Typed, SlotInv, NEW m \in Kinds, Launch(m), slot = NoSlot
  PROVE  OneChild' /\ sup \notin Supervised
<1>1. \A g \in Gens : child[g] # "running"
  <2>1. slot.gen = 0
    BY DEF NoSlot
  <2>2. QED
    BY <2>1, BoundsAssumption DEF SlotInv, OneChild, Gens
<1>2. QED
  BY <1>1, LaunchTyped DEF Typed, OneChild, SlotInv, Watched

LEMMA LaunchSourceSlot ==
  ASSUME Typed, SlotInv, NEW c \in Callers, LaunchSource(c) \/ LaunchMatch(c)
  PROVE  SlotInv'
<1>1. at[c] \in {"launch", "matchLaunch"} /\ launchLock' = Free
  BY DEF LaunchSource, LaunchMatch
<1>2. /\ \A d \in Callers : at'[d] \notin {"recheck", "launch", "matchLaunch"}
  BY <1>1, HolderAlone DEF LaunchSource, LaunchMatch, Tell, Return, Typed, TypeOK
<1>3. CASE UNCHANGED <<slot, child, supVars>>
  BY <1>1, <1>2, <1>3, HolderAlone
  DEF SlotInv, LockHeld, LaunchFree, Watched, OneChild, supVars, Exited
<1>4. ASSUME NEW m \in Kinds, Launch(m), Recover(slot'), slot = NoSlot
      PROVE  SlotInv'
  <2>1. OneChild' /\ sup \notin Supervised
    BY <1>4, LaunchSlot
  <2>2. SupKept
    BY <1>4, RecoverKeeps DEF Typed
  <2>3. sup' \notin Supervised /\ sup' \notin {"occupied", "launch"}
    BY <1>1, <2>1, <2>2, HolderAlone DEF SupKept, Supervised
  <2>4. QED
    BY <1>2, <2>1, <2>3 DEF SlotInv, LockHeld, LaunchFree, Watched, Supervised
<1>5. LaunchSource(c) => slot = NoSlot /\ call[c].kind \in Kinds
  BY DEF LaunchSource, SlotInv, LaunchFree, Typed, Asked, Kinds
<1>6. LaunchMatch(c) /\ ~SlotTaken => slot = NoSlot
  BY DEF SlotTaken
<1>7. QED
  BY <1>3, <1>4, <1>5, <1>6 DEF LaunchSource, LaunchMatch, Kinds

LEMMA PublishSlot ==
  ASSUME Typed, SlotInv, NEW c \in Callers,
         Publish(c) \/ RequestMatch(c) \/ PublishMatch(c)
  PROVE  SlotInv'
<1>1. slot' = slot /\ child' = child /\ launchLock' = launchLock
  BY DEF Publish, RequestMatch, PublishMatch
<1>2. SupKept
  <2>1. CASE Publish(c)
    <3>1. call[c].kind \in Sources
      BY <2>1 DEF Publish, Typed, Asked
    <3>2. CASE Orphaned /\ sup' = "none" /\ UNCHANGED <<job, unsure, faults>>
      BY <3>2 DEF Orphaned, SupKept, Typed, TypeOK
    <3>3. QED
      BY <2>1, <3>1, <3>2, QueueKeeps, RecoverKeeps DEF Publish, supVars, SupKept, Typed, TypeOK
  <2>2. CASE RequestMatch(c) \/ PublishMatch(c)
    BY <2>2 DEF RequestMatch, PublishMatch, supVars, SupKept, Typed, TypeOK
  <2>3. QED
    BY <2>1, <2>2
<1>3. at' = [at EXCEPT ![c] = "idle"] \/ at' = [at EXCEPT ![c] = "matchAdmit"]
  BY DEF Publish, RequestMatch, PublishMatch, Return
<1>4. \A d \in Callers : at'[d] \in {"recheck", "launch", "matchLaunch"} => at'[d] = at[d]
  BY <1>3 DEF Typed, TypeOK
<1>5. QED
  BY <1>1, <1>2, <1>4, KeptWatched DEF SlotInv, LockHeld, LaunchFree

LEMMA PollSlot ==
  ASSUME Typed, SlotInv, StatusPoll
  PROVE  SlotInv'
<1>1. slot' = slot /\ child' = child /\ launchLock' = launchLock /\ at' = at
  BY DEF StatusPoll, callerVars
<1>2. SupKept
  BY RepairKeeps DEF StatusPoll, Typed
<1>3. QED
  BY <1>1, <1>2, KeptWatched DEF SlotInv, LockHeld, LaunchFree

LEMMA ChildExitsSlot ==
  ASSUME Typed, SlotInv, NEW g \in Gens, ChildExits(g)
  PROVE  SlotInv'
<1>1. /\ slot' = slot /\ launchLock' = launchLock /\ at' = at /\ sup' = sup /\ job' = job
      /\ child[g] = "running"
  BY DEF ChildExits, callerVars, supVars
<1>2. \A h \in Gens : h # g => child'[h] = child[h]
  BY DEF ChildExits, Typed, TypeOK
<1>3. child'[g] \in {"ok", "quit"}
  BY DEF ChildExits, Typed, TypeOK
<1>4. OneChild'
  BY <1>1, <1>2, <1>3 DEF SlotInv, OneChild
<1>5. Watched'
  <2>1. CASE sup \in Supervised
    BY <1>1, <1>2, <1>3, <2>1 DEF SlotInv, Watched, Exited, Typed, Asked
  <2>2. CASE sup \notin Supervised
    BY <1>1, <2>2 DEF Watched, Supervised
  <2>3. QED
    BY <2>1, <2>2
<1>6. QED
  BY <1>1, <1>4, <1>5 DEF SlotInv, LockHeld, LaunchFree

(* Steps of the supervisor that touch neither slot nor child nor lock.     *)
LEMMA InnerSlot ==
  ASSUME Typed, SlotInv, Inner, sup' \notin {"occupied", "launch"}, Watched'
  PROVE  SlotInv'
  BY DEF SlotInv, LockHeld, LaunchFree, Inner, OneChild

LEMMA SupReapSlot ==
  ASSUME Typed, SlotInv, SupWait \/ SupWaitUncertain \/ SupReapSignalled
  PROVE  SlotInv'
<1>1. Inner /\ sup \in {"watch", "signalled"} /\ Exited(job.gen)
  BY DEF Inner, SupWait, SupWaitUncertain, SupReapSignalled, callerVars
<1>2. PICK result \in {"ok", "quit", "held"} : Reaped(result)
  BY DEF SupWait, SupWaitUncertain, SupReapSignalled, Exited, UncertainResult
<1>3. sup' = "record" /\ job'.gen = job.gen
  BY <1>2 DEF Reaped, SupGo, Typed, TypeOK, Job
<1>4. slot # NoSlot /\ job.gen = slot.gen
  BY <1>1 DEF SlotInv, Watched, Supervised
<1>5. Watched'
  BY <1>1, <1>3, <1>4 DEF Inner, Watched, Exited
<1>6. QED
  BY <1>1, <1>3, <1>5, InnerSlot

LEMMA SupWatchSlot ==
  ASSUME Typed, SlotInv, SupRead \/ SupSignal \/ SupUnconfirmed \/ SupBackoff \/ SupIdle
  PROVE  SlotInv'
<1>1. Inner
  BY DEF Inner, SupRead, SupSignal, SupUnconfirmed, SupBackoff, SupIdle, callerVars
<1>2. CASE SupRead
  <2>1. CASE slot = NoSlot
    BY <1>1, <1>2, <2>1, InnerSlot DEF SupRead, SupGo, Watched, Supervised
  <2>2. CASE slot # NoSlot
    <3>1. sup' = "watch" /\ job'.gen = slot.gen
      BY <1>2, <2>2 DEF SupRead, SupGo, NoJob
    <3>2. QED
      BY <1>1, <2>2, <3>1, InnerSlot DEF Inner, Watched
  <2>3. QED
    BY <2>1, <2>2
<1>3. CASE SupSignal \/ SupUnconfirmed
  <2>1. sup \in {"watch", "signalled"} /\ sup' \in {"signalled", "backoff"} /\ job'.gen = job.gen
    BY <1>3 DEF SupSignal, SupUnconfirmed, SupGo, Typed, TypeOK, Job
  <2>2. Watched'
    BY <1>1, <2>1 DEF SlotInv, Watched, Supervised, Inner
  <2>3. QED
    BY <1>1, <2>1, <2>2, InnerSlot
<1>4. CASE SupBackoff \/ SupIdle
  <2>1. sup' \in {"read", "none"}
    BY <1>4 DEF SupBackoff, SupIdle, SupGo
  <2>2. Watched'
    BY <2>1 DEF Watched, Supervised
  <2>3. QED
    BY <1>1, <2>1, <2>2, InnerSlot
<1>5. QED
  BY <1>2, <1>3, <1>4

LEMMA SupReportSlot ==
  ASSUME Typed, SlotInv, SupRecord \/ SupPublish
  PROVE  SlotInv'
<1>1. /\ slot' = slot /\ child' = child /\ launchLock' = launchLock /\ at' = at
      /\ sup \in {"record", "publish"}
  BY DEF SupRecord, SupPublish, callerVars
<1>2. \/ sup' \in {"publish", "release"} /\ job' = job
      \/ sup' = "dead"
  BY DEF SupRecord, SupPublish, SupGo, SupDies
<1>3. Watched'
  BY <1>1, <1>2 DEF SlotInv, Watched, Supervised, Exited
<1>4. QED
  BY <1>1, <1>2, <1>3 DEF SlotInv, LockHeld, LaunchFree, OneChild

LEMMA SupReleaseSlot ==
  ASSUME Typed, SlotInv, SupRelease
  PROVE  SlotInv'
<1>1. launchLock' = launchLock /\ at' = at /\ sup = "release" /\ sup' \in {"idle", "admit"}
  BY DEF SupRelease, SupGo, callerVars
<1>2. slot # NoSlot /\ job.gen = slot.gen /\ Exited(slot.gen) /\ slot.gen \in Gens
  BY <1>1 DEF SlotInv, Watched, Supervised, Typed, Asked
<1>3. slot' = NoSlot /\ child' = [child EXCEPT ![slot.gen] = "dropped"]
  BY <1>2 DEF SupRelease
<1>4. OneChild'
  <2>1. ASSUME NEW g \in Gens PROVE child'[g] # "running"
    BY <1>2, <1>3 DEF SlotInv, OneChild, Typed, TypeOK
  <2>2. QED
    BY <2>1 DEF OneChild
<1>5. QED
  BY <1>1, <1>3, <1>4 DEF SlotInv, LockHeld, LaunchFree, Watched, Supervised

LEMMA SupPromoteSlot ==
  ASSUME Typed, SlotInv, SupAdmit \/ SupOccupied \/ SupHold
  PROVE  SlotInv'
<1>1. /\ slot' = slot /\ child' = child /\ at' = at
      /\ sup \in {"admit", "occupied", "hold"}
      /\ sup' \in {"occupied", "launch", "hold", "read", "none"}
  BY DEF SupAdmit, SupOccupied, SupHold, Yield, SupGo, callerVars
<1>2. Watched' /\ OneChild'
  BY <1>1 DEF Watched, OneChild, SlotInv, Supervised
<1>3. CASE SupAdmit
  BY <1>1, <1>2, <1>3, LockNames DEF SupAdmit, SupGo, SlotInv, LockHeld, LaunchFree
<1>4. CASE SupOccupied
  BY <1>1, <1>2, <1>4, LockNames DEF SupOccupied, Yield, SupGo, SlotInv, LockHeld, LaunchFree
<1>5. CASE SupHold
  BY <1>1, <1>2, <1>5 DEF SupHold, Yield, SupGo, SlotInv, LockHeld, LaunchFree
<1>6. QED
  BY <1>3, <1>4, <1>5

LEMMA SupLaunchSlot ==
  ASSUME Typed, SlotInv, SupLaunch
  PROVE  SlotInv'
<1>1. /\ at' = at /\ sup = "launch" /\ launchLock' = Free /\ launchLock = SupLock
      /\ slot = NoSlot /\ job.next \in Kinds
  BY DEF SupLaunch, callerVars, SlotInv, LockHeld, LaunchFree, Typed, Asked, Kinds
<1>2. \A c \in Callers : at'[c] \notin {"recheck", "launch", "matchLaunch"}
  BY <1>1, LockNames DEF SlotInv, LockHeld
<1>3. sup' \in {"read", "hold", "dead"}
  BY DEF SupLaunch, SupGo, SupDies
<1>4. OneChild'
  BY <1>1, LaunchSlot DEF SupLaunch, SlotInv, OneChild
<1>5. QED
  BY <1>2, <1>3, <1>4 DEF SlotInv, LockHeld, LaunchFree, Watched, Supervised

LEMMA NextSlot == Typed /\ SlotInv /\ [Next]_vars => SlotInv'
<1> SUFFICES ASSUME Typed, SlotInv, [Next]_vars PROVE SlotInv'
  OBVIOUS
<1>1. ASSUME NEW c \in Callers, NEW m \in Sources, NEW explicit \in BOOLEAN,
             Request(c, m, explicit)
      PROVE  SlotInv'
  BY <1>1, RequestSlot
<1>2. ASSUME NEW c \in Callers, RequestMatch(c) \/ Proceed(c) PROVE SlotInv'
  BY <1>2, AdmitSlot, RecheckSlot, LaunchSourceSlot, PublishSlot DEF Proceed
<1>3. CASE StatusPoll
  BY <1>3, PollSlot
<1>4. CASE Supervise
  BY <1>4, SupReapSlot, SupWatchSlot, SupReportSlot, SupReleaseSlot, SupPromoteSlot,
     SupLaunchSlot DEF Supervise
<1>5. ASSUME NEW g \in Gens, ChildExits(g) PROVE SlotInv'
  BY <1>5, ChildExitsSlot
<1>6. CASE UNCHANGED vars
  BY <1>6 DEF vars, SlotInv, LockHeld, LaunchFree, Watched, OneChild, Exited
<1>7. QED
  BY <1>1, <1>2, <1>3, <1>4, <1>5, <1>6 DEF Next

LEMMA SlotInvariant == Spec => [](Typed /\ SlotInv)
<1>1. Init => SlotInv
  BY DEF Init, SlotInv, LockHeld, LaunchFree, Watched, OneChild, Supervised
<1>2. Spec => []Typed
  BY InitTyped, NextTyped, PTL DEF Spec
<1>3. QED
  BY <1>1, <1>2, NextSlot, PTL DEF Spec

(* No two children run at the same time and none runs outside the slot,    *)
(* for any number of callers and whatever waits, threads and launches      *)
(* fail.                                                                   *)
THEOREM OneChildHolds == Spec => []OneChild
<1>1. SlotInv => OneChild
  BY DEF SlotInv
<1>2. QED
  BY <1>1, SlotInvariant, PTL

(* The slot is freed only by the supervisor that saw its child exit, and   *)
(* taken only when it is free.                                             *)
THEOREM SlotHandedOverHolds == Spec => SlotHandedOver
<1> DEFINE Step == slot' # slot =>
             slot = NoSlot \/ (slot' = NoSlot /\ sup = "release" /\ Exited(slot.gen))
<1>1. Typed /\ SlotInv /\ [Next]_vars => [Step]_vars
  <2> SUFFICES ASSUME Typed, SlotInv, Next PROVE Step
    BY DEF vars
  <2>1. ASSUME NEW c \in Callers, LaunchSource(c) \/ LaunchMatch(c) PROVE Step
    BY <2>1 DEF LaunchSource, LaunchMatch, SlotTaken, SlotInv, LaunchFree
  <2>2. CASE SupRelease
    BY <2>2 DEF SupRelease, SlotInv, Watched, Supervised
  <2>3. CASE SupLaunch
    BY <2>3 DEF SupLaunch, SlotInv, LaunchFree
  <2>4. QED
    BY <2>1, <2>2, <2>3
    DEF Next, Proceed, Supervise, Request, Admit, Recheck, Publish, RequestMatch, AdmitMatch,
        PublishMatch, StatusPoll, ChildExits, SupRead, SupWait, SupWaitUncertain, SupSignal,
        SupReapSignalled, SupUnconfirmed, SupBackoff, SupRecord, SupPublish, SupIdle, SupAdmit,
        SupOccupied, SupHold, Yield
<1>2. QED
  BY <1>1, SlotInvariant, PTL DEF Spec, SlotHandedOver

-----------------------------------------------------------------------------
(* The queue.                                                              *)

Promoting == {"admit", "occupied", "launch", "hold"}

(* What is about to be launched is not in the queue.                       *)
QueueInv ==
  /\ NoDoubleWork
  /\ \A c \in Callers : at[c] = "launch" => ~InQueue(pending, call[c].kind)
  /\ sup \in Promoting /\ slot = NoSlot => ~InQueue(pending, job.next)

Distinct(q) == \A i, j \in DOMAIN q : q[i] = q[j] => i = j

LEMMA EmptyQueue == Distinct(<<>>) /\ \A m : ~InQueue(<<>>, m)
  BY DEF Distinct, InQueue

LEMMA OnlySources ==
  ASSUME NEW q \in Seq(Sources), NEW m, InQueue(q, m)
  PROVE  m \in Sources
  BY DEF InQueue

LEMMA NotQueued ==
  ASSUME NEW q \in Seq(Sources)
  PROVE  ~InQueue(q, "") /\ ~InQueue(q, Match)
  BY OnlySources, KindsAssumption

LEMMA AppendQueue ==
  ASSUME NEW q \in Seq(Sources), NEW m \in Sources, Distinct(q), ~InQueue(q, m)
  PROVE  /\ Distinct(Append(q, m))
         /\ \A x : InQueue(Append(q, m), x) => x = m \/ InQueue(q, x)
  BY DEF Distinct, InQueue

LEMMA PrependQueue ==
  ASSUME NEW q \in Seq(Sources), NEW m \in Sources, Distinct(q), ~InQueue(q, m)
  PROVE  /\ Distinct(<<m>> \o q)
         /\ \A x : InQueue(<<m>> \o q, x) => x = m \/ InQueue(q, x)
<1> DEFINE r == <<m>> \o q
<1>1. /\ r \in Seq(Sources) /\ Len(r) = Len(q) + 1 /\ r[1] = m
      /\ \A i \in 2..Len(r) : r[i] = q[i - 1] /\ i - 1 \in DOMAIN q
  OBVIOUS
<1>2. \A i \in DOMAIN r : i = 1 \/ i \in 2..Len(r)
  BY <1>1
<1>3. \A i \in 2..Len(r) : r[i] # m
  BY <1>1 DEF InQueue
<1>4. Distinct(r)
  BY <1>1, <1>2, <1>3 DEF Distinct
<1>5. \A x : InQueue(r, x) => x = m \/ InQueue(q, x)
  BY <1>1, <1>2 DEF InQueue
<1>6. QED
  BY <1>4, <1>5

LEMMA TailQueue ==
  ASSUME NEW q \in Seq(Sources), q # <<>>, Distinct(q)
  PROVE  Distinct(Tail(q)) /\ ~InQueue(Tail(q), Head(q))
<1>1. /\ Tail(q) \in Seq(Sources) /\ Len(Tail(q)) = Len(q) - 1 /\ Head(q) = q[1]
      /\ \A i \in DOMAIN Tail(q) : Tail(q)[i] = q[i + 1] /\ i + 1 \in DOMAIN q /\ i + 1 # 1
  OBVIOUS
<1>2. 1 \in DOMAIN q
  OBVIOUS
<1>3. QED
  BY <1>1, <1>2 DEF Distinct, InQueue

(* How a section of a caller, or a status poll, changes the queue.         *)
QueueStep(m) ==
  \/ pending' = pending
  \/ pending' = <<>>
  \/ /\ pending' = Append(pending, m)
     /\ slot # NoSlot /\ slot.kind # m /\ ~InQueue(pending, m)

LEMMA QueueSteps ==
  ASSUME Typed, NEW m \in Sources, QueueIfRunning(m)
  PROVE  QueueStep(m)
<1>1. CASE Answer(m) = "QUEUED"
  BY <1>1 DEF QueueIfRunning, Answer, QueueStep, Orphaned
<1>2. CASE Answer(m) # "QUEUED"
  BY <1>2, RepairKeeps DEF QueueIfRunning, QueueStep, Typed
<1>3. QED
  BY <1>1, <1>2

LEMMA QuietQueue ==
  ASSUME Typed, SlotInv, QueueInv, SupKept, slot' = slot, NEW m \in Sources, QueueStep(m),
         \A d \in Callers : at'[d] = "launch" => at[d] = "launch" /\ call'[d].kind = call[d].kind
  PROVE  QueueInv'
<1>1. NoDoubleWork'
  <2>1. ~InQueue(pending, slot.kind) /\ Distinct(pending) /\ pending \in Seq(Sources)
    BY DEF QueueInv, NoDoubleWork, Distinct, Typed, TypeOK
  <2>2. CASE pending' = pending
    BY <2>1, <2>2 DEF NoDoubleWork, Distinct
  <2>3. CASE pending' = <<>>
    BY <2>3, EmptyQueue DEF NoDoubleWork, Distinct
  <2>4. CASE /\ pending' = Append(pending, m)
             /\ slot # NoSlot /\ slot.kind # m /\ ~InQueue(pending, m)
    <3>1. Distinct(pending') /\ ~InQueue(pending', slot.kind)
      BY <2>1, <2>4, AppendQueue
    <3>2. QED
      BY <3>1 DEF NoDoubleWork, Distinct
  <2>5. QED
    BY <2>2, <2>3, <2>4 DEF QueueStep
<1>2. ASSUME NEW d \in Callers, at'[d] = "launch" PROVE ~InQueue(pending', call'[d].kind)
  BY <1>2, EmptyQueue DEF QueueInv, QueueStep, SlotInv, LaunchFree
<1>3. sup' \in Promoting /\ slot' = NoSlot => ~InQueue(pending', job'.next)
  BY EmptyQueue DEF QueueInv, QueueStep, SupKept, Promoting
<1>4. QED
  BY <1>1, <1>2, <1>3 DEF QueueInv

LEMMA RequestQueue ==
  ASSUME Typed, SlotInv, QueueInv, NEW c \in Callers, NEW m \in Sources,
         NEW explicit \in BOOLEAN, Request(c, m, explicit)
  PROVE  QueueInv'
<1>1. slot' = slot
  BY DEF Request
<1>2. SupKept /\ QueueStep(m)
  BY QueueKeeps, QueueSteps DEF Request, supVars, SupKept, Typed, TypeOK, QueueStep
<1>3. \/ at' = at /\ call' = call
      \/ \E step \in {"publish", "admit"} : at' = [at EXCEPT ![c] = step]
           /\ \E new : call' = [call EXCEPT ![c] = new]
  BY DEF Request, callerVars
<1>4. \A d \in Callers : at'[d] = "launch" => at[d] = "launch" /\ call'[d].kind = call[d].kind
  BY <1>3 DEF Typed, TypeOK
<1>5. QED
  BY <1>1, <1>2, <1>4, QuietQueue

LEMMA AdmitQueue ==
  ASSUME Typed, SlotInv, QueueInv, NEW c \in Callers,
         \/ Admit(c) \/ AdmitMatch(c) \/ RequestMatch(c) \/ PublishMatch(c)
  PROVE  QueueInv'
<1>1. slot' = slot /\ pending' = pending /\ sup' = sup /\ job' = job
  BY DEF Admit, AdmitMatch, RequestMatch, PublishMatch, supVars
<1>2. /\ \E step \in Steps \ {"launch"} : at' = [at EXCEPT ![c] = step]
      /\ \A d \in Callers \ {c} : call'[d] = call[d]
  BY DEF Admit, AdmitMatch, RequestMatch, PublishMatch, Tell, Return, Steps, Typed, TypeOK
<1>3. \A d \in Callers : at'[d] = "launch" => at[d] = "launch" /\ call'[d].kind = call[d].kind
  BY <1>2 DEF Typed, TypeOK
<1>4. QED
  BY <1>1, <1>3 DEF QueueInv, NoDoubleWork

LEMMA RecheckQueue ==
  ASSUME Typed, SlotInv, QueueInv, NEW c \in Callers, Recheck(c)
  PROVE  QueueInv'
<1>1. slot' = slot /\ at[c] = "recheck" /\ call[c].kind \in Sources
  BY DEF Recheck, Typed, Asked
<1>2. SupKept /\ QueueStep(call[c].kind)
  BY <1>1, QueueKeeps, QueueSteps, RepairKeeps
  DEF Recheck, supVars, SupKept, QueueStep, Typed, TypeOK
<1>3. \A d \in Callers \ {c} : at'[d] = at[d] /\ call'[d] = call[d]
  BY DEF Recheck, Tell, Return, Typed, TypeOK
<1>4. CASE at'[c] # "launch"
  BY <1>1, <1>2, <1>3, <1>4, QuietQueue
<1>5. CASE at'[c] = "launch"
  <2>1. Answer(call[c].kind) = "" /\ Repair /\ Tell(c, "launch", "")
    BY <1>5 DEF Recheck, RecheckAnswer, Tell, Return, Typed, TypeOK
  <2>2. call'[c].kind = call[c].kind
    BY <2>1, TellKind DEF Typed
  <2>3. slot = NoSlot /\ pending' \in {pending, <<>>}
        /\ ~InQueue(pending', call[c].kind)
    BY <2>1, RepairKeeps, EmptyQueue DEF Answer, Typed
  <2>4. \A d \in Callers \ {c} : at'[d] # "launch"
    BY <1>1, <1>3, HolderAlone
  <2>5. NoDoubleWork'
    BY <1>1, <2>3, EmptyQueue DEF QueueInv, NoDoubleWork, Distinct
  <2>6. sup' \in Promoting /\ slot' = NoSlot => ~InQueue(pending', job'.next)
    BY <1>1, <1>2, <2>3, EmptyQueue DEF QueueInv, SupKept, Promoting
  <2>7. QED
    BY <2>2, <2>3, <2>4, <2>5, <2>6 DEF QueueInv
<1>6. QED
  BY <1>4, <1>5

LEMMA LaunchQueue ==
  ASSUME Typed, SlotInv, QueueInv, NEW c \in Callers, LaunchSource(c) \/ LaunchMatch(c)
  PROVE  QueueInv'
<1>1. at[c] \in {"launch", "matchLaunch"} /\ pending' = pending
  BY DEF LaunchSource, LaunchMatch
<1>2. \A d \in Callers : at'[d] # "launch"
  BY <1>1, HolderAlone DEF LaunchSource, LaunchMatch, Tell, Return, Typed, TypeOK
<1>3. CASE UNCHANGED <<slot, child, supVars>>
  BY <1>1, <1>2, <1>3 DEF QueueInv, NoDoubleWork, supVars
<1>4. CASE LaunchSource(c) /\ Launch(call[c].kind)
  <2>1. at[c] = "launch" /\ call[c].kind \in Kinds
    BY <1>4 DEF LaunchSource, Typed, Asked, Kinds
  <2>2. slot' # NoSlot /\ slot'.kind = call[c].kind
    BY <1>4, <2>1, LaunchTyped DEF Typed
  <2>3. QED
    BY <1>1, <1>2, <2>1, <2>2 DEF QueueInv, NoDoubleWork
<1>5. CASE Launch(Match)
  <2>1. slot' # NoSlot /\ slot'.kind = Match
    BY <1>5, LaunchTyped DEF Typed, Kinds
  <2>2. QED
    BY <1>1, <1>2, <2>1, NotQueued DEF QueueInv, NoDoubleWork, Typed, TypeOK
<1>6. QED
  BY <1>3, <1>4, <1>5 DEF LaunchSource, LaunchMatch

LEMMA PublishQueue ==
  ASSUME Typed, SlotInv, QueueInv, NEW c \in Callers, Publish(c)
  PROVE  QueueInv'
<1> DEFINE m == call[c].kind
<1>1. slot' = slot /\ m \in Sources
  BY DEF Publish, Typed, Asked
<1>2. SupKept /\ QueueStep(m)
  <2>1. CASE call[c].reply \in {"STARTED", "QUEUED"}
    BY <2>1 DEF Publish, supVars, SupKept, QueueStep, Typed, TypeOK
  <2>2. CASE QueueIfRunning(m)
    BY <1>1, <2>2, QueueKeeps, QueueSteps DEF Typed
  <2>3. CASE Answer(m) = "QUEUED" /\ Recover(slot) /\ pending' = Append(pending, m)
    BY <2>3, RecoverKeeps DEF Answer, Orphaned, QueueStep, Typed
  <2>4. CASE IF Orphaned
             THEN pending' = <<>> /\ sup' = "none" /\ UNCHANGED <<job, unsure, faults>>
             ELSE Recover(slot) /\ UNCHANGED pending
    BY <2>4, RecoverKeeps DEF Orphaned, SupKept, QueueStep, Typed, TypeOK
  <2>5. QED
    BY <2>1, <2>2, <2>3, <2>4 DEF Publish, HoldAnswer
<1>3. \A d \in Callers : at'[d] = "launch" => at[d] = "launch" /\ call'[d].kind = call[d].kind
  BY DEF Publish, Return, Typed, TypeOK
<1>4. QED
  BY <1>1, <1>2, <1>3, QuietQueue

LEMMA PollQueue ==
  ASSUME Typed, SlotInv, QueueInv, StatusPoll
  PROVE  QueueInv'
<1>1. /\ slot' = slot /\ at' = at /\ call' = call /\ SupKept /\ pending' \in {pending, <<>>}
  BY RepairKeeps DEF StatusPoll, callerVars, Typed
<1>2. QED
  BY <1>1, EmptyQueue DEF QueueInv, NoDoubleWork, SupKept, Promoting, Distinct

LEMMA InnerQueue ==
  ASSUME QueueInv, slot' = slot, pending' = pending, at' = at, call' = call,
         sup' \in Promoting => sup \in Promoting /\ job'.next = job.next
  PROVE  QueueInv'
  BY DEF QueueInv, NoDoubleWork

LEMMA SupInnerQueue ==
  ASSUME Typed, QueueInv,
         \/ SupRead \/ SupWait \/ SupWaitUncertain \/ SupSignal \/ SupReapSignalled
         \/ SupUnconfirmed \/ SupBackoff \/ SupRecord \/ SupPublish \/ SupIdle
  PROVE  QueueInv'
<1>1. slot' = slot /\ pending' = pending /\ at' = at /\ call' = call
  BY DEF SupRead, SupWait, SupWaitUncertain, SupSignal, SupReapSignalled, SupUnconfirmed,
         SupBackoff, SupRecord, SupPublish, SupIdle, callerVars
<1>2. sup' \notin Promoting
  BY DEF SupRead, SupWait, SupWaitUncertain, SupSignal, SupReapSignalled, SupUnconfirmed,
         SupBackoff, SupRecord, SupPublish, SupIdle, SupGo, SupDies, Reaped, Promoting
<1>3. QED
  BY <1>1, <1>2, InnerQueue

LEMMA SupReleaseQueue ==
  ASSUME Typed, SlotInv, QueueInv, SupRelease
  PROVE  QueueInv'
<1>1. sup = "release" /\ at' = at /\ call' = call
  BY DEF SupRelease, callerVars
<1>2. slot # NoSlot /\ slot' = NoSlot /\ slot'.kind = ""
  <2>1. slot # NoSlot /\ slot' = NoSlot
    BY <1>1 DEF SupRelease, SlotInv, Watched, Supervised
  <2>2. QED
    BY <2>1 DEF NoSlot
<1>3. \A c \in Callers : at'[c] # "launch"
  BY <1>1, <1>2 DEF SlotInv, LaunchFree
<1>4. Distinct(pending) /\ pending \in Seq(Sources)
  BY DEF QueueInv, NoDoubleWork, Distinct, Typed, TypeOK
<1>5. CASE pending = <<>>
  <2>1. sup' = "idle" /\ pending' = pending
    BY <1>5 DEF SupRelease, SupGo
  <2>2. QED
    BY <1>2, <1>3, <1>5, <2>1, EmptyQueue DEF QueueInv, NoDoubleWork, Distinct, Promoting
<1>6. CASE pending # <<>>
  <2>1. pending' = Tail(pending) /\ job'.next = Head(pending)
    BY <1>6 DEF SupRelease, NoJob
  <2>2. pending' \in Seq(Sources) /\ Distinct(pending') /\ ~InQueue(pending', job'.next)
    BY <1>4, <1>6, <2>1, TailQueue
  <2>3. ~InQueue(pending', slot'.kind)
    BY <1>2, <2>2, NotQueued
  <2>4. QED
    BY <1>3, <2>2, <2>3 DEF QueueInv, NoDoubleWork, Distinct
<1>7. QED
  BY <1>5, <1>6

LEMMA YieldQueue ==
  ASSUME Typed, SlotInv, QueueInv, Yield, job.next \in Sources
  PROVE  QueueInv'
<1>1. slot' = slot /\ slot # NoSlot /\ at' = at /\ call' = call /\ sup' = "read"
  BY DEF Yield, SupGo, callerVars
<1>2. \A c \in Callers : at'[c] # "launch"
  BY <1>1 DEF SlotInv, LaunchFree
<1>3. ~InQueue(pending, slot.kind) /\ Distinct(pending) /\ pending \in Seq(Sources)
  BY DEF QueueInv, NoDoubleWork, Distinct, Typed, TypeOK
<1>4. Distinct(pending') /\ ~InQueue(pending', slot.kind)
  <2>1. CASE pending' = pending
    BY <1>3, <2>1
  <2>2. CASE /\ pending' = <<job.next>> \o pending
             /\ slot.kind # job.next /\ ~InQueue(pending, job.next)
    BY <1>3, <2>2, PrependQueue
  <2>3. QED
    BY <2>1, <2>2 DEF Yield, PutBack
<1>5. QED
  BY <1>1, <1>2, <1>4 DEF QueueInv, NoDoubleWork, Distinct, Promoting

LEMMA SupPromoteQueue ==
  ASSUME Typed, SlotInv, QueueInv, SupAdmit \/ SupOccupied \/ SupHold
  PROVE  QueueInv'
<1>1. sup \in {"admit", "occupied", "hold"} /\ job.next \in Sources
  BY DEF SupAdmit, SupOccupied, SupHold, Typed, Asked
<1>2. CASE SupAdmit
  <2>1. job'.next = job.next
    BY <1>2 DEF SupAdmit, Typed, TypeOK, Job
  <2>2. QED
    BY <1>1, <1>2, <2>1, InnerQueue DEF SupAdmit, callerVars, Promoting
<1>3. CASE Yield
  BY <1>1, <1>3, YieldQueue
<1>4. CASE SupOccupied /\ ~Yield
  <2>1. slot' = slot /\ pending' = pending /\ at' = at /\ call' = call /\ job' = job
    BY <1>4 DEF SupOccupied, callerVars
  <2>2. QED
    BY <1>1, <2>1, InnerQueue DEF Promoting
<1>5. CASE SupHold /\ ~Yield
  <2>1. pending' = <<>> /\ slot' = slot /\ sup' = "none"
    BY <1>5 DEF SupHold, SupGo
  <2>2. QED
    BY <2>1, EmptyQueue DEF QueueInv, NoDoubleWork, Distinct, Promoting
<1>6. QED
  BY <1>2, <1>3, <1>4, <1>5

LEMMA SupLaunchQueue ==
  ASSUME Typed, SlotInv, QueueInv, SupLaunch
  PROVE  QueueInv'
<1>1. /\ sup = "launch" /\ slot = NoSlot /\ launchLock = SupLock /\ job.next \in Kinds
      /\ pending' = pending /\ at' = at /\ call' = call /\ ~InQueue(pending, job.next)
  BY DEF SupLaunch, callerVars, SlotInv, LockHeld, LaunchFree, Typed, Asked, Kinds, QueueInv,
         Promoting
<1>2. \A c \in Callers : at'[c] # "launch"
  BY <1>1, LockNames DEF SlotInv, LockHeld
<1>3. CASE Launch(job.next) /\ sup' = "read"
  <2>1. slot'.kind = job.next
    BY <1>1, <1>3, LaunchTyped DEF Typed
  <2>2. QED
    BY <1>1, <1>2, <1>3, <2>1 DEF QueueInv, NoDoubleWork, Promoting
<1>4. CASE slot' = slot /\ ((sup' = "hold" /\ job' = job) \/ sup' = "dead")
  BY <1>1, <1>4, InnerQueue DEF Promoting
<1>5. QED
  BY <1>3, <1>4 DEF SupLaunch, SupGo, SupDies

LEMMA NextQueue == Typed /\ SlotInv /\ QueueInv /\ [Next]_vars => QueueInv'
<1> SUFFICES ASSUME Typed, SlotInv, QueueInv, [Next]_vars PROVE QueueInv'
  OBVIOUS
<1>1. ASSUME NEW c \in Callers, NEW m \in Sources, NEW explicit \in BOOLEAN,
             Request(c, m, explicit)
      PROVE  QueueInv'
  BY <1>1, RequestQueue
<1>2. ASSUME NEW c \in Callers, RequestMatch(c) \/ Proceed(c) PROVE QueueInv'
  BY <1>2, AdmitQueue, RecheckQueue, LaunchQueue, PublishQueue DEF Proceed
<1>3. CASE StatusPoll
  BY <1>3, PollQueue
<1>4. CASE Supervise
  BY <1>4, SupInnerQueue, SupReleaseQueue, SupPromoteQueue, SupLaunchQueue DEF Supervise
<1>5. ASSUME NEW g \in Gens, ChildExits(g) PROVE QueueInv'
  BY <1>5, InnerQueue DEF ChildExits, callerVars, supVars
<1>6. CASE UNCHANGED vars
  BY <1>6, InnerQueue DEF vars
<1>7. QED
  BY <1>1, <1>2, <1>3, <1>4, <1>5, <1>6 DEF Next

(* A source never runs and waits at the same time, and waits at most once, *)
(* though the queue is read in one section of the lock and changed in a    *)
(* later one.                                                              *)
THEOREM NoDoubleWorkHolds == Spec => []NoDoubleWork
<1>1. Init => QueueInv
  BY EmptyQueue DEF Init, QueueInv, NoDoubleWork, Distinct, Promoting
<1>2. Spec => []QueueInv
  BY <1>1, SlotInvariant, NextQueue, PTL DEF Spec
<1>3. QueueInv => NoDoubleWork
  BY DEF QueueInv
<1>4. QED
  BY <1>2, <1>3, PTL

-----------------------------------------------------------------------------
(* What the supervisor reports.                                            *)

(* It knows the kind of the child it watches, and takes for a success only *)
(* an exit code it has read.                                               *)
ReportInv ==
  /\ sup \in Supervised => job.kind = slot.kind
  /\ sup \in {"record", "publish"} /\ job.result = "ok" => child[slot.gen] = "ok"

LEMMA QuietReport ==
  ASSUME Typed, SlotInv, ReportInv, slot' = slot, child' = child, SupKept
  PROVE  ReportInv'
  BY DEF ReportInv, SupKept, Supervised

LEMMA CallerReport ==
  ASSUME Typed, SlotInv, ReportInv, NEW c \in Callers,
         \/ RequestMatch(c) \/ Proceed(c)
         \/ \E m \in Sources, explicit \in BOOLEAN : Request(c, m, explicit)
  PROVE  ReportInv'
<1>1. CASE LaunchSource(c) \/ LaunchMatch(c)
  <2>1. CASE UNCHANGED <<slot, child, supVars>>
    BY <2>1 DEF ReportInv, supVars
  <2>2. ASSUME NEW m \in Kinds, Launch(m), Recover(slot'), slot = NoSlot
        PROVE  ReportInv'
    <3>1. sup \notin Supervised /\ SupKept
      BY <2>2, LaunchSlot, RecoverKeeps DEF Typed
    <3>2. sup' \notin Supervised
      BY <3>1 DEF SupKept, Supervised
    <3>3. QED
      BY <3>2 DEF ReportInv, Supervised
  <2>3. LaunchSource(c) => slot = NoSlot /\ call[c].kind \in Kinds
    BY DEF LaunchSource, SlotInv, LaunchFree, Typed, Asked, Kinds
  <2>4. LaunchMatch(c) /\ ~SlotTaken => slot = NoSlot
    BY DEF SlotTaken
  <2>5. QED
    BY <1>1, <2>1, <2>2, <2>3, <2>4 DEF LaunchSource, LaunchMatch, Kinds
<1>2. CASE Recheck(c) \/ Publish(c)
  <2>1. call[c].kind \in Sources
    BY <1>2 DEF Recheck, Publish, Typed, Asked
  <2>2. slot' = slot /\ child' = child
    BY <1>2 DEF Recheck, Publish
  <2>3. SupKept
    <3>1. CASE Orphaned /\ sup' = "none" /\ UNCHANGED <<job, unsure, faults>>
      BY <3>1 DEF Orphaned, SupKept, Typed, TypeOK
    <3>2. CASE UNCHANGED <<supVars, faults>>
      BY <3>2 DEF supVars, SupKept, Typed, TypeOK
    <3>3. CASE QueueIfRunning(call[c].kind) \/ Repair \/ Recover(slot)
      BY <2>1, <3>3, QueueKeeps, RepairKeeps, RecoverKeeps DEF Typed
    <3>4. QED
      BY <1>2, <3>1, <3>2, <3>3 DEF Recheck, Publish
  <2>4. QED
    BY <2>2, <2>3, QuietReport
<1>3. CASE Admit(c) \/ AdmitMatch(c) \/ RequestMatch(c) \/ PublishMatch(c)
  BY <1>3 DEF Admit, AdmitMatch, RequestMatch, PublishMatch, supVars, ReportInv
<1>4. ASSUME NEW m \in Sources, NEW explicit \in BOOLEAN, Request(c, m, explicit)
      PROVE  ReportInv'
  <2>1. slot' = slot /\ child' = child /\ SupKept
    BY <1>4, QueueKeeps DEF Request, supVars, SupKept, Typed, TypeOK
  <2>2. QED
    BY <2>1, QuietReport
<1>5. QED
  BY <1>1, <1>2, <1>3, <1>4 DEF Proceed

LEMMA SupReport ==
  ASSUME Typed, SlotInv, ReportInv, Supervise
  PROVE  ReportInv'
<1>1. CASE SupWait \/ SupWaitUncertain \/ SupReapSignalled
  <2>1. /\ slot' = slot /\ child' = child /\ sup' = "record"
        /\ job'.kind = job.kind /\ sup \in {"watch", "signalled"}
    BY <1>1 DEF SupWait, SupWaitUncertain, SupReapSignalled, Reaped, SupGo, Typed, TypeOK, Job
  <2>2. job'.result = "ok" => child[job.gen] = "ok"
    BY <1>1 DEF SupWait, SupWaitUncertain, SupReapSignalled, Reaped, UncertainResult,
       Typed, TypeOK, Job
  <2>3. QED
    BY <2>1, <2>2 DEF ReportInv, SlotInv, Watched, Supervised
<1>2. CASE SupRead
  <2>1. slot' = slot /\ child' = child /\ sup' \in {"none", "watch"}
    BY <1>2 DEF SupRead, SupGo
  <2>2. sup' = "watch" => job'.kind = slot.kind
    BY <1>2 DEF SupRead, SupGo, NoJob
  <2>3. QED
    BY <2>1, <2>2 DEF ReportInv, Supervised
<1>3. CASE SupSignal \/ SupUnconfirmed
  <2>1. /\ slot' = slot /\ child' = child /\ sup' \in {"signalled", "backoff"}
        /\ job'.kind = job.kind /\ sup \in {"watch", "signalled"}
    BY <1>3 DEF SupSignal, SupUnconfirmed, SupGo, Typed, TypeOK, Job
  <2>2. QED
    BY <2>1 DEF ReportInv, Supervised
<1>4. CASE SupRecord \/ SupPublish
  <2>1. /\ slot' = slot /\ child' = child /\ sup \in {"record", "publish"}
        /\ sup' = "dead" \/ (sup' \in {"publish", "release"} /\ job' = job)
    BY <1>4 DEF SupRecord, SupPublish, SupGo, SupDies
  <2>2. QED
    BY <2>1 DEF ReportInv, Supervised
<1>5. CASE \/ SupBackoff \/ SupIdle \/ SupRelease \/ SupAdmit \/ SupOccupied
           \/ SupLaunch \/ SupHold
  <2>1. sup' \notin Supervised
    BY <1>5 DEF SupBackoff, SupIdle, SupRelease, SupAdmit, SupOccupied, SupLaunch, SupHold,
       Yield, SupGo, SupDies, Supervised
  <2>2. QED
    BY <2>1 DEF ReportInv, Supervised
<1>6. QED
  BY <1>1, <1>2, <1>3, <1>4, <1>5 DEF Supervise

LEMMA NextReport == Typed /\ SlotInv /\ ReportInv /\ [Next]_vars => ReportInv'
<1> SUFFICES ASSUME Typed, SlotInv, ReportInv, [Next]_vars PROVE ReportInv'
  OBVIOUS
<1>1. CASE StatusPoll
  BY <1>1, RepairKeeps, QuietReport DEF StatusPoll, Typed
<1>2. ASSUME NEW g \in Gens, ChildExits(g) PROVE ReportInv'
  <2>1. slot' = slot /\ sup' = sup /\ job' = job /\ child[g] = "running"
    BY <1>2 DEF ChildExits, supVars
  <2>2. \A h \in Gens : child[h] = "ok" => child'[h] = "ok"
    BY <1>2, <2>1 DEF ChildExits, Typed, TypeOK
  <2>3. sup \in Supervised => slot.gen \in Gens
    BY DEF SlotInv, Watched, Typed, Asked
  <2>4. QED
    BY <2>1, <2>2, <2>3 DEF ReportInv, Supervised
<1>3. CASE UNCHANGED vars
  BY <1>3 DEF vars, ReportInv
<1>4. QED
  BY <1>1, <1>2, <1>3, CallerReport, SupReport DEF Next

(* COMPLETE is published only for the child in the slot, which exited with *)
(* code 0, never for an exit that was forced or could not be read.         *)
THEOREM CompleteIsTrueHolds == Spec => CompleteIsTrue
<1> DEFINE Step == \A m \in Sources : status[m] # "COMPLETE" /\ status'[m] = "COMPLETE"
                     => slot.kind = m /\ child[slot.gen] = "ok"
           Quiet == \A m \in Kinds : status'[m] = "COMPLETE" => status[m] = "COMPLETE"
<1>1. Init => ReportInv
  BY DEF Init, ReportInv, Supervised
<1>2. Spec => [](Typed /\ SlotInv /\ ReportInv)
  BY <1>1, SlotInvariant, NextReport, PTL DEF Spec
<1>3. Typed /\ SlotInv /\ ReportInv /\ [Next]_vars => [Step]_vars
  <2> SUFFICES ASSUME Typed, SlotInv, ReportInv, Next PROVE Step
    BY DEF vars
  <2>1. ASSUME NEW ms, status' = Held(ms) PROVE Quiet
    BY <2>1 DEF Held
  <2>2. ASSUME NEW m \in Kinds, NEW new \in {"RUNNING", "QUEUED", "HELD"}, Set(m, new)
        PROVE  Quiet
    BY <2>2 DEF Set, Typed, TypeOK
  <2>3. CASE status' = status
    BY <2>3
  <2>4. ASSUME NEW m \in Sources, QueueIfRunning(m) PROVE Quiet
    BY <2>1, <2>4 DEF QueueIfRunning, Repair, ReleaseOrphans
  <2>5. Repair => Quiet
    BY <2>1 DEF Repair, ReleaseOrphans
  <2>6. Quiet => Step
    BY DEF Kinds
  <2>7. ASSUME NEW c \in Callers, NEW m \in Sources, NEW explicit \in BOOLEAN,
               Request(c, m, explicit)
        PROVE  Step
    BY <2>3, <2>4, <2>6, <2>7 DEF Request
  <2>8. ASSUME NEW c \in Callers, RequestMatch(c) \/ Proceed(c) PROVE Step
    <3>1. CASE Recheck(c)
      BY <2>3, <2>4, <2>5, <2>6, <3>1 DEF Recheck, Typed, Asked
    <3>2. CASE Publish(c)
      BY <2>1, <2>2, <2>3, <2>4, <2>6, <3>2 DEF Publish, Typed, Asked, Kinds
    <3>3. CASE PublishMatch(c)
      BY <2>2, <2>6, <3>3 DEF PublishMatch, Kinds
    <3>4. CASE Admit(c) \/ LaunchSource(c) \/ RequestMatch(c) \/ AdmitMatch(c) \/ LaunchMatch(c)
      BY <2>3, <3>4 DEF Admit, LaunchSource, RequestMatch, AdmitMatch, LaunchMatch
    <3>5. QED
      BY <2>8, <3>1, <3>2, <3>3, <3>4 DEF Proceed
  <2>9. CASE SupPublish
    <3>1. job.kind \in Kinds /\ job.kind = slot.kind
      BY <2>9 DEF SupPublish, Typed, Asked, ReportInv, Supervised
    <3>2. CASE Set(job.kind, "HELD")
      BY <2>2, <2>6, <3>1, <3>2
    <3>3. CASE Set(job.kind, ExitStatus(job.kind, job.result))
      <4>1. ExitStatus(job.kind, job.result) = "COMPLETE" => job.result = "ok"
        BY DEF ExitStatus
      <4>2. job.result = "ok" => child[slot.gen] = "ok"
        BY <2>9 DEF SupPublish, ReportInv
      <4>3. \A m \in Kinds \ {slot.kind} : status'[m] = status[m]
        BY <3>1, <3>3 DEF Set, Typed, TypeOK
      <4>4. status'[slot.kind] = ExitStatus(job.kind, job.result)
        BY <3>1, <3>3 DEF Set, Typed, TypeOK
      <4>5. QED
        BY <4>1, <4>2, <4>3, <4>4 DEF Kinds
    <3>4. QED
      BY <2>9, <3>2, <3>3 DEF SupPublish
  <2>10. CASE SupLaunch
    BY <2>2, <2>3, <2>6, <2>10 DEF SupLaunch, Typed, Asked, Kinds
  <2>11. CASE SupHold
    BY <2>1, <2>3, <2>6, <2>11 DEF SupHold, Yield
  <2>12. QED
    BY <2>3, <2>5, <2>6, <2>7, <2>8, <2>9, <2>10, <2>11
    DEF Next, Supervise, StatusPoll, ChildExits, SupRead, SupWait, SupWaitUncertain, SupSignal,
        SupReapSignalled, SupUnconfirmed, SupBackoff, SupRecord, SupRelease, SupIdle, SupAdmit,
        SupOccupied, Yield
<1>4. QED
  BY <1>2, <1>3, PTL DEF Spec, CompleteIsTrue

-----------------------------------------------------------------------------
(* The signals.                                                            *)

(* The one early signal a cooldown allows has its emergency used up.       *)
SignalInv == unsure.early <= 1 /\ (unsure.urgent # "used" => unsure.early = 0)

LEMMA CertainSignal == Certain.early = 0 /\ Certain.urgent = "no"
  BY DEF Certain

LEMMA SignalStep ==
  ASSUME Typed, SignalInv, SupSignal
  PROVE  SignalInv'
<1> DEFINE early == IF unsure.cooling /\ unsure.early < 2 THEN unsure.early + 1 ELSE unsure.early
           u == [unsure EXCEPT !.early = early]
<1>1. unsure \in Unsure /\ unsure.early \in 0..2
  BY DEF Typed, TypeOK, Unsure
<1>2. CASE unsure.gen # job.gen
  BY <1>2 DEF SupSignal, SignalInv
<1>3. CASE unsure.gen = job.gen
  <2>1. unsure' = AfterSignal(u)
    BY <1>3 DEF SupSignal
  <2>2. u.early = early /\ u.urgent = unsure.urgent
    BY <1>1 DEF Unsure
  <2>3. unsure'.early = early
        /\ unsure'.urgent = (IF unsure.urgent = "pending" THEN "used" ELSE unsure.urgent)
    BY <1>1, <2>1, <2>2 DEF AfterSignal, Unsure
  <2>4. ~unsure.cooling \/ unsure.urgent = "pending"
    BY <1>3 DEF SupSignal, MaySignal
  <2>5. CASE ~unsure.cooling
    BY <1>1, <2>3, <2>5 DEF SignalInv
  <2>6. CASE unsure.urgent = "pending"
    BY <1>1, <2>3, <2>6 DEF SignalInv
  <2>7. QED
    BY <2>4, <2>5, <2>6
<1>4. QED
  BY <1>2, <1>3

LEMMA NextSignal == Typed /\ SignalInv /\ [Next]_vars => SignalInv'
<1> SUFFICES ASSUME Typed, SignalInv, [Next]_vars PROVE SignalInv'
  OBVIOUS
<1>1. CASE unsure' = unsure
  BY <1>1 DEF SignalInv
<1>2. CASE unsure' = Certain
  BY <1>2, CertainSignal DEF SignalInv
<1>3. CASE SupBackoff
  <2>1. PICK urgent \in {unsure.urgent} \cup (IF unsure.urgent = "no" THEN {"pending"} ELSE {}),
             cooling \in {unsure.cooling, FALSE} :
             unsure' = [unsure EXCEPT !.urgent = urgent, !.cooling = cooling]
    BY <1>3 DEF SupBackoff
  <2>2. unsure'.early = unsure.early /\ unsure'.urgent = urgent
    BY <2>1 DEF Typed, TypeOK, Unsure
  <2>3. QED
    BY <2>1, <2>2 DEF SignalInv
<1>4. CASE SupUnconfirmed
  BY <1>4 DEF SupUnconfirmed, SignalInv, Certain
<1>5. CASE \/ SupRead \/ SupWait \/ SupWaitUncertain \/ SupReapSignalled
  BY <1>1, <1>2, <1>5 DEF SupRead, SupWait, SupWaitUncertain, SupReapSignalled, Reaped
<1>6. CASE SupSignal
  BY <1>6, SignalStep
<1>7. ASSUME NEW c \in Callers,
             \/ RequestMatch(c) \/ Proceed(c)
             \/ \E m \in Sources, explicit \in BOOLEAN : Request(c, m, explicit)
      PROVE  unsure' = unsure
  BY <1>7 DEF RequestMatch, Proceed, Request, Admit, Recheck, LaunchSource, Publish, AdmitMatch,
     LaunchMatch, PublishMatch, QueueIfRunning, Repair, Recover, Attach, supVars
<1>8. CASE StatusPoll
  BY <1>1, <1>8 DEF StatusPoll, Repair, Recover, Attach, supVars
<1>9. CASE \/ SupRecord \/ SupPublish \/ SupRelease \/ SupIdle \/ SupAdmit \/ SupOccupied
           \/ SupLaunch \/ SupHold \/ UNCHANGED vars \/ \E g \in Gens : ChildExits(g)
  BY <1>1, <1>9 DEF SupRecord, SupPublish, SupRelease, SupIdle, SupAdmit, SupOccupied,
     SupLaunch, SupHold, Yield, vars, ChildExits, supVars
<1>10. QED
  BY <1>1, <1>3, <1>4, <1>5, <1>6, <1>7, <1>8, <1>9 DEF Next, Supervise

(* However often the child cannot be confirmed dead and the container runs *)
(* short of memory, one early signal is sent inside a cooldown at most.    *)
THEOREM SignalsSpacedHolds == Spec => []SignalsSpaced
<1>1. Init => SignalInv
  BY CertainSignal DEF Init, SignalInv
<1>2. Spec => []Typed
  BY InitTyped, NextTyped, PTL DEF Spec
<1>3. Spec => []SignalInv
  BY <1>1, <1>2, NextSignal, PTL DEF Spec
<1>4. SignalInv => SignalsSpaced
  BY DEF SignalInv, SignalsSpaced
<1>5. QED
  BY <1>3, <1>4, PTL

-----------------------------------------------------------------------------
(* What is shown of a waiting source.                                      *)

(* The supervisor has a source of its own only while it promotes it, and a *)
(* source whose exit it has published was not shown as waiting again.  As  *)
(* long as the operating system does not fail, whatever is shown as queued *)
(* waits, is being promoted, or holds the slot.                            *)
WaitInv ==
  /\ sup \notin Promoting => job.next = ""
  /\ \A m \in Sources : sup = "release" /\ slot.kind = m => status[m] # "QUEUED"
  /\ faults = 0 => QueuedIsReal

(* A step shows as queued only what is in the queue after it, or what was  *)
(* shown before and was not in the queue; and puts on hold what is then    *)
(* not in the queue, and not in the slot unless its exit is published.     *)
Waits ==
  \A m \in Sources :
    status'[m] = "QUEUED" => InQueue(pending', m) \/ (status[m] = "QUEUED" /\ ~InQueue(pending, m))
Holds ==
  \A m \in Sources :
    status[m] # "HELD" /\ status'[m] = "HELD"
      => ~InQueue(pending', m) /\ (slot.kind = m => sup = "publish")

LEMMA QuietWaits ==
  ASSUME status' = status, \A m : InQueue(pending, m) => InQueue(pending', m)
  PROVE  Waits /\ Holds
  BY DEF Waits, Holds

LEMMA InAppended ==
  ASSUME NEW q \in Seq(Sources), NEW m \in Sources
  PROVE  \A x : InQueue(q, x) \/ x = m => InQueue(Append(q, m), x)
<1>1. /\ Append(q, m)[Len(q) + 1] = m /\ Len(q) + 1 \in DOMAIN Append(q, m)
      /\ \A i \in DOMAIN q : Append(q, m)[i] = q[i] /\ i \in DOMAIN Append(q, m)
  OBVIOUS
<1>2. QED
  BY <1>1 DEF InQueue

LEMMA InPrepended ==
  ASSUME NEW q \in Seq(Sources), NEW m \in Sources
  PROVE  \A x : InQueue(q, x) \/ x = m => InQueue(<<m>> \o q, x)
<1> DEFINE r == <<m>> \o q
<1>1. /\ r[1] = m /\ 1 \in DOMAIN r
      /\ \A i \in DOMAIN q : r[i + 1] = q[i] /\ i + 1 \in DOMAIN r
  OBVIOUS
<1>2. QED
  BY <1>1 DEF InQueue

LEMMA InTail ==
  ASSUME NEW q \in Seq(Sources), q # <<>>
  PROVE  Head(q) \in Sources /\ \A x : InQueue(q, x) => x = Head(q) \/ InQueue(Tail(q), x)
<1>1. /\ Head(q) = q[1] /\ 1 \in DOMAIN q
      /\ \A i \in DOMAIN q : i # 1 => Tail(q)[i - 1] = q[i] /\ i - 1 \in DOMAIN Tail(q)
  OBVIOUS
<1>2. Head(q) \in Sources
  BY <1>1
<1>3. ASSUME NEW x, InQueue(q, x) PROVE x = Head(q) \/ InQueue(Tail(q), x)
  <2>1. PICK i \in DOMAIN q : q[i] = x
    BY <1>3 DEF InQueue
  <2>2. QED
    BY <1>1, <2>1 DEF InQueue
<1>4. QED
  BY <1>2, <1>3

LEMMA HeldWaits ==
  ASSUME Typed, slot = NoSlot, NEW ms, Queued \subseteq ms, status' = Held(ms), pending' = <<>>
  PROVE  Waits /\ Holds
<1>1. \A m \in Sources : InQueue(pending, m) => m \in ms
  BY DEF Queued, InQueue
<1>2. \A m \in Sources : status'[m] = (IF m \in ms THEN "HELD" ELSE status[m])
  BY DEF Held, Kinds
<1>3. \A m \in Sources : slot.kind # m
  BY KindsAssumption DEF NoSlot
<1>4. QED
  BY <1>1, <1>2, <1>3, EmptyQueue DEF Waits, Holds

LEMMA RepairWaits ==
  ASSUME Typed, Repair
  PROVE  Waits /\ Holds
<1>1. CASE Orphaned
  BY <1>1, HeldWaits DEF Repair, ReleaseOrphans, Orphaned
<1>2. CASE ~Orphaned
  BY <1>2, QuietWaits DEF Repair
<1>3. QED
  BY <1>1, <1>2

LEMMA QueueWaits ==
  ASSUME Typed, NEW m \in Sources, QueueIfRunning(m)
  PROVE  Waits /\ Holds
<1>1. CASE Answer(m) = "QUEUED"
  <2>1. pending' = Append(pending, m) /\ status' = status
    BY <1>1 DEF QueueIfRunning
  <2>2. \A x : InQueue(pending, x) => InQueue(pending', x)
    BY <2>1, InAppended DEF Typed, TypeOK
  <2>3. QED
    BY <2>1, <2>2, QuietWaits
<1>2. CASE Answer(m) # "QUEUED"
  BY <1>2, RepairWaits DEF QueueIfRunning
<1>3. QED
  BY <1>1, <1>2

LEMMA SetIs ==
  ASSUME Typed, NEW m \in Kinds, NEW s, Set(m, s)
  PROVE  status'[m] = s /\ \A k \in Kinds : k # m => status'[k] = status[k]
  BY DEF Typed, TypeOK, Set

LEMMA PublishWaits ==
  ASSUME Typed, NEW c \in Callers, Publish(c)
  PROVE  Waits /\ Holds
<1> DEFINE m == call[c].kind
<1>1. m \in Sources /\ m \in Kinds
  BY DEF Publish, Typed, Asked, Kinds
<1> HIDE DEF m
<1>2. CASE call[c].reply = "STARTED"
  <2>1. pending' = pending /\ (Set(m, "RUNNING") \/ status' = status)
    BY <1>2 DEF Publish, m
  <2>2. \A k \in Sources : status'[k] = status[k] \/ status'[k] = "RUNNING"
    BY <1>1, <2>1, SetIs DEF Kinds
  <2>3. QED
    BY <2>1, <2>2 DEF Waits, Holds
<1>3. CASE call[c].reply = "QUEUED"
  <2>1. pending' = pending /\ ((InQueue(pending, m) /\ Set(m, "QUEUED")) \/ status' = status)
    BY <1>3 DEF Publish, m
  <2>2. \A k \in Sources : status'[k] = status[k] \/ (k = m /\ status'[k] = "QUEUED" /\ InQueue(pending', k))
    BY <1>1, <2>1, SetIs DEF Kinds
  <2>3. QED
    BY <2>1, <2>2 DEF Waits, Holds
<1>4. CASE call[c].reply = "HOLD" /\ HoldAnswer(m) = "ALREADY"
  <2>1. QueueIfRunning(m)
    BY <1>4 DEF Publish, m
  <2>2. QED
    BY <1>1, <2>1, QueueWaits
<1>5. CASE call[c].reply = "HOLD" /\ HoldAnswer(m) = "QUEUED"
  <2>1. pending' = Append(pending, m) /\ Set(m, "QUEUED")
    BY <1>5 DEF Publish, m
  <2>2. \A x : InQueue(pending, x) \/ x = m => InQueue(pending', x)
    BY <1>1, <2>1, InAppended DEF Typed, TypeOK
  <2>3. status'[m] = "QUEUED" /\ \A k \in Sources : k # m => status'[k] = status[k]
    BY <1>1, <2>1, SetIs DEF Kinds
  <2>4. QED
    BY <2>2, <2>3 DEF Waits, Holds
<1>6. CASE call[c].reply = "HOLD" /\ HoldAnswer(m) = "" /\ Orphaned
  <2>1. pending' = <<>> /\ status' = Held(Queued \cup {m}) /\ slot = NoSlot
    BY <1>6 DEF Publish, m, Orphaned
  <2>2. QED
    BY <2>1, HeldWaits
<1>7. CASE call[c].reply = "HOLD" /\ HoldAnswer(m) = "" /\ ~Orphaned
  <2>1. pending' = pending /\ Set(m, "HELD")
    BY <1>7 DEF Publish, m
  <2>2. ~InQueue(pending, m) /\ slot = NoSlot
    BY <1>7 DEF HoldAnswer, Answer
  <2>3. status'[m] = "HELD" /\ \A k \in Sources : k # m => status'[k] = status[k]
    BY <1>1, <2>1, SetIs DEF Kinds
  <2>4. slot.kind # m
    BY <1>1, <2>2, KindsAssumption DEF NoSlot
  <2>5. QED
    BY <2>1, <2>2, <2>3, <2>4 DEF Waits, Holds
<1>8. QED
  BY <1>2, <1>3, <1>4, <1>5, <1>6, <1>7 DEF Publish, m

(* Faults are counted, never forgotten.                                    *)
LEMMA FaultGrows ==
  ASSUME TypeOK, Fault
  PROVE  faults' # 0
  BY BoundsAssumption DEF TypeOK, Fault

LEMMA RecoverGrows ==
  ASSUME TypeOK, NEW s, Recover(s), faults' = 0
  PROVE  faults = 0
  BY FaultGrows DEF Recover, Attach

LEMMA RepairGrows ==
  ASSUME TypeOK, Repair, faults' = 0
  PROVE  faults = 0
  BY RecoverGrows DEF Repair

LEMMA QueueGrows ==
  ASSUME TypeOK, NEW m, QueueIfRunning(m), faults' = 0
  PROVE  faults = 0
  BY RecoverGrows, RepairGrows DEF QueueIfRunning

WaitAssumptions == Typed /\ SlotInv /\ QueueInv /\ ReportInv /\ WaitInv

(* A step that leaves the slot and the work of the supervisor alone.       *)
LEMMA CalmWait ==
  ASSUME WaitAssumptions, QueueInv', slot' = slot, SupKept, Waits, faults' = 0 => faults = 0
  PROVE  WaitInv'
<1>1. sup' \notin Promoting => job'.next = ""
  BY DEF WaitAssumptions, WaitInv, SupKept, SupAlive, SupSteps, Promoting
<1>2. ASSUME NEW m \in Sources, sup' = "release", slot'.kind = m PROVE status'[m] # "QUEUED"
  <2>1. sup = "release" /\ slot.kind = m
    BY <1>2 DEF SupKept
  <2>2. status[m] # "QUEUED"
    BY <2>1 DEF WaitAssumptions, WaitInv
  <2>3. ~InQueue(pending', m)
    BY <1>2 DEF QueueInv, NoDoubleWork
  <2>4. QED
    BY <2>2, <2>3 DEF Waits
<1>3. ASSUME faults' = 0 PROVE QueuedIsReal'
  <2>1. QueuedIsReal
    BY <1>3 DEF WaitAssumptions, WaitInv
  <2>2. QED
    BY <2>1 DEF QueuedIsReal, Waits, SupKept
<1>4. QED
  BY <1>1, <1>2, <1>3 DEF WaitInv

LEMMA StaysKept ==
  ASSUME Typed, UNCHANGED <<supVars, faults>>
  PROVE  SupKept
  BY DEF supVars, SupKept, Typed, TypeOK

LEMMA RequestWait ==
  ASSUME WaitAssumptions, QueueInv', NEW c \in Callers, NEW m \in Sources,
         NEW explicit \in BOOLEAN, Request(c, m, explicit)
  PROVE  WaitInv' /\ Holds
<1>1. slot' = slot /\ Typed
  BY DEF Request, WaitAssumptions
<1>2. CASE QueueIfRunning(m)
  <2>1. SupKept /\ Waits /\ Holds /\ (faults' = 0 => faults = 0)
    BY <1>1, <1>2, QueueKeeps, QueueWaits, QueueGrows DEF Typed
  <2>2. QED
    BY <1>1, <2>1, CalmWait
<1>3. CASE UNCHANGED <<pending, status, supVars, faults>>
  <2>1. SupKept /\ Waits /\ Holds
    BY <1>1, <1>3, StaysKept, QuietWaits
  <2>2. QED
    BY <1>1, <1>3, <2>1, CalmWait
<1>4. QED
  BY <1>2, <1>3 DEF Request

LEMMA RecheckWait ==
  ASSUME WaitAssumptions, QueueInv', NEW c \in Callers, Recheck(c)
  PROVE  WaitInv' /\ Holds
<1>1. slot' = slot /\ Typed /\ call[c].kind \in Sources
  BY DEF Recheck, WaitAssumptions, Typed, Asked
<1>2. CASE QueueIfRunning(call[c].kind)
  <2>1. SupKept /\ Waits /\ Holds /\ (faults' = 0 => faults = 0)
    BY <1>1, <1>2, QueueKeeps, QueueWaits, QueueGrows DEF Typed
  <2>2. QED
    BY <1>1, <2>1, CalmWait
<1>3. CASE Repair
  <2>1. SupKept /\ Waits /\ Holds /\ (faults' = 0 => faults = 0)
    BY <1>1, <1>3, RepairKeeps, RepairWaits, RepairGrows DEF Typed
  <2>2. QED
    BY <1>1, <2>1, CalmWait
<1>4. CASE UNCHANGED <<pending, status, supVars, faults>>
  <2>1. SupKept /\ Waits /\ Holds
    BY <1>1, <1>4, StaysKept, QuietWaits
  <2>2. QED
    BY <1>1, <1>4, <2>1, CalmWait
<1>5. QED
  BY <1>2, <1>3, <1>4 DEF Recheck

LEMMA PublishWait ==
  ASSUME WaitAssumptions, QueueInv', NEW c \in Callers, Publish(c)
  PROVE  WaitInv' /\ Holds
<1>1. slot' = slot /\ Typed /\ call[c].kind \in Sources
  BY DEF Publish, WaitAssumptions, Typed, Asked
<1>2. Waits /\ Holds
  BY <1>1, PublishWaits
<1>3. SupKept /\ (faults' = 0 => faults = 0)
  <2>1. CASE Orphaned /\ sup' = "none" /\ UNCHANGED <<job, unsure, faults>>
    BY <1>1, <2>1 DEF Orphaned, SupKept, Typed, TypeOK
  <2>2. CASE UNCHANGED <<supVars, faults>>
    BY <1>1, <2>2, StaysKept
  <2>3. CASE QueueIfRunning(call[c].kind) \/ Recover(slot)
    BY <1>1, <2>3, QueueKeeps, RecoverKeeps, QueueGrows, RecoverGrows DEF Typed
  <2>4. QED
    BY <2>1, <2>2, <2>3 DEF Publish
<1>4. QED
  BY <1>1, <1>2, <1>3, CalmWait

LEMMA PollWait ==
  ASSUME WaitAssumptions, QueueInv', StatusPoll
  PROVE  WaitInv' /\ Holds
<1>1. slot' = slot /\ Typed /\ Repair
  BY DEF StatusPoll, WaitAssumptions
<1>2. SupKept /\ Waits /\ Holds /\ (faults' = 0 => faults = 0)
  BY <1>1, RepairKeeps, RepairWaits, RepairGrows DEF Typed
<1>3. QED
  BY <1>1, <1>2, CalmWait

(* The match job is in no queue, and its state is nobody's queue.          *)
LEMMA OtherWait ==
  ASSUME WaitAssumptions, QueueInv',
         \/ \E c \in Callers : Admit(c) \/ AdmitMatch(c) \/ RequestMatch(c) \/ PublishMatch(c)
         \/ \E g \in Gens : ChildExits(g)
         \/ UNCHANGED vars
  PROVE  WaitInv' /\ Holds
<1>1. slot' = slot /\ pending' = pending /\ UNCHANGED <<supVars, faults>> /\ Typed
  BY DEF Admit, AdmitMatch, RequestMatch, PublishMatch, ChildExits, vars, supVars, WaitAssumptions
<1>2. \A m \in Sources : status'[m] = status[m]
  <2>1. CASE status' = status
    BY <2>1
  <2>2. CASE \E s : Set(Match, s)
    BY <1>1, <2>2, SetIs, KindsAssumption DEF Kinds
  <2>3. QED
    BY <2>1, <2>2 DEF Admit, AdmitMatch, RequestMatch, PublishMatch, ChildExits, vars
<1>3. SupKept /\ Waits /\ Holds
  BY <1>1, <1>2, StaysKept DEF Waits, Holds
<1>4. QED
  BY <1>1, <1>3, CalmWait

(* A launch takes an empty slot, and leaves the queue as it is.            *)
LEMMA LaunchWait ==
  ASSUME WaitAssumptions, NEW c \in Callers, LaunchSource(c) \/ LaunchMatch(c)
  PROVE  WaitInv' /\ Holds
<1>1. pending' = pending /\ status' = status /\ Typed
  BY DEF LaunchSource, LaunchMatch, WaitAssumptions
<1>2. Holds
  BY <1>1, QuietWaits
<1>3. CASE UNCHANGED <<slot, child, supVars>> /\ (faults' = 0 => faults = 0)
  <2>1. slot' = slot /\ sup' = sup /\ job' = job
    BY <1>3 DEF supVars
  <2>2. faults' = 0 => QueuedIsReal'
    BY <1>1, <1>3, <2>1 DEF WaitAssumptions, WaitInv, QueuedIsReal
  <2>3. QED
    BY <1>1, <1>2, <2>1, <2>2 DEF WaitAssumptions, WaitInv
<1>4. ASSUME NEW m \in Kinds, Launch(m), Recover(slot'), slot = NoSlot
      PROVE  WaitInv'
  <2>1. SupKept /\ (faults' = 0 => faults = 0)
    BY <1>1, <1>4, RecoverKeeps, RecoverGrows DEF Typed
  <2>2. sup \notin Supervised
    BY <1>4 DEF WaitAssumptions, SlotInv, Watched
  <2>3. sup' # "release"
    BY <2>1, <2>2 DEF SupKept, Supervised
  <2>4. sup' \notin Promoting => job'.next = ""
    BY <2>1 DEF WaitAssumptions, WaitInv, SupKept, SupAlive, SupSteps, Promoting
  <2>5. ASSUME faults' = 0 PROVE QueuedIsReal'
    <3>1. QueuedIsReal /\ \A k \in Sources : slot.kind # k
      BY <1>4, <2>1, <2>5, KindsAssumption DEF WaitAssumptions, WaitInv, NoSlot
    <3>2. QED
      BY <1>1, <2>1, <3>1 DEF QueuedIsReal, SupKept
  <2>6. QED
    BY <2>3, <2>4, <2>5 DEF WaitInv
<1>5. LaunchSource(c) => slot = NoSlot /\ call[c].kind \in Kinds
  BY DEF LaunchSource, WaitAssumptions, SlotInv, LaunchFree, Typed, Asked, Kinds
<1>6. LaunchMatch(c) /\ ~SlotTaken => slot = NoSlot /\ Match \in Kinds
  BY DEF SlotTaken, Kinds
<1>7. Fault => (faults' = 0 => faults = 0)
  BY <1>1, FaultGrows DEF Typed
<1>8. QED
  BY <1>2, <1>3, <1>4, <1>5, <1>6, <1>7 DEF LaunchSource, LaunchMatch, supVars

(* Between its release and its promotion of the next source the supervisor *)
(* has no source of its own.                                               *)
LEMMA SupInnerWait ==
  ASSUME WaitAssumptions,
         \/ SupRead \/ SupWait \/ SupWaitUncertain \/ SupSignal \/ SupReapSignalled
         \/ SupUnconfirmed \/ SupBackoff \/ SupRecord \/ SupIdle \/ SupAdmit
  PROVE  WaitInv' /\ Holds
<1>1. slot' = slot /\ pending' = pending /\ status' = status /\ Typed
  BY DEF WaitAssumptions, SupRead, SupWait, SupWaitUncertain, SupSignal, SupReapSignalled,
     SupUnconfirmed, SupBackoff, SupRecord, SupIdle, SupAdmit
<1>2. sup' # "release"
  BY DEF SupRead, SupWait, SupWaitUncertain, SupSignal, SupReapSignalled,
     SupUnconfirmed, SupBackoff, SupRecord, SupIdle, SupAdmit, Reaped, SupGo, SupDies
<1>3. job'.next = job.next
  <2>1. job'.next = job.next \/ (job'.next = "" /\ sup \notin Promoting)
    <3>1. CASE job' = job
      BY <3>1
    <3>2. CASE job' = NoJob /\ sup = "record"
      BY <3>2 DEF NoJob, Promoting
    <3>3. CASE SupRead
      BY <3>3 DEF SupRead, NoJob, Promoting
    <3>4. CASE \/ \E r : job' = [job EXCEPT !.result = r]
               \/ \E l : job' = [job EXCEPT !.waitLost = l]
               \/ \E a : job' = [job EXCEPT !.admitted = a]
      BY <1>1, <3>4 DEF Typed, TypeOK, Job
    <3>5. QED
      BY <3>1, <3>2, <3>3, <3>4
      DEF SupWait, SupWaitUncertain, SupSignal, SupReapSignalled, Reaped,
          SupUnconfirmed, SupBackoff, SupRecord, SupDies, SupIdle, SupAdmit
  <2>2. QED
    BY <2>1 DEF WaitAssumptions, WaitInv
<1>4. sup' \notin Promoting => sup \notin Promoting
  BY DEF SupRead, SupWait, SupWaitUncertain, SupSignal, SupReapSignalled, Promoting,
     SupUnconfirmed, SupBackoff, SupRecord, SupIdle, SupAdmit, Reaped, SupGo, SupDies
<1>5. faults' = 0 => faults = 0
  BY <1>1, FaultGrows DEF Typed, SupRead, SupWait, SupWaitUncertain, SupSignal, SupReapSignalled,
     SupUnconfirmed, SupBackoff, SupRecord, SupIdle, SupAdmit
<1>6. WaitInv'
  BY <1>1, <1>2, <1>3, <1>4, <1>5 DEF WaitAssumptions, WaitInv, QueuedIsReal
<1>7. QED
  BY <1>1, <1>6, QuietWaits

LEMMA SupPublishWait ==
  ASSUME WaitAssumptions, SupPublish
  PROVE  WaitInv' /\ Holds
<1>1. /\ slot' = slot /\ pending' = pending /\ job' = job /\ sup = "publish" /\ sup' = "release"
      /\ Typed /\ job.kind = slot.kind /\ job.kind \in Kinds
  BY DEF WaitAssumptions, SupPublish, SupGo, ReportInv, Supervised, Typed, Asked
<1>2. PICK s : Set(job.kind, s) /\ s # "QUEUED"
  BY DEF SupPublish, ExitStatus
<1>3. status'[job.kind] = s /\ \A k \in Kinds : k # job.kind => status'[k] = status[k]
  BY <1>1, <1>2, SetIs
<1>4. faults' = 0 => faults = 0
  BY <1>1, FaultGrows DEF SupPublish, Typed
<1>5. job.next = ""
  BY <1>1 DEF WaitAssumptions, WaitInv, Promoting
<1>6. \A m \in Sources : sup' = "release" /\ slot'.kind = m => status'[m] # "QUEUED"
  BY <1>1, <1>2, <1>3
<1>7. faults' = 0 => QueuedIsReal'
  BY <1>1, <1>2, <1>3, <1>4 DEF WaitAssumptions, WaitInv, QueuedIsReal, Kinds
<1>8. WaitInv'
  BY <1>1, <1>5, <1>6, <1>7 DEF WaitInv
<1>9. ~InQueue(pending', job.kind)
  BY <1>1 DEF WaitAssumptions, QueueInv, NoDoubleWork
<1>10. QED
  BY <1>1, <1>3, <1>8, <1>9 DEF Holds, Kinds

(* What leaves the slot has been published, and what leaves the queue is   *)
(* promoted.                                                               *)
LEMMA SupReleaseWait ==
  ASSUME WaitAssumptions, SupRelease
  PROVE  WaitInv' /\ Holds
<1>1. /\ sup = "release" /\ status' = status /\ faults' = faults /\ Typed
      /\ slot' = NoSlot /\ sup' \in {"idle", "admit"}
  BY DEF WaitAssumptions, SupRelease, SupGo, SlotInv, Watched, Supervised
<1>2. Holds
  BY <1>1 DEF Holds
<1>3. sup' \notin Promoting => job'.next = ""
  <2>1. CASE pending = <<>>
    <3>1. job' = NoJob
      BY <2>1 DEF SupRelease
    <3>2. QED
      BY <3>1 DEF NoJob
  <2>2. CASE pending # <<>>
    <3>1. sup' = "admit"
      BY <2>2 DEF SupRelease, SupGo
    <3>2. QED
      BY <3>1 DEF Promoting
  <2>3. QED
    BY <2>1, <2>2
<1>4. job.next = "" /\ \A m \in Sources : slot.kind = m => status[m] # "QUEUED"
  BY <1>1 DEF WaitAssumptions, WaitInv, Promoting
<1>5. \A m \in Sources : InQueue(pending, m) => InQueue(pending', m) \/ job'.next = m
  <2>1. CASE pending = <<>>
    BY <2>1, EmptyQueue
  <2>2. CASE pending # <<>>
    <3>1. pending' = Tail(pending) /\ job'.next = Head(pending)
      BY <2>2 DEF SupRelease, NoJob
    <3>2. QED
      BY <1>1, <2>2, <3>1, InTail DEF Typed, TypeOK
  <2>3. QED
    BY <2>1, <2>2
<1>6. ASSUME faults' = 0, NEW m \in Sources, status'[m] = "QUEUED"
      PROVE  InQueue(pending', m) \/ job'.next = m \/ slot'.kind = m
  <2>1. InQueue(pending, m) \/ job.next = m \/ slot.kind = m
    BY <1>1, <1>6 DEF WaitAssumptions, WaitInv, QueuedIsReal
  <2>2. job.next # m
    BY <1>4, KindsAssumption
  <2>3. QED
    BY <1>1, <1>4, <1>5, <1>6, <2>1, <2>2
<1>7. QED
  BY <1>1, <1>2, <1>3, <1>6 DEF WaitInv, QueuedIsReal

LEMMA YieldWait ==
  ASSUME WaitAssumptions, Yield, sup \in Promoting
  PROVE  WaitInv' /\ Holds
<1>1. slot' = slot /\ status' = status /\ faults' = faults /\ sup' = "read" /\ job'.next = "" /\ Typed
  BY DEF WaitAssumptions, Yield, SupGo, NoJob
<1>2. job.next \in Sources
  BY <1>1 DEF Typed, Asked, Promoting
<1>3. \A m \in Sources : InQueue(pending, m) \/ job.next = m => InQueue(pending', m) \/ slot'.kind = m
  <2>1. CASE slot.kind # job.next /\ ~InQueue(pending, job.next)
    <3>1. pending' = <<job.next>> \o pending
      BY <2>1 DEF Yield, PutBack
    <3>2. QED
      BY <1>1, <1>2, <3>1, InPrepended DEF Typed, TypeOK
  <2>2. CASE ~(slot.kind # job.next /\ ~InQueue(pending, job.next))
    <3>1. pending' = pending
      BY <2>2 DEF Yield, PutBack
    <3>2. QED
      BY <1>1, <2>2, <3>1
  <2>3. QED
    BY <2>1, <2>2
<1>4. QED
  BY <1>1, <1>3 DEF WaitAssumptions, WaitInv, QueuedIsReal, Holds

LEMMA SupOccupiedWait ==
  ASSUME WaitAssumptions, SupOccupied
  PROVE  WaitInv' /\ Holds
<1>1. CASE Yield
  BY <1>1, YieldWait DEF SupOccupied, Promoting
<1>2. CASE UNCHANGED <<slot, pending, status, job, faults>> /\ sup' \in {"launch", "hold"}
  BY <1>2 DEF WaitAssumptions, WaitInv, QueuedIsReal, Holds, Promoting
<1>3. QED
  BY <1>1, <1>2 DEF SupOccupied, SupGo

LEMMA SupLaunchWait ==
  ASSUME WaitAssumptions, SupLaunch
  PROVE  WaitInv' /\ Holds
<1>1. pending' = pending /\ sup = "launch" /\ Typed /\ job.next \in Sources
  BY DEF WaitAssumptions, SupLaunch, Typed, Asked
<1>2. slot = NoSlot /\ \A m \in Sources : slot.kind # m
  <2>1. slot = NoSlot
    BY <1>1 DEF WaitAssumptions, SlotInv, LaunchFree
  <2>2. slot.kind = ""
    BY <2>1 DEF NoSlot
  <2>3. QED
    BY <2>1, <2>2, KindsAssumption
<1>3. CASE Launch(job.next) /\ Set(job.next, "RUNNING") /\ sup' = "read" /\ job' = NoJob /\ faults' = faults
  <2>1. job.next \in Kinds
    BY <1>1 DEF Kinds
  <2>2. /\ status'[job.next] = "RUNNING" /\ \A k \in Kinds : k # job.next => status'[k] = status[k]
    BY <1>1, <1>3, <2>1, SetIs
  <2>3. Holds
    BY <2>2 DEF Holds, Kinds
  <2>4. faults' = 0 => QueuedIsReal'
    BY <1>1, <1>2, <1>3, <2>2 DEF WaitAssumptions, WaitInv, QueuedIsReal, Kinds
  <2>5. job'.next = ""
    BY <1>3 DEF NoJob
  <2>6. QED
    BY <1>3, <2>3, <2>4, <2>5 DEF WaitInv
<1>4. CASE sup' = "hold" /\ UNCHANGED <<slot, status, job, faults>>
  BY <1>1, <1>4 DEF WaitAssumptions, WaitInv, QueuedIsReal, Holds, Promoting
<1>5. CASE Fault /\ SupDies /\ UNCHANGED <<slot, status>>
  BY <1>1, <1>5, FaultGrows DEF Typed, WaitInv, SupDies, NoJob, Holds
<1>6. QED
  BY <1>3, <1>4, <1>5 DEF SupLaunch, SupGo

LEMMA SupHoldWait ==
  ASSUME WaitAssumptions, SupHold
  PROVE  WaitInv' /\ Holds
<1>1. CASE Yield
  BY <1>1, YieldWait DEF SupHold, Promoting
<1>2. CASE ~Yield
  <2>1. /\ slot = NoSlot /\ slot' = NoSlot /\ pending' = <<>> /\ status' = Held(Queued \cup {job.next})
        /\ sup' = "none" /\ job'.next = "" /\ faults' = faults /\ Typed
    <3>1. job' = NoJob /\ slot = NoSlot /\ slot' = slot /\ sup' = "none" /\ faults' = faults
      BY <1>2 DEF SupHold, SupGo
    <3>2. job'.next = ""
      BY <3>1 DEF NoJob
    <3>3. QED
      BY <1>2, <3>1, <3>2 DEF SupHold, WaitAssumptions
  <2>2. Waits /\ Holds
    BY <2>1, HeldWaits
  <2>3. status'[job.next] # "QUEUED" \/ job.next \notin Sources
    BY <2>1 DEF Held, Kinds
  <2>4. \A m \in Sources : slot.kind # m
    BY <2>1, KindsAssumption DEF NoSlot
  <2>5. faults' = 0 => QueuedIsReal'
    BY <2>1, <2>2, <2>3, <2>4, EmptyQueue DEF WaitAssumptions, WaitInv, QueuedIsReal, Waits
  <2>6. QED
    BY <2>1, <2>2, <2>5 DEF WaitInv
<1>3. QED
  BY <1>1, <1>2

LEMMA NextWait ==
  ASSUME WaitAssumptions, [Next]_vars
  PROVE  WaitInv' /\ Holds
<1>1. QueueInv'
  BY NextQueue DEF WaitAssumptions
<1>2. ASSUME NEW c \in Callers, NEW m \in Sources, NEW explicit \in BOOLEAN,
             Request(c, m, explicit)
      PROVE  WaitInv' /\ Holds
  BY <1>1, <1>2, RequestWait
<1>3. ASSUME NEW c \in Callers, RequestMatch(c) \/ Proceed(c) PROVE WaitInv' /\ Holds
  BY <1>1, <1>3, OtherWait, RecheckWait, LaunchWait, PublishWait DEF Proceed
<1>4. CASE StatusPoll
  BY <1>1, <1>4, PollWait
<1>5. CASE Supervise
  BY <1>5, SupInnerWait, SupPublishWait, SupReleaseWait, SupOccupiedWait, SupLaunchWait,
     SupHoldWait DEF Supervise
<1>6. CASE (\E g \in Gens : ChildExits(g)) \/ UNCHANGED vars
  BY <1>1, <1>6, OtherWait
<1>7. QED
  BY <1>2, <1>3, <1>4, <1>5, <1>6 DEF Next

LEMMA WaitInvariant == Spec => [](Typed /\ SlotInv /\ QueueInv /\ ReportInv /\ WaitInv)
<1>1. Init => QueueInv
  BY EmptyQueue DEF Init, QueueInv, NoDoubleWork, Distinct, Promoting
<1>2. Init => ReportInv
  BY DEF Init, ReportInv, Supervised
<1>3. Init => WaitInv
  <2> SUFFICES ASSUME Init PROVE WaitInv
    OBVIOUS
  <2>1. job = NoJob /\ sup = "none" /\ \A m \in Sources : status[m] = "IDLE"
    BY DEF Init, Kinds
  <2>2. job.next = ""
    BY <2>1 DEF NoJob
  <2>3. QueuedIsReal
    BY <2>1 DEF QueuedIsReal
  <2>4. QED
    BY <2>1, <2>2, <2>3 DEF WaitInv
<1>4. Typed /\ SlotInv /\ QueueInv /\ ReportInv /\ WaitInv /\ [Next]_vars => WaitInv'
  BY NextWait DEF WaitAssumptions
<1>5. QED
  BY <1>1, <1>2, <1>3, <1>4, SlotInvariant, NextQueue, NextReport, PTL DEF Spec

(* As long as no wait, thread or launch has failed, a source is shown as   *)
(* QUEUED only while somebody is going to start it.                        *)
THEOREM QueuedIsRealHolds == Spec => [](faults = 0 => QueuedIsReal)
<1>1. WaitInv => (faults = 0 => QueuedIsReal)
  BY DEF WaitInv
<1>2. QED
  BY <1>1, WaitInvariant, PTL

(* A decision to hold that arrives late never overwrites what a worker or  *)
(* the queue has made of the source meanwhile, whatever fails.             *)
THEOREM HoldNeverStaleHolds == Spec => HoldNeverStale
<1>1. Typed /\ SlotInv /\ QueueInv /\ ReportInv /\ WaitInv /\ [Next]_vars
        => [\A m \in Sources : status[m] # "HELD" /\ status'[m] = "HELD"
              => ~InQueue(pending', m) /\ (slot.kind = m => sup = "publish")]_vars
  BY NextWait DEF WaitAssumptions, Holds
<1>2. QED
  BY <1>1, WaitInvariant, PTL DEF Spec, HoldNeverStale

(* Both, for any number of callers, sources and children, where the        *)
(* operating system does not fail: a supervisor that dies in a launch      *)
(* forgets the source it had taken from the queue, which stays QUEUED.     *)
THEOREM WaitingIsShownHolds ==
  ASSUME MaxFaults = 0
  PROVE  Spec => WaitingIsShown
<1>1. TypeOK => faults = 0
  BY DEF TypeOK
<1>2. QED
  BY <1>1, TypeCorrect, QueuedIsRealHolds, HoldNeverStaleHolds, PTL DEF WaitingIsShown

=============================================================================
