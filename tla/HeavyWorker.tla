----------------------------- MODULE HeavyWorker -----------------------------
(***************************************************************************)
(* vnext_clean_app: the one slot in which the web process runs disposable  *)
(* heavy children (shopping, budget, match), its queue of waiting sources, *)
(* the supervisor thread that reaps the child and promotes the queue, and  *)
(* the callers (HTTP handlers, the automatic scheduler) that request work. *)
(*                                                                         *)
(* One action is one critical section of _ISOLATED_HEAVY_LOCK, or the code *)
(* between two of them.  _ISOLATED_HEAVY_LAUNCH_LOCK is held across        *)
(* several actions and is a variable.  Operating system faults (a wait or  *)
(* poll that fails, a thread that does not start, a supervisor that dies   *)
(* of an unexpected exception) are bounded by MaxFaults.                   *)
(*                                                                         *)
(* A definition named X_Bug is a deliberately wrong variant of X that no   *)
(* action uses: put in the place of X it must break a property below.      *)
(***************************************************************************)
EXTENDS Integers, Sequences, FiniteSets

CONSTANTS
  Callers,     \* threads that request work
  Operators,   \* those on which operator_retry may be set; the scheduler never sets it
  Sources,     \* "shopping" and "budget"
  Match,       \* the match job, which never waits in the queue
  MaxGens,     \* bound on the children launched
  MaxFaults    \* bound on operating system faults

ASSUME CallersAssumption ==
  IsFiniteSet(Callers) /\ "free" \notin Callers /\ "supervisor" \notin Callers
ASSUME OperatorsAssumption == Operators \subseteq Callers
ASSUME KindsAssumption ==
  /\ Match \notin Sources
  /\ "" \notin Sources \cup {Match}
ASSUME BoundsAssumption == MaxGens \in Nat /\ MaxFaults \in Nat

VARIABLES
  slot,        \* _ISOLATED_HEAVY_PROCESS and _ISOLATED_HEAVY_KIND
  child,       \* the operating system's view of every child launched
  pending,     \* _ISOLATED_HEAVY_PENDING
  launchLock,  \* holder of _ISOLATED_HEAVY_LAUNCH_LOCK
  status,      \* the published run state of each kind
  sup,         \* where the supervisor thread is; "dead" when its reference is stale
  job,         \* process, kind, result and next_mode of the supervisor
  unsure,      \* its uncertain_process, signal cooldown and emergency flags
  at,          \* where each caller is
  call,        \* what it asked for and what it was told
  faults       \* operating system faults so far

vars == <<slot, child, pending, launchLock, status, sup, job, unsure, at, call, faults>>
callerVars == <<at, call>>
supVars == <<sup, job, unsure>>

-----------------------------------------------------------------------------
Kinds == Sources \cup {Match}
Gens == 1..MaxGens
Free == "free"
SupLock == "supervisor"

Slot == [kind : Kinds \cup {""}, gen : 0..MaxGens]
NoSlot == [kind |-> "", gen |-> 0]

(* A child still runs, exited with code 0, or exited in any other way; its *)
(* Popen object is dropped with the slot.                                  *)
ChildStates == {"unborn", "running", "ok", "quit", "dropped"}
Exited(g) == child[g] \in {"ok", "quit"}
Launched == {g \in Gens : child[g] # "unborn"}

(* HELD is WAITING_MEMORY; ENDED any other outcome a child reports itself. *)
Statuses == {"IDLE", "RUNNING", "QUEUED", "COMPLETE", "HELD", "ENDED"}

SupSteps == {"read", "watch", "signalled", "backoff", "record", "publish", "release",
             "idle", "admit", "occupied", "launch", "hold"}
SupAlive == sup \in SupSteps

Job == [gen : 0..MaxGens, kind : Kinds \cup {""}, result : {"", "ok", "quit", "held"},
        next : Sources \cup {""}, admitted : BOOLEAN, waitLost : BOOLEAN]
NoJob == [gen |-> 0, kind |-> "", result |-> "", next |-> "", admitted |-> FALSE,
          waitLost |-> FALSE]

(* uncertain_process, monotonic() < next_signal_at, the emergency flags    *)
(* and how many signals went out inside a cooldown.                        *)
Unsure == [gen : 0..MaxGens, cooling : BOOLEAN, urgent : {"no", "pending", "used"},
           early : 0..2]
Certain == [gen |-> 0, cooling |-> FALSE, urgent |-> "no", early |-> 0]

Call == [kind : Kinds \cup {""}, explicit : BOOLEAN,
         reply : {"", "STARTED", "QUEUED", "HOLD"}]
NoCall == [kind |-> "", explicit |-> FALSE, reply |-> ""]

InQueue(q, m) == \E i \in DOMAIN q : q[i] = m

TypeOK ==
  /\ slot \in Slot
  /\ child \in [Gens -> ChildStates]
  /\ pending \in Seq(Sources)
  /\ launchLock \in Callers \cup {Free, SupLock}
  /\ status \in [Kinds -> Statuses]
  /\ sup \in SupSteps \cup {"none", "dead"}
  /\ job \in Job
  /\ unsure \in Unsure
  /\ at \in [Callers -> {"idle", "admit", "recheck", "launch", "publish",
                         "matchAdmit", "matchLaunch", "matchPublish"}]
  /\ call \in [Callers -> Call]
  /\ faults \in 0..MaxFaults

Init ==
  /\ slot = NoSlot
  /\ child = [g \in Gens |-> "unborn"]
  /\ pending = <<>>
  /\ launchLock = Free
  /\ status = [m \in Kinds |-> "IDLE"]
  /\ sup = "none"
  /\ job = NoJob
  /\ unsure = Certain
  /\ at = [c \in Callers |-> "idle"]
  /\ call = [c \in Callers |-> NoCall]
  /\ faults = 0

Fault == faults < MaxFaults /\ faults' = faults + 1

-----------------------------------------------------------------------------
(* The child.                                                              *)

(* It finishes by itself, is killed by the kernel, or obeys a signal.      *)
ChildExits(g) ==
  /\ child[g] = "running"
  /\ \E how \in {"ok", "quit"} : child' = [child EXCEPT ![g] = how]
  /\ UNCHANGED <<slot, pending, launchLock, status, supVars, callerVars, faults>>

(* Popen under _ISOLATED_HEAVY_LOCK.                                       *)
Launch(m) ==
  \E g \in Gens :
    /\ g = Cardinality(Launched) + 1
    /\ child' = [child EXCEPT ![g] = "running"]
    /\ slot' = [kind |-> m, gen |-> g]

(* _recover_unreaped_isolated_child_locked: attach a supervisor to a child *)
(* that has none.  The thread may not start, or the attempt is refused     *)
(* within five seconds of the last one.                                    *)
Attach ==
  /\ UNCHANGED <<job, unsure>>
  /\ \/ sup' = "read" /\ UNCHANGED faults
     \/ Fault /\ sup' = "none"

Recover_Bug(s) ==                                \* a dead reference counts as alive
  IF s # NoSlot /\ sup = "none" THEN Attach ELSE UNCHANGED <<supVars, faults>>
Recover(s) ==
  IF s # NoSlot /\ ~SupAlive THEN Attach ELSE UNCHANGED <<supVars, faults>>

Held(ms) == [m \in Kinds |-> IF m \in ms THEN "HELD" ELSE status[m]]
Queued == {pending[i] : i \in DOMAIN pending}

ReleaseOrphans_Bug == UNCHANGED <<pending, status>>    \* the dead queue is kept
(* _reconcile_dead_isolated_supervisor_locked: a queue nobody will promote *)
(* is given back as a resumable memory hold.                               *)
ReleaseOrphans == pending' = <<>> /\ status' = Held(Queued)

Orphaned == slot = NoSlot /\ ~SupAlive /\ ~(sup = "none" /\ pending = <<>>)

(* The common head of every queue decision and of the status poll.         *)
Repair ==
  IF Orphaned
  THEN ReleaseOrphans /\ sup' = "none" /\ UNCHANGED <<job, unsure, faults>>
  ELSE Recover(slot) /\ UNCHANGED <<pending, status>>

(* _queue_isolated_source_if_running_locked: what it answers, and the      *)
(* queue and status it leaves.                                             *)
Answer(m) ==
  IF ~Orphaned /\ InQueue(pending, m) THEN "ALREADY"
  ELSE IF slot = NoSlot THEN ""
  ELSE IF slot.kind = m THEN "ALREADY"
  ELSE "QUEUED"

QueueIfRunning(m) ==
  IF Answer(m) = "QUEUED"
  THEN Recover(slot) /\ pending' = Append(pending, m) /\ UNCHANGED status
  ELSE Repair

-----------------------------------------------------------------------------
(* A caller of schedule_manual_collection.                                 *)

(* operator_retry is read for the last time in the second section.         *)
Tell(c, step, reply) ==
  /\ at' = [at EXCEPT ![c] = step]
  /\ call' = [call EXCEPT ![c].reply = reply, ![c].explicit = @ /\ step = "recheck"]

Return(c) ==
  /\ at' = [at EXCEPT ![c] = "idle"]
  /\ call' = [call EXCEPT ![c] = NoCall]

Busy == slot # NoSlot \/ pending # <<>>

(* First section: an explicit retry is refused while anything is going on, *)
(* any other request is queued behind a running child without asking for   *)
(* memory.                                                                 *)
Request(c, m, explicit) ==
  /\ at[c] = "idle"
  /\ explicit => c \in Operators
  /\ UNCHANGED <<slot, child, launchLock>>
  /\ \/ /\ explicit /\ Busy
        /\ at' = [at EXCEPT ![c] = "publish"]
        /\ call' = [call EXCEPT ![c] = [kind |-> m, explicit |-> FALSE, reply |-> "HOLD"]]
        /\ UNCHANGED <<pending, status, supVars, faults>>
     \/ /\ ~(explicit /\ Busy)
        /\ QueueIfRunning(m)
        /\ \/ Answer(m) = "ALREADY" /\ UNCHANGED callerVars
           \/ /\ Answer(m) = "QUEUED"
              /\ at' = [at EXCEPT ![c] = "publish"]
              /\ call' = [call EXCEPT ![c] =
                            [kind |-> m, explicit |-> FALSE, reply |-> "QUEUED"]]
           \/ /\ Answer(m) = ""
              /\ at' = [at EXCEPT ![c] = "admit"]
              /\ call' = [call EXCEPT ![c] =
                            [kind |-> m, explicit |-> explicit, reply |-> ""]]

(* _isolated_worker_admission_ok under the launch lock, the other lock     *)
(* being free.                                                             *)
Admit(c) ==
  /\ at[c] = "admit" /\ launchLock = Free
  /\ UNCHANGED <<slot, child, pending, status, supVars, faults>>
  /\ \/ launchLock' = c /\ Tell(c, "recheck", "")
     \/ UNCHANGED launchLock /\ Tell(c, "publish", "HOLD")

RecheckAnswer_Bug(m) == ""                       \* the slot is not looked at again
RecheckAnswer(m) == Answer(m)

(* Second section, after the slow memory probe; then the durable launch    *)
(* reservation, which may be refused.                                      *)
Recheck(c) ==
  LET m == call[c].kind
  IN  /\ at[c] = "recheck"
      /\ UNCHANGED <<slot, child>>
      /\ \/ /\ call[c].explicit /\ Busy
            /\ Tell(c, "publish", "HOLD") /\ launchLock' = Free
            /\ UNCHANGED <<pending, status, supVars, faults>>
         \/ /\ ~(call[c].explicit /\ Busy) /\ RecheckAnswer(m) = "ALREADY"
            /\ QueueIfRunning(m) /\ Return(c) /\ launchLock' = Free
         \/ /\ ~(call[c].explicit /\ Busy) /\ RecheckAnswer(m) = "QUEUED"
            /\ QueueIfRunning(m) /\ Tell(c, "publish", "QUEUED") /\ launchLock' = Free
         \/ /\ ~(call[c].explicit /\ Busy) /\ RecheckAnswer(m) = ""
            /\ Repair
            /\ \/ Tell(c, "launch", "") /\ UNCHANGED launchLock
               \/ Tell(c, "publish", "HOLD") /\ launchLock' = Free

(* Third section: Popen, and a supervisor for the child.  An OSError is a  *)
(* HOLD; any other exception (no memory) ends the request unpublished.     *)
LaunchSource(c) ==
  /\ at[c] = "launch"
  /\ launchLock' = Free
  /\ UNCHANGED <<pending, status>>
  /\ \/ Launch(call[c].kind) /\ Recover(slot') /\ Tell(c, "publish", "STARTED")
     \/ Tell(c, "publish", "HOLD") /\ UNCHANGED <<slot, child, supVars, faults>>
     \/ Fault /\ Return(c) /\ UNCHANGED <<slot, child, supVars>>

Set(m, s) == status' = [status EXCEPT ![m] = s]

HoldAnswer_Bug(m) == ""                          \* a stale HOLD is published as it is
HoldAnswer(m) == Answer(m)

(* Last section: only what is still true is published.                     *)
Publish(c) ==
  LET m == call[c].kind
  IN  /\ at[c] = "publish"
      /\ Return(c)
      /\ UNCHANGED <<slot, child, launchLock>>
      /\ \/ /\ call[c].reply = "STARTED"
            /\ IF slot.kind = m THEN Set(m, "RUNNING") ELSE UNCHANGED status
            /\ UNCHANGED <<pending, supVars, faults>>
         \/ /\ call[c].reply = "QUEUED"
            /\ IF InQueue(pending, m) THEN Set(m, "QUEUED") ELSE UNCHANGED status
            /\ UNCHANGED <<pending, supVars, faults>>
         \/ /\ call[c].reply = "HOLD" /\ HoldAnswer(m) = "ALREADY"
            /\ QueueIfRunning(m)
         \/ /\ call[c].reply = "HOLD" /\ HoldAnswer(m) = "QUEUED"
            /\ Recover(slot) /\ pending' = Append(pending, m) /\ Set(m, "QUEUED")
         \/ /\ call[c].reply = "HOLD" /\ HoldAnswer(m) = ""
            /\ IF Orphaned
               THEN pending' = <<>> /\ sup' = "none" /\ status' = Held(Queued \cup {m})
                    /\ UNCHANGED <<job, unsure, faults>>
               ELSE Recover(slot) /\ Set(m, "HELD") /\ UNCHANGED pending

-----------------------------------------------------------------------------
(* A caller of schedule_match_rollover: no queue, and its state is         *)
(* published after the locks are released.                                 *)

RequestMatch(c) ==
  /\ at[c] = "idle"
  /\ at' = [at EXCEPT ![c] = "matchAdmit"]
  /\ call' = [call EXCEPT ![c].kind = Match]
  /\ UNCHANGED <<slot, child, pending, launchLock, status, supVars, faults>>

AdmitMatch(c) ==
  /\ at[c] = "matchAdmit" /\ launchLock = Free
  /\ UNCHANGED <<slot, child, pending, status, supVars, faults>>
  /\ \/ launchLock' = c /\ Tell(c, "matchLaunch", "")
     \/ UNCHANGED launchLock /\ Tell(c, "matchPublish", "HOLD")

SlotTaken_Bug == FALSE                           \* match does not look at the slot
SlotTaken == slot # NoSlot

LaunchMatch(c) ==
  /\ at[c] = "matchLaunch"
  /\ launchLock' = Free
  /\ UNCHANGED <<pending, status>>
  /\ \/ ~SlotTaken /\ Launch(Match) /\ Recover(slot') /\ Tell(c, "matchPublish", "STARTED")
     \/ Tell(c, "matchPublish", "HOLD") /\ UNCHANGED <<slot, child, supVars, faults>>

PublishMatch(c) ==
  /\ at[c] = "matchPublish"
  /\ Set(Match, IF call[c].reply = "STARTED" THEN "RUNNING" ELSE "HELD")
  /\ Return(c)
  /\ UNCHANGED <<slot, child, pending, launchLock, supVars, faults>>

(* _isolated_heavy_worker_status: the dashboard and the automatic          *)
(* scheduler poll it once a second.                                        *)
StatusPoll ==
  /\ Repair
  /\ UNCHANGED <<slot, child, launchLock, callerVars>>

-----------------------------------------------------------------------------
(* The supervisor thread.                                                  *)

SupGo(step) == sup' = step
SupDies == sup' = "dead" /\ job' = NoJob          \* its local variables go with it

SupRead ==
  /\ sup = "read"
  /\ IF slot = NoSlot
     THEN SupGo("none") /\ UNCHANGED <<job, unsure>>
     ELSE /\ SupGo("watch")
          /\ job' = [NoJob EXCEPT !.gen = slot.gen, !.kind = slot.kind]
          /\ unsure' = IF unsure.gen = slot.gen THEN unsure ELSE Certain
  /\ UNCHANGED <<slot, child, pending, launchLock, status, callerVars, faults>>

(* Exit is confirmed: every uncertainty is forgotten.                      *)
Reaped(result) ==
  /\ job' = [job EXCEPT !.result = result]
  /\ unsure' = Certain
  /\ SupGo("record")

(* wait() returns the exit code.                                           *)
SupWait ==
  /\ sup = "watch" /\ Exited(job.gen)
  /\ Reaped(child[job.gen])
  /\ UNCHANGED <<slot, child, pending, launchLock, status, callerVars, faults>>

UncertainResult_Bug(g) == "ok"                   \* poll()'s substitute code 0 is believed
UncertainResult(g) == "held"

(* wait() fails but poll() sees an exit: never a success.                  *)
SupWaitUncertain ==
  /\ sup \in {"watch", "signalled"} /\ Exited(job.gen)
  /\ Fault
  /\ Reaped(UncertainResult(job.gen))
  /\ UNCHANGED <<slot, child, pending, launchLock, status, callerVars>>

(* An unconfirmed child is rechecked, not signalled, during the cooldown,  *)
(* unless an emergency is pending.                                         *)
MaySignal == unsure.gen = job.gen => ~unsure.cooling \/ unsure.urgent = "pending"

AfterSignal_Bug(u) == [u EXCEPT !.cooling = TRUE]     \* an emergency is never used up
AfterSignal(u) ==
  [u EXCEPT !.cooling = TRUE, !.urgent = IF @ = "pending" THEN "used" ELSE @]

(* The container is short of memory, or wait() keeps failing: terminate,   *)
(* then kill.                                                              *)
SupSignal ==
  /\ sup = "watch" /\ child[job.gen] = "running" /\ MaySignal
  /\ \E lost \in BOOLEAN :
       /\ IF lost THEN Fault ELSE UNCHANGED faults
       /\ job' = [job EXCEPT !.waitLost = lost]
  /\ unsure' = IF unsure.gen # job.gen THEN unsure
               ELSE AfterSignal([unsure EXCEPT !.early = IF unsure.cooling /\ @ < 2
                                                         THEN @ + 1 ELSE @])
  /\ SupGo("signalled")
  /\ UNCHANGED <<slot, child, pending, launchLock, status, callerVars>>

(* A success that raced the signal stays a success; anything else is the   *)
(* parent's memory hold.                                                   *)
SupReapSignalled ==
  /\ sup = "signalled" /\ Exited(job.gen)
  /\ Reaped(IF child[job.gen] = "ok" /\ ~job.waitLost THEN "ok" ELSE "held")
  /\ UNCHANGED <<slot, child, pending, launchLock, status, callerVars, faults>>

(* RuntimeError REAP_UNCONFIRMED: neither wait nor poll can tell.          *)
SupUnconfirmed ==
  /\ \/ sup = "signalled"
     \/ sup = "watch" /\ ~MaySignal
  /\ IF Exited(job.gen) THEN Fault ELSE UNCHANGED faults
  /\ unsure' = IF unsure.gen = job.gen THEN unsure
               ELSE [Certain EXCEPT !.gen = job.gen, !.cooling = TRUE]
  /\ SupGo("backoff")
  /\ UNCHANGED <<slot, child, pending, launchLock, status, job, callerVars>>

(* The backoff watches the container's memory and may ask for one early    *)
(* signal; the cooldown may run out meanwhile.                             *)
SupBackoff ==
  /\ sup = "backoff"
  /\ \E urgent \in {unsure.urgent} \cup (IF unsure.urgent = "no" THEN {"pending"} ELSE {}),
        cooling \in {unsure.cooling, FALSE} :
       unsure' = [unsure EXCEPT !.urgent = urgent, !.cooling = cooling]
  /\ SupGo("read")
  /\ UNCHANGED <<slot, child, pending, launchLock, status, job, callerVars, faults>>

(* record_exit settles the durable launch reservation of a source; an      *)
(* exception nobody catches (a failed print, no memory) ends the thread    *)
(* with the child still in its slot.                                       *)
SupRecord ==
  /\ sup = "record"
  /\ \/ SupGo("publish") /\ UNCHANGED <<job, faults>>
     \/ job.kind \in Sources /\ Fault /\ SupDies
  /\ UNCHANGED <<slot, child, pending, launchLock, status, unsure, callerVars>>

ExitStatus(m, result) ==
  CASE result = "held" -> "HELD"
    [] result = "ok" -> IF m = Match THEN "IDLE" ELSE "COMPLETE"
    [] OTHER -> "ENDED"

(* The terminal state is published while the slot is still reserved, and   *)
(* without the worker lock.                                                *)
SupPublish ==
  /\ sup = "publish"
  /\ \/ Set(job.kind, ExitStatus(job.kind, job.result)) /\ UNCHANGED faults
     \/ Fault /\ Set(job.kind, "HELD")
  /\ SupGo("release")
  /\ UNCHANGED <<slot, child, pending, launchLock, job, unsure, callerVars>>

SupRelease ==
  /\ sup = "release"
  /\ IF slot.gen = job.gen
     THEN slot' = NoSlot /\ child' = [child EXCEPT ![job.gen] = "dropped"]
     ELSE UNCHANGED <<slot, child>>
  /\ IF pending = <<>>
     THEN SupGo("idle") /\ job' = NoJob /\ UNCHANGED pending
     ELSE /\ SupGo("admit")
          /\ job' = [NoJob EXCEPT !.next = Head(pending)]
          /\ pending' = Tail(pending)
  /\ UNCHANGED <<launchLock, status, unsure, callerVars, faults>>

SupIdle ==
  /\ sup = "idle"
  /\ SupGo(IF slot # NoSlot THEN "read" ELSE "none")
  /\ UNCHANGED <<slot, child, pending, launchLock, status, job, unsure, callerVars, faults>>

SupAdmit ==
  /\ sup = "admit" /\ launchLock = Free
  /\ launchLock' = SupLock
  /\ \E ok \in BOOLEAN : job' = [job EXCEPT !.admitted = ok]
  /\ SupGo("occupied")
  /\ UNCHANGED <<slot, child, pending, status, unsure, callerVars, faults>>

PutBack_Bug(m) == pending                        \* the promoted source is forgotten
PutBackAgain_Bug(m) == <<m>> \o pending          \* put back though it runs or waits
PutBack(m) == IF slot.kind # m /\ ~InQueue(pending, m) THEN <<m>> \o pending ELSE pending

(* Somebody launched meanwhile: supervise that child first.                *)
Yield ==
  /\ slot # NoSlot
  /\ pending' = PutBack(job.next)
  /\ SupGo("read")
  /\ job' = NoJob
  /\ UNCHANGED <<slot, child, status, unsure, callerVars, faults>>

SupOccupied ==
  /\ sup = "occupied"
  /\ \/ Yield /\ launchLock' = Free
     \/ /\ slot = NoSlot /\ job.admitted
        /\ SupGo("launch")
        /\ UNCHANGED <<slot, child, pending, launchLock, status, job, unsure, callerVars, faults>>
     \/ /\ slot = NoSlot                         \* not admitted, or no reservation
        /\ SupGo("hold") /\ launchLock' = Free
        /\ UNCHANGED <<slot, child, pending, status, job, unsure, callerVars, faults>>

(* Popen may raise what is not an OSError: the thread ends.                *)
SupLaunch ==
  /\ sup = "launch"
  /\ launchLock' = Free
  /\ UNCHANGED <<pending, unsure, callerVars>>
  /\ \/ /\ Launch(job.next)
        /\ Set(job.next, "RUNNING")
        /\ SupGo("read") /\ job' = NoJob /\ UNCHANGED faults
     \/ SupGo("hold") /\ UNCHANGED <<slot, child, status, job, faults>>
     \/ Fault /\ SupDies /\ UNCHANGED <<slot, child, status>>

(* Nothing can start: every waiting source becomes a resumable hold.       *)
SupHold ==
  /\ sup = "hold"
  /\ UNCHANGED launchLock
  /\ \/ Yield
     \/ /\ slot = NoSlot
        /\ status' = Held(Queued \cup {job.next})
        /\ pending' = <<>>
        /\ SupGo("none") /\ job' = NoJob
        /\ UNCHANGED <<slot, child, unsure, callerVars, faults>>

Supervise ==
  \/ SupRead \/ SupWait \/ SupWaitUncertain \/ SupSignal \/ SupReapSignalled
  \/ SupUnconfirmed \/ SupBackoff \/ SupRecord \/ SupPublish \/ SupRelease
  \/ SupIdle \/ SupAdmit \/ SupOccupied \/ SupLaunch \/ SupHold

Proceed(c) ==
  \/ Admit(c) \/ Recheck(c) \/ LaunchSource(c) \/ Publish(c)
  \/ AdmitMatch(c) \/ LaunchMatch(c) \/ PublishMatch(c)

Next ==
  \/ \E c \in Callers :
       \/ \E m \in Sources, explicit \in BOOLEAN : Request(c, m, explicit)
       \/ RequestMatch(c)
       \/ Proceed(c)
  \/ StatusPoll
  \/ Supervise
  \/ \E g \in Gens : ChildExits(g)

Spec == Init /\ [][Next]_vars

(* Threads that can run do run, children end (signals and the memory guard *)
(* see to it), and somebody looks at the status.  Nobody has to request.   *)
(* A supervisor that waits for the launch lock is not passed over for ever *)
(* by the callers that take it in between.                                 *)
FairSpec ==
  /\ Spec
  /\ WF_vars(Supervise) /\ SF_vars(SupAdmit)
  /\ WF_vars(StatusPoll)
  /\ \A c \in Callers : WF_vars(Proceed(c))
  /\ WF_vars(\E g \in Gens : ChildExits(g))

-----------------------------------------------------------------------------
(* Properties.                                                             *)

(* No child ever runs beside another or outside the slot, whatever the     *)
(* callers, the supervisor and its replacements do: two children would     *)
(* not fit the 256 MiB container, and one outside the slot is never reaped. *)
OneChild == \A g \in Gens : child[g] = "running" => slot.gen = g

(* A source that runs is not also waiting to run, and waits only once.     *)
NoDoubleWork ==
  /\ ~InQueue(pending, slot.kind)
  /\ \A i, j \in DOMAIN pending : pending[i] = pending[j] => i = j

(* QUEUED is shown only for a source somebody is going to start: it waits, *)
(* is being promoted, or its child already holds the slot (unless the      *)
(* supervisor died: the source it had popped stays QUEUED).                *)
QueuedIsReal ==
  \A m \in Sources : status[m] = "QUEUED" => InQueue(pending, m) \/ job.next = m \/ slot.kind = m

(* "No stale HTTP HOLD may overwrite that worker's RUNNING/QUEUED": the    *)
(* source whose child holds the slot is put on hold by its supervisor      *)
(* only, and a source on hold is never left in the queue.                  *)
HoldNeverStale ==
  [][\A m \in Sources : status[m] # "HELD" /\ status'[m] = "HELD"
       => ~InQueue(pending', m) /\ (slot.kind = m => sup = "publish")]_vars

(* Both: what is shown of a waiting source is what the queue says of it.   *)
WaitingIsShown == []QueuedIsReal /\ HoldNeverStale

(* COMPLETE is published only for a child that exited with code 0 and is   *)
(* still in the slot, never from an exit the parent could not confirm or   *)
(* forced itself: it starts the four hour pause of the scheduler.          *)
CompleteIsTrue ==
  [][\A m \in Sources : status[m] # "COMPLETE" /\ status'[m] = "COMPLETE"
       => slot.kind = m /\ child[slot.gen] = "ok"]_vars

(* Of one child's life only the supervisor that reads its exit frees the   *)
(* slot, and only after the exit has been published: a slot never changes  *)
(* hands directly and never while its child runs.                          *)
SlotHandedOver ==
  [][slot' # slot => slot = NoSlot \/ (slot' = NoSlot /\ sup = "release" /\ Exited(slot.gen))]_vars

(* At most one signal goes out inside a cooldown ("Do not turn continuous  *)
(* pressure into a TERM/KILL storm").                                      *)
SignalsSpaced == unsure.early <= 1

(* The scheduler waits for slot, queue and supervisor to be empty before   *)
(* its next cycle (_run_low_memory_automatic_cycle).  That wait ends:      *)
(* every child gives its slot back and every waiting source is started or  *)
(* put on hold, through failed waits and dead supervisors alike.           *)
Drained == slot = NoSlot /\ pending = <<>> /\ ~SupAlive
SchedulerProceeds == ~Drained ~> Drained

=============================================================================
