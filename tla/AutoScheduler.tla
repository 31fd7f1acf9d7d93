---------------------------- MODULE AutoScheduler ----------------------------
(***************************************************************************)
(* The automatic collection scheduler of vnext_clean_app.py: one thread    *)
(* that runs a cycle (_run_low_memory_automatic_cycle), waits until the    *)
(* isolated worker is drained, and sleeps until a deadline or a wake       *)
(* (_wait_for_automatic_collection_refresh).  Modelled in the mode of the  *)
(* production container, where the two sources take turns in slots of two  *)
(* hours.  HeavyWorker models the isolated worker in detail; here it is    *)
(* what the scheduler sees of it: a child, a queue and published states.   *)
(*                                                                         *)
(* Time passes in slots, while the thread sleeps or waits for a child.  An *)
(* event inside a slot is placed at its beginning, so a counter of n slots *)
(* stands for a time above n - 1 and below n + 1 slots.                    *)
(*                                                                         *)
(* A definition named X_Bug is a deliberately wrong variant of X that no   *)
(* action uses: put in the place of X it must break a property below.      *)
(***************************************************************************)
EXTENDS Integers, Sequences, FiniteSets

CONSTANTS
  Outcomes,   \* states a source child may end with
  MaxEvents,  \* bound on key updates and buttons together
  RunSlots    \* bound on the slot boundaries a child may run across

Sources == {"shopping", "budget"}

ASSUME OutcomesAssumption ==
  Outcomes \subseteq {"COMPLETE", "PARTIAL", "FAILED", "LEASE_HELD", "WAITING_KEYS",
                      "WAITING_QUOTA", "WAITING_MEMORY"}
ASSUME BoundsAssumption == MaxEvents \in Nat /\ RunSlots \in Nat

VARIABLES
  turn,         \* the source whose slot it is
  explicitRev,  \* _RECENT_COLLECTION_EXPLICIT_WAKE_REVISION
  terminal,     \* a terminal revision the scheduler has not observed yet
  wake,         \* the event _RECENT_COLLECTION_WAKE
  keyPending,   \* source_stagger_key_wake_pending
  last,         \* source_stagger_last_slot, _source and _explicit_revision
  state,        \* shopping_run_state, budget_run_state
  age,          \* slots since shopping_complete_monotonic
  startedRev,   \* shopping_started_explicit_revision
  completedRev, \* shopping_complete_explicit_revision
  running,      \* kind of the isolated child
  queue,        \* sources queued behind it
  ranFor,       \* slot boundaries that child has run across
  pc,           \* where the scheduler thread is
  cycleRev,     \* cycle_explicit_revision
  obsRev,       \* observed_explicit
  plan,         \* source, key_pending, revision of a cycle, and the worker's answer
  cycleSlot,    \* the slot in the outcome of the cycle: "now", "past" or "none"
  left,         \* slot boundaries left of the sleep
  owed,         \* history: sources with a new key nobody has started since
  auto,         \* history: sources the scheduler has in the worker
  presses       \* buttons pressed so far

wakeVars   == <<explicitRev, terminal, wake, keyPending>>
shoppingVars == <<age, startedRev, completedRev>>
worker     == <<running, queue, ranFor>>
thread     == <<cycleRev, obsRev, plan, cycleSlot, left>>
history    == <<owed, auto>>
clock      == <<turn, presses>>
vars == <<clock, wakeVars, last, state, shoppingVars, worker, pc, thread, history>>

-----------------------------------------------------------------------------
(* Ids of slots are only compared with that of the current one: a slot is  *)
(* "now" until it ends, then "past".                                       *)
Slots == {"none", "now", "past"}

(* Completed and blocked runs use up their slot, failed ones do not.       *)
Settled == {"COMPLETE", "WAITING_KEYS", "WAITING_QUOTA", "RUNNING", "QUEUED", "LEASE_HELD"}
RunStates == Outcomes \cup {"IDLE", "RUNNING", "QUEUED", "WAITING_MEMORY"}
Held(s) == state[s] = "WAITING_MEMORY"
NoSlot == [slot |-> "none", source |-> "shopping", rev |-> 0]
NoPlan == [source |-> "shopping", keyed |-> FALSE, rev |-> 0, reply |-> ""]
Revs == 0..MaxEvents
InSeq(x, s) == \E i \in DOMAIN s : s[i] = x
Other(m) == IF m = "shopping" THEN "budget" ELSE "shopping"
With(m, s) == IF InSeq(m, s) THEN s ELSE Append(s, m)
Without(m, s) == IF InSeq(Other(m), s) THEN <<Other(m)>> ELSE <<>>   \* of two sources

TypeOK ==
  /\ turn \in Sources
  /\ explicitRev \in Revs /\ terminal \in BOOLEAN /\ wake \in BOOLEAN
  /\ keyPending \in {<<>>, <<"shopping">>, <<"budget">>, <<"shopping", "budget">>,
                     <<"budget", "shopping">>}
  /\ last \in [slot : {"none", "now"}, source : Sources, rev : Revs]
  /\ state \in [Sources -> RunStates]
  /\ age \in 0..3 /\ startedRev \in Revs \cup {-1} /\ completedRev \in Revs
  /\ running \in Sources \cup {"none", "match"}
  /\ queue \in {<<>>, <<"shopping">>, <<"budget">>, <<"shopping", "budget">>,
                <<"budget", "shopping">>}
  /\ ranFor \in 0..RunSlots
  /\ pc \in {"off", "grace", "capture", "plan", "due", "request", "publish", "record",
             "drain", "enter", "decide", "loop", "sleep"}
  /\ cycleRev \in Revs \cup {-1} /\ obsRev \in Revs
  /\ plan \in [source : Sources, keyed : BOOLEAN, rev : Revs,
               reply : {"", "STARTED", "QUEUED"}]
  /\ cycleSlot \in Slots /\ left \in 0..1
  /\ owed \subseteq Sources /\ auto \subseteq Sources /\ presses \in 0..MaxEvents

Init ==
  /\ turn \in Sources
  /\ explicitRev = 0 /\ terminal = FALSE /\ wake = FALSE /\ keyPending = <<>>
  /\ last = NoSlot
  /\ state = [s \in Sources |-> "IDLE"]
  /\ age = 3 /\ startedRev = -1 /\ completedRev = 0
  /\ running = "none" /\ queue = <<>> /\ ranFor = 0
  /\ pc = "off" /\ cycleRev = -1 /\ obsRev = 0 /\ plan = NoPlan
  /\ cycleSlot = "none" /\ left = 0
  /\ owed = {} /\ auto = {} /\ presses = 0

-----------------------------------------------------------------------------
(* The isolated worker as its callers see it.                              *)

Answer_Bug(m) == IF running # "none" THEN "QUEUED" ELSE "FREE"   \* asks the child only
Answer(m) ==
  IF InSeq(m, queue) \/ running = m THEN "ALREADY"
  ELSE IF running # "none" THEN "QUEUED"
  ELSE "FREE"

Start(m) == running' = m /\ ranFor' = 0 /\ UNCHANGED queue
Enqueue(m) == queue' = Append(queue, m) /\ UNCHANGED <<running, ranFor>>

(* _publish_isolated_source_start_locked                                   *)
PublishStart(m, runState) ==
  /\ state' = [state EXCEPT ![m] = runState]
  /\ startedRev' = IF m = "shopping" /\ runState = "RUNNING" THEN explicitRev ELSE startedRev
  /\ UNCHANGED <<age, completedRev>>

(* _isolated_worker_exit_state: state, revision and event in one section.  *)
PublishExit(m, outcome) ==
  /\ state' = [state EXCEPT ![m] = outcome]
  /\ terminal' = TRUE /\ wake' = TRUE
  /\ UNCHANGED <<explicitRev, keyPending, startedRev>>
  /\ IF m = "shopping" /\ outcome = "COMPLETE"
     THEN age' = 0 /\ completedRev' = (IF startedRev = -1 THEN explicitRev ELSE startedRev)
     ELSE UNCHANGED <<age, completedRev>>

ChildEnds ==
  /\ running # "none"
  /\ running' = "none" /\ ranFor' = 0 /\ UNCHANGED queue
  /\ auto' = auto \ {running} /\ UNCHANGED owed
  /\ IF running \in Sources
     THEN \E outcome \in Outcomes : PublishExit(running, outcome)
     ELSE UNCHANGED <<wakeVars, state, shoppingVars>>
  /\ UNCHANGED <<clock, last, pc, thread>>

(* The supervisor takes the next source from the queue and starts it, or   *)
(* publishes a launch hold for it and for all that are queued behind it    *)
(* (HeavyWorker shows the steps between the two).                          *)
Promote ==
  /\ running = "none" /\ queue # <<>>
  /\ \/ /\ running' = Head(queue) /\ queue' = Tail(queue)
        /\ PublishStart(Head(queue), "RUNNING")
        /\ owed' = owed \ {Head(queue)}
        /\ UNCHANGED <<wakeVars, auto>>
     \/ /\ queue' = <<>>
        /\ state' = [s \in Sources |-> IF InSeq(s, queue) THEN "WAITING_MEMORY" ELSE state[s]]
        /\ terminal' = TRUE /\ wake' = TRUE
        /\ auto' = {s \in auto : ~InSeq(s, queue)}
        /\ UNCHANGED <<running, explicitRev, keyPending, shoppingVars, owed>>
  /\ UNCHANGED <<clock, ranFor, last, pc, thread>>

MoreEvents == explicitRev + presses < MaxEvents
Press == MoreEvents /\ presses' = presses + 1

(* A button: schedule_manual_collection from a request.                    *)
Button(m) ==
  /\ Press
  /\ \/ /\ Answer(m) = "FREE" /\ Start(m)
        /\ PublishStart(m, "RUNNING") /\ owed' = owed \ {m}
     \/ /\ Answer(m) = "QUEUED" /\ Enqueue(m)
        /\ PublishStart(m, "QUEUED") /\ UNCHANGED owed
     \/ /\ Answer(m) = "FREE"
        /\ state' = [state EXCEPT ![m] = "WAITING_MEMORY"]
        /\ UNCHANGED <<worker, shoppingVars, owed>>           \* admission denied
  /\ UNCHANGED <<turn, wakeVars, last, pc, thread, auto>>

MatchButton ==
  /\ Press /\ running = "none"
  /\ Start("match")
  /\ UNCHANGED <<turn, wakeVars, last, state, shoppingVars, pc, thread, history>>

(* _save_source_key_updates: new keys for some sources wake the scheduler. *)
KeyUpdate(keys) ==
  LET added == IF "shopping" \in keys THEN With("shopping", keyPending) ELSE keyPending
  IN  /\ MoreEvents
      /\ explicitRev' = explicitRev + 1
      /\ keyPending' = IF "budget" \in keys THEN With("budget", added) ELSE added
      /\ wake' = TRUE
      /\ owed' = owed \cup keys
      /\ UNCHANGED <<clock, terminal, last, state, shoppingVars, worker, pc, thread, auto>>

-----------------------------------------------------------------------------
(* The scheduler thread.                                                   *)

Go(step) == pc' = step
Environment == <<clock, wakeVars, last, state, shoppingVars, worker, history>>

(* schedule_recent_collection at start-up: a stale wake flag must not give *)
(* the new thread two cycles back to back.                                 *)
StartThread ==
  /\ pc = "off" /\ Go("grace")
  /\ wake' = FALSE
  /\ UNCHANGED <<clock, explicitRev, terminal, keyPending, last, state, shoppingVars,
                 worker, thread, history>>

(* The boot grace swallows wakes; the revisions keep what they announced.  *)
Swallow ==
  /\ pc = "grace" /\ wake /\ wake' = FALSE
  /\ UNCHANGED <<clock, explicitRev, terminal, keyPending, last, state, shoppingVars,
                 worker, pc, thread, history>>

GraceEnds ==
  /\ pc = "grace" /\ Go("capture")
  /\ UNCHANGED <<Environment, thread>>

Capture ==
  /\ pc = "capture" /\ Go("plan")
  /\ cycleRev' = explicitRev
  /\ obsRev' = 0 /\ left' = 0 /\ cycleSlot' = "none"        \* locals of the last wait
  /\ UNCHANGED <<Environment, plan>>

CycleSource == IF keyPending # <<>> THEN Head(keyPending) ELSE turn
SameSlot(m) == last.slot = "now" /\ last.source = m /\ last.rev = explicitRev
AlreadyRan(m) == SameSlot(m) /\ state[m] \in Settled

Plan ==
  /\ pc = "plan"
  /\ plan' = [source |-> CycleSource, keyed |-> keyPending # <<>>, rev |-> explicitRev,
              reply |-> ""]
  /\ cycleSlot' = "now"
  /\ Go(IF AlreadyRan(CycleSource) THEN "drain"
        ELSE IF CycleSource = "shopping" /\ keyPending = <<>> THEN "due"
        ELSE "request")
  /\ UNCHANGED <<Environment, cycleRev, obsRev, left>>

(* _shopping_auto_due: a completed shopping check is not repeated within   *)
(* four hours, that is two slots, unless an explicit wake came after it.   *)
ShoppingDue(due) ==
  \/ due = TRUE /\ (state["shopping"] # "COMPLETE" \/ completedRev # explicitRev \/ age >= 2)
  \/ due = FALSE /\ state["shopping"] = "COMPLETE" /\ completedRev = explicitRev /\ age <= 2

Due ==
  /\ pc = "due"
  /\ \E due \in BOOLEAN : ShoppingDue(due) /\ Go(IF due THEN "request" ELSE "drain")
  /\ UNCHANGED <<Environment, thread>>

(* schedule_manual_collection for the source of the cycle.                 *)
Request(m) ==
  /\ pc = "request" /\ plan.source = m
  /\ \/ /\ Answer(m) = "FREE" /\ Start(m)
        /\ plan' = [plan EXCEPT !.reply = "STARTED"] /\ Go("publish")
        /\ owed' = owed \ {m} /\ auto' = auto \cup {m} /\ UNCHANGED <<state, cycleSlot>>
     \/ /\ Answer(m) = "QUEUED" /\ Enqueue(m)
        /\ plan' = [plan EXCEPT !.reply = "QUEUED"] /\ Go("publish")
        /\ auto' = auto \cup {m} /\ UNCHANGED <<state, cycleSlot, owed>>
     \/ /\ Answer(m) = "ALREADY" /\ Go("drain")
        /\ UNCHANGED <<worker, plan, state, cycleSlot, history>>
     \/ /\ Answer(m) = "FREE" /\ Go("drain")                   \* admission denied
        /\ state' = [state EXCEPT ![m] = "WAITING_MEMORY"]
        /\ UNCHANGED <<worker, plan, cycleSlot, history>>
     \/ /\ Go("enter") /\ cycleSlot' = "none"                  \* an exception: no outcome
        /\ UNCHANGED <<worker, plan, state, history>>
  /\ UNCHANGED <<clock, wakeVars, last, shoppingVars, cycleRev, obsRev, left>>

(* The caller shows the start only if the child or the queue entry is      *)
(* still there.                                                            *)
Publish ==
  /\ pc = "publish" /\ Go("record")
  /\ IF \/ plan.reply = "STARTED" /\ running = plan.source
        \/ plan.reply = "QUEUED" /\ InSeq(plan.source, queue)
     THEN PublishStart(plan.source, IF plan.reply = "STARTED" THEN "RUNNING" ELSE "QUEUED")
     ELSE UNCHANGED <<state, shoppingVars>>
  /\ UNCHANGED <<clock, wakeVars, last, worker, thread, history>>

Consumed_Bug == Without(plan.source, keyPending)
(* Only the captured generation of key updates is consumed: a key that     *)
(* arrived meanwhile needs a batch of its own.                             *)
Consumed ==
  IF plan.keyed /\ explicitRev = plan.rev THEN Without(plan.source, keyPending) ELSE keyPending

Record ==
  /\ pc = "record" /\ Go("drain")
  /\ last' = [slot |-> cycleSlot, source |-> plan.source, rev |-> plan.rev]
  /\ keyPending' = Consumed
  /\ UNCHANGED <<clock, explicitRev, terminal, wake, state, shoppingVars, worker, thread,
                 history>>

Drained_Bug == running = "none"                  \* forgets the queue
Drained == running = "none" /\ queue = <<>>

Drain ==
  /\ pc = "drain" /\ Drained /\ Go("enter")
  /\ plan' = NoPlan
  /\ UNCHANGED <<Environment, cycleRev, obsRev, cycleSlot, left>>

-----------------------------------------------------------------------------
(* The wait between two cycles.                                            *)

AwakeBeforeSleep_Bug == FALSE                    \* looks at new wakes only
(* A wake during the cycle: one more batch before any sleep.               *)
AwakeBeforeSleep == explicitRev # cycleRev

Enter ==
  /\ pc = "enter" /\ Go(IF AwakeBeforeSleep THEN "capture" ELSE "decide")
  /\ obsRev' = explicitRev
  /\ terminal' = FALSE /\ wake' = FALSE
  /\ UNCHANGED <<clock, explicitRev, keyPending, last, state, shoppingVars, worker,
                 cycleRev, plan, cycleSlot, left, history>>

(* _automatic_cycle_wait_seconds, in slots.  One second is no time; memory *)
(* backoff, lease and partial retries end in the slot or with it; all else *)
(* sleeps to the end of the slot.                                          *)
KeyPrompt_Bug == FALSE
KeyPrompt == keyPending # <<>> /\ \A s \in Sources : ~Held(s)
SlotPassed == cycleSlot = "past"
RetrySoon == \E s \in Sources : state[s] \in {"WAITING_MEMORY", "LEASE_HELD", "PARTIAL"}

WaitSlots ==
  IF KeyPrompt \/ SlotPassed THEN {0}
  ELSE IF RetrySoon THEN {0, 1}
  ELSE {1}

Decide ==
  /\ pc = "decide" /\ Go("loop")
  /\ left' \in WaitSlots
  /\ cycleSlot' = "none"         \* after a terminal revision the outcome has no slot
  /\ UNCHANGED <<Environment, cycleRev, obsRev, plan>>

EventAfterTerminal_Bug == wake                   \* the observed terminal leaves the event set
EventAfterTerminal == FALSE

(* Top of the waiting loop: an explicit wake starts a cycle, a terminal    *)
(* revision only restarts the countdown.                                   *)
Loop ==
  /\ pc = "loop"
  /\ \/ /\ explicitRev # obsRev /\ Go("capture")
        /\ UNCHANGED <<terminal, wake>>
     \/ /\ explicitRev = obsRev /\ terminal /\ Go("decide")
        /\ terminal' = FALSE /\ wake' = EventAfterTerminal
     \/ /\ explicitRev = obsRev /\ ~terminal /\ Go("sleep")
        /\ UNCHANGED <<terminal, wake>>
  /\ UNCHANGED <<clock, explicitRev, keyPending, last, state, shoppingVars, worker,
                 thread, history>>

(* Event.wait returns because the event is set or the time is over.  News  *)
(* between its return and the check are news before the return.            *)
Sleep ==
  /\ pc = "sleep" /\ (wake \/ left = 0)
  /\ Go(IF explicitRev # obsRev \/ terminal THEN "loop" ELSE "capture")
  /\ UNCHANGED <<Environment, thread>>

-----------------------------------------------------------------------------
(* A slot ends while nothing is to be done at once.                        *)
Tick ==
  /\ pc \in {"off", "drain", "sleep"}
  /\ pc = "sleep" => ~wake /\ left > 0
  /\ pc = "drain" => ~Drained
  /\ running # "none" => ranFor < RunSlots
  /\ turn' = Other(turn)
  /\ left' = IF pc = "sleep" THEN left - 1 ELSE left
  /\ age' = IF state["shopping"] = "COMPLETE" /\ age < 3 THEN age + 1 ELSE 3
  /\ ranFor' = IF running = "none" THEN 0 ELSE ranFor + 1
  /\ last' = NoSlot                \* a past slot never equals the current one again
  /\ cycleSlot' = IF cycleSlot = "now" THEN "past" ELSE cycleSlot
  /\ UNCHANGED <<wakeVars, state, startedRev, completedRev, running, queue, pc,
                 cycleRev, obsRev, plan, history, presses>>

Thread ==
  \/ StartThread \/ Swallow \/ GraceEnds \/ Capture \/ Plan \/ Due \/ (\E m \in Sources : Request(m))
  \/ Publish \/ Record \/ Drain \/ Enter \/ Decide \/ Loop \/ Sleep

Next ==
  \/ Thread \/ ChildEnds \/ Promote \/ Tick
  \/ \E m \in Sources : Button(m)
  \/ MatchButton
  \/ \E keys \in SUBSET Sources \ {{}} : KeyUpdate(keys)

Spec == Init /\ [][Next]_vars

(* The thread runs and the worker goes on: children end and the queue is   *)
(* promoted (HeavyWorker shows it).  Nobody has to press a button, and no  *)
(* deadline has to come.                                                   *)
Fairness == WF_vars(Thread) /\ WF_vars(ChildEnds \/ Promote)

FairSpec == Spec /\ Fairness

-----------------------------------------------------------------------------
(* Properties.                                                             *)

(* A new key that no collection has started with since is never forgotten: *)
(* its wake is pending, the source is queued, or its state says that it    *)
(* waits for memory and will be tried again.                               *)
KeyNotForgotten ==
  \A m \in owed : InSeq(m, keyPending) \/ InSeq(m, queue) \/ Held(m)

(* One automatic batch never has shopping and budget in the worker at the  *)
(* same time (README.md:135): a small container holds one at most.         *)
OneAutomaticChild == Cardinality(auto) <= 1

(* The end of a child, automatic or manual, only restarts the countdown: a *)
(* cycle begins after the grace, for an explicit wake that the last cycle  *)
(* had not seen, or when the time is over.                                 *)
TerminalStartsNothing ==
  [][pc' = "capture" /\ pc # "capture" =>
       pc = "grace" \/ explicitRev # cycleRev \/ left = 0]_vars

(* The scheduler does not sleep through a wake for new keys: it sleeps on  *)
(* one only while memory is held, the worker is busy or an event is set.   *)
KeyNeverSleeps ==
  pc = "sleep" /\ left > 0 /\ keyPending # <<>> =>
    ~Drained \/ wake \/ \E s \in Sources : Held(s)

(* The three together: nothing that a new key asked for is lost, slept     *)
(* through, or served beside another source.                               *)
WakesAreKept == TypeOK /\ KeyNotForgotten /\ KeyNeverSleeps /\ OneAutomaticChild

(* Every explicit wake gets a cycle that starts after it, whenever it      *)
(* arrives: in the grace, in a cycle, before or during the sleep.          *)
ExplicitServed == explicitRev # cycleRev ~> explicitRev = cycleRev

=============================================================================
