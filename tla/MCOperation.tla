---------------------------- MODULE MCOperation ----------------------------
(***************************************************************************)
(* How collection runs, for TLC: start-up, the forward collection of       *)
(* shopping days, and the cycle that runs both sources within the quota of *)
(* a day.                                                                  *)
(*                                                                         *)
(* What crosses between these parts is an input of each model (Boot: who   *)
(* asks; ForwardSchedule: how a day ends), so TLC explores them one at a   *)
(* time: a behaviour runs one of Parts while the others keep an initial    *)
(* state.  Every component has its variables here, under a prefix.         *)
(***************************************************************************)
EXTENDS Integers

CONSTANTS
  Parts,            \* the components a run explores
  Webs, Children, MaxFaults, MaxCrashes,                              \* of Boot
  FirstToday, ForwardDays, KeptDays, DayBudget, RecheckDays,          \* of ForwardSchedule
  RecentWindow, LongtailPerRun, StuckSets,
  CycleDays, Window, Regions, Overlapping, Quota, SyncMax,            \* of SourceCycle
  FutureMax, CurrentMax, HistoryReserve, HistoryDays, Batch, MaxPool,
  MaxUpsets         \* of the last two

ASSUME PartsAssumption == Parts \subseteq {"boot", "forward", "cycle"}

VARIABLES
  part,   \* the component this behaviour runs
  b_db, b_born, b_web, b_at, b_source, b_faults, b_crashes,
  f_today, f_stuck, f_done, f_recheck, f_longtail, f_status, f_pc, f_run, f_seen,
  f_spent, f_upsets,
  c_today, c_used, c_nation, c_region, c_history, c_aidfa, c_current, c_pool, c_pc,
  c_c, c_runState, c_shopState, c_upsets

bootVars == <<b_db, b_born, b_web, b_at, b_source, b_faults, b_crashes>>
forwardVars ==
  <<f_today, f_stuck, f_done, f_recheck, f_longtail, f_status, f_pc, f_run, f_seen,
    f_spent, f_upsets>>
cycleVars ==
  <<c_today, c_used, c_nation, c_region, c_history, c_aidfa, c_current, c_pool, c_pc,
    c_c, c_runState, c_shopState, c_upsets>>
vars == <<part, bootVars, forwardVars, cycleVars>>

B == INSTANCE Boot WITH
  db <- b_db, born <- b_born, web <- b_web, at <- b_at, source <- b_source,
  faults <- b_faults, crashes <- b_crashes

F == INSTANCE ForwardSchedule WITH
  LastToday <- ForwardDays, Retention <- KeptDays,
  today <- f_today, stuck <- f_stuck, done <- f_done, recheck <- f_recheck,
  longtail <- f_longtail, status <- f_status, pc <- f_pc, run <- f_run, seen <- f_seen,
  spent <- f_spent, upsets <- f_upsets

C == INSTANCE SourceCycle WITH
  LastToday <- CycleDays, Reserve <- HistoryReserve,
  today <- c_today, used <- c_used, nation <- c_nation, region <- c_region,
  history <- c_history, aidfa <- c_aidfa, current <- c_current, pool <- c_pool,
  pc <- c_pc, c <- c_c, runState <- c_runState, shopState <- c_shopState,
  upsets <- c_upsets

ASSUME InstancesAssumption ==
  /\ B!BootAssumption /\ F!ScheduleAssumption /\ C!CycleAssumption

Init ==
  /\ part \in Parts
  /\ B!Init /\ (part # "boot" => b_born = "EMPTY")
  /\ F!Init /\ (part # "forward" => /\ \A d \in FirstToday : f_today <= d
                                   /\ f_stuck = CHOOSE s \in StuckSets : TRUE)
  /\ C!Init

Next ==
  /\ \/ part = "boot"    /\ B!Next /\ UNCHANGED <<forwardVars, cycleVars>>
     \/ part = "forward" /\ F!Next /\ UNCHANGED <<bootVars, cycleVars>>
     \/ part = "cycle"   /\ C!Next /\ UNCHANGED <<bootVars, forwardVars>>
  /\ UNCHANGED part

(* The fairness of Boot and of ForwardSchedule, asked of the part that     *)
(* runs.                                                                   *)
BootFairness ==
  \A p \in B!Procs :
    /\ WF_bootVars(part = "boot" /\ B!Request(p))
    /\ WF_bootVars(part = "boot" /\ B!FiveSeconds(p))
    /\ WF_bootVars(part = "boot" /\ B!Imported(p))
    /\ \A k \in B!Slots : WF_bootVars(part = "boot" /\ B!Thread(p, k))
ForwardFairness ==
  /\ WF_forwardVars(part = "forward" /\ F!Step)
  /\ WF_forwardVars(part = "forward" /\ f_pc = "fetch" /\ f_run.day \in f_stuck /\ F!FetchPartial)
Fairness == BootFairness /\ ForwardFairness

Spec == Init /\ [][Next]_vars /\ Fairness

-----------------------------------------------------------------------------
(* Start-up leaves storage usable: a database that was empty never ends    *)
(* without its marker, which would lock every later boot out; whoever says *)
(* it is ready finds everything it needs installed; and requests that meet *)
(* a starting process never start a second initialiser.                    *)
BootLeavesStorageUsable ==
  part = "boot" => B!NeverLockedOut /\ B!ReadyIsInstalled /\ B!OneInitializer

(* Storage of another origin is left exactly as it was found.              *)
OldStorageUntouched == B!OldStorageUntouched

(* An application that was imported over storage it may use gets ready, or *)
(* its process ends.                                                       *)
WebComesUp == part = "boot" => B!WebComesUp

(* A day the run remembers as re-read was completed under its date, and a  *)
(* complete day is re-read once per date, whatever stopped the run.        *)
RereadsAreEarned == part = "forward" => F!FlagIsEarned /\ F!OneRereadPerDate

(* A run that reports COMPLETE has the whole window, and its newest days   *)
(* under its own date.                                                     *)
CompleteIsCurrent == F!CompleteIsCurrent

(* Yesterday is served whatever old day is stuck, and the backlog drains.  *)
Progress == part = "forward" => F!Progress

(* The contexts of a cycle never add up to more requests than a day has,   *)
(* and a cycle that drains classifications spends none.                    *)
RequestsAreCovered == part = "cycle" => C!RequestsAreCovered

(* The current rows are never reconciled backwards, and a cycle publishes  *)
(* COMPLETE only for what was read whole.                                  *)
CycleIsTrue == C!CurrentNeverBackwards /\ C!CompleteIsWhole

=============================================================================
