------------------------- MODULE CollectionMonitor -------------------------
(***************************************************************************)
(* The collection status page.  It is put together from readings made one  *)
(* after the other: the shopping checkpoints, the budget checkpoints (a    *)
(* bounded set of rows, kept for some seconds), a copy of the run states   *)
(* in memory, and last the slot of the disposable child.                   *)
(*                                                                         *)
(* The collectors are seen through the rows they write, in the order of    *)
(* SourceCycle and ForwardSchedule; the slot through the phases of         *)
(* HeavyWorker.  Days are numbered; other times count what has happened.   *)
(***************************************************************************)
EXTENDS Integers, FiniteSets, FiniteSetsExt

CONSTANTS
  LastDay,     \* bound on the calendar
  Regions,     \* the region plan
  Recent,      \* budget rows the page reads for their recency alone
  MaxEvents    \* bound on rows written and moves of the slot

ASSUME MonitorAssumption ==
  /\ LastDay \in Nat \ {0, 1} /\ Recent \in Nat \ {0} /\ MaxEvents \in Nat
  /\ IsFiniteSet(Regions) /\ Regions \subseteq Nat \ {0}

Days == 1..LastDay
Scope(kind, day, part) == [kind |-> kind, day |-> day, part |-> part]
Shop == {Scope("shop", d, 0) : d \in Days}
Budget == {Scope(k, d, 0) : k \in {"nation", "history"}, d \in Days}
          \cup {Scope("region", d, r) : d \in Days, r \in Regions}
Aidfa == {Scope(k, 1, 0) : k \in {"appropriation", "future"}}
Scopes == Shop \cup Budget \cup Aidfa
Sources == {"shopping", "budget"}

(* LEGACY is COMPLETE without the compact marker; EXHAUSTED is INCOMPLETE  *)
(* with REPEATED_OR_OVERLAPPING_PAGE_REPLAY_EXHAUSTED, PARTITION is        *)
(* PARTITION_COMPLETE.                                                     *)
Statuses == {"NONE", "RUNNING", "FAILED", "INCOMPLETE", "COMPLETE",
             "LEGACY", "EXHAUSTED", "PARTITION"}
Waits == {"QUEUED", "WAITING_QUOTA", "WAITING_MEMORY", "REAP_PENDING",
          "REAPER_RECOVERY", "WORKER_STATUS_UNKNOWN"}

VARIABLES
  today,          \* the Korean date
  clock,          \* rows written and moves of the slot so far
  cp,             \* scope: its checkpoint row, status and updated_at
  whole,          \* scopes that have been stored completely, by any cycle
  slot, pending,  \* the child slot and the sources queued behind it
  run,            \* source: its run state in memory
  cache,          \* budget rows kept for the next page, or the empty function
  view            \* the page being put together

vars == <<today, clock, cp, whole, slot, pending, run, cache, view>>
rows == <<cp, whole>>
child == <<slot, pending, run>>
page == <<cache, view>>

NoSlot == [kind |-> "none", phase |-> "none"]
NoCache == [s \in {} |-> ""]
NoView == [pc |-> "idle", today |-> 0, cut |-> 0, shop |-> "", budget |-> "", aidfa |-> "",
           earned |-> TRUE, exact |-> TRUE, aged |-> FALSE,
           runs |-> [k \in Sources |-> ""], taken |-> "none"]

(* Rows of earlier cycles: none, a shopping day of an older version, or a  *)
(* day collected by region.                                                *)
Fresh == [s \in Scopes |-> [status |-> "NONE", at |-> 0]]
Earlier == [s \in Scopes |->
  [status |-> IF s.day # 1 \/ s.kind \notin {"nation", "region"} THEN "NONE"
              ELSE IF s.kind = "nation" THEN "PARTITION" ELSE "COMPLETE", at |-> -s.part]]

Init ==
  /\ today = 2 /\ clock = 0
  /\ cp \in {Fresh, [Fresh EXCEPT ![Scope("shop", 1, 0)].status = "LEGACY"], Earlier}
  /\ whole = {s \in Budget : cp[s].status # "NONE"}
  /\ slot \in {NoSlot} \cup [kind : Sources, phase : {"running"}]
  /\ pending = {} /\ run = [k \in Sources |-> "IDLE"]
  /\ cache = NoCache /\ view = NoView

-----------------------------------------------------------------------------
(* What the collectors write.                                              *)
Counted == clock < MaxEvents /\ clock' = clock + 1
Write(s, status) ==
  /\ Counted /\ cp' = [cp EXCEPT ![s] = [status |-> status, at |-> clock']]
  /\ whole' = IF status \in {"COMPLETE", "PARTITION"} THEN whole \cup {s} ELSE whole
  /\ UNCHANGED <<today, child, page>>

Working(source) == slot.kind = source /\ slot.phase \in {"running", "orphan"}
Done(s) == cp[s].status \in {"COMPLETE", "PARTITION"}

(* Any pending day, and again a day whose date allows another reading.     *)
WriteShop ==
  /\ Working("shopping")
  /\ \E d \in 1..(today - 1), to \in {"RUNNING", "FAILED", "COMPLETE"} : Write(Scope("shop", d, 0), to)

WriteAidfa ==
  /\ Working("budget")
  /\ \E s \in Aidfa, to \in {"RUNNING", "INCOMPLETE", "COMPLETE"} : Write(s, to)

(* The oldest unfinished snapshot newer than the last finished one.        *)
Snapshot ==
  LET last == Max({0} \cup {d \in Days : Done(Scope("nation", d, 0))})
      open == {d \in (last + 1)..(today - 1) : cp[Scope("nation", d, 0)].status # "NONE"}
  IN  Scope("nation", IF open = {} THEN today - 1 ELSE Min(open), 0)

(* A finished one is read again by the next wake of the same day, if it    *)
(* is PARTITION_COMPLETE, or COMPLETE without rows or without its receipts.*)
WriteNation ==
  /\ Working("budget") /\ cp[Snapshot].status # "EXHAUSTED"
  /\ \E to \in {"RUNNING", "FAILED", "EXHAUSTED", "COMPLETE"} : Write(Snapshot, to)

Regional(day) == {Scope("region", day, r) : r \in Regions}
WriteRegion ==
  /\ Working("budget") /\ cp[Snapshot].status = "EXHAUSTED"
  /\ LET open == {s \in Regional(Snapshot.day) : ~Done(s)}
     IN  IF open = {} THEN Write(Snapshot, "PARTITION")
         ELSE \E to \in {"RUNNING", "FAILED", "COMPLETE"} :
                Write(CHOOSE s \in open : \A t \in open : s.part <= t.part, to)

WriteHistory ==
  /\ Working("budget") /\ Done(Snapshot)
  /\ \E d \in 1..(today - 1), to \in {"RUNNING", "FAILED", "COMPLETE"} :
       /\ cp[Scope("nation", d, 0)].status # "COMPLETE"
       /\ ~Done(Scope("history", d, 0)) /\ Write(Scope("history", d, 0), to)

-----------------------------------------------------------------------------
(* The slot and the run states.                                            *)
Launch(k) ==
  /\ slot = NoSlot /\ Counted /\ slot' = [kind |-> k, phase |-> "running"]
  /\ UNCHANGED <<today, rows, pending, run, page>>

(* The caller publishes after the slot is taken.                           *)
Publish ==
  /\ slot.phase = "running" /\ run[slot.kind] # "RUNNING" /\ Counted
  /\ run' = [run EXCEPT ![slot.kind] = "RUNNING"]
  /\ UNCHANGED <<today, rows, slot, pending, page>>

Queue(k) ==
  /\ slot # NoSlot /\ slot.kind # k /\ k \notin pending /\ Counted
  /\ pending' = pending \cup {k} /\ run' = [run EXCEPT ![k] = "QUEUED"]
  /\ UNCHANGED <<today, rows, slot, page>>

Hold(k) ==
  /\ slot = NoSlot /\ Counted /\ run' = [run EXCEPT ![k] = "WAITING_MEMORY"]
  /\ UNCHANGED <<today, rows, slot, pending, page>>

(* The child exits, its supervisor dies or is recovered.                   *)
Phase ==
  /\ Counted /\ \E move \in {<<"running", "exited">>, <<"running", "orphan">>, <<"orphan", "running">>} :
       slot.phase = move[1] /\ slot' = [slot EXCEPT !.phase = move[2]]
  /\ UNCHANGED <<today, rows, pending, run, page>>

(* The supervisor publishes the end, then hands the slot over.             *)
Report ==
  /\ Counted /\ slot.phase = "exited" /\ slot' = [slot EXCEPT !.phase = "reported"]
  /\ \E end \in {"COMPLETE", "WAITING_QUOTA"} : run' = [run EXCEPT ![slot.kind] = end]
  /\ UNCHANGED <<today, rows, pending, page>>

Release ==
  /\ Counted /\ slot.phase = "reported"
  /\ slot' = IF pending = {} THEN NoSlot
             ELSE [kind |-> CHOOSE k \in pending : TRUE, phase |-> "running"]
  /\ pending' = {}                      \* two sources: one is queued at most
  /\ UNCHANGED <<today, rows, run, page>>

Restart ==
  /\ Counted /\ slot' = NoSlot /\ pending' = {} /\ run' = [k \in Sources |-> "IDLE"]
  /\ cache' = NoCache /\ view' = NoView
  /\ UNCHANGED <<today, rows>>

Midnight == today < LastDay /\ today' = today + 1 /\ UNCHANGED <<clock, rows, child, page>>
CacheExpires == cache # NoCache /\ cache' = NoCache /\ UNCHANGED <<today, clock, rows, child, view>>

-----------------------------------------------------------------------------
(* What the page makes of a set of rows, t : scope -> row.                 *)
Present(S) == {s \in S : cp[s].status # "NONE"}
NewestOf(t, S) == CHOOSE s \in S : \A u \in S : t[u].at <= t[s].at

Label(status) == CASE status \in {"LEGACY", "PARTITION"} -> "COMPLETE"
                   [] status = "EXHAUSTED" -> "INCOMPLETE"
                   [] OTHER -> status
StateFor(t, S, old) ==
  IF S = {} THEN "NOT_STARTED"
  ELSE LET row == t[NewestOf(t, S)]
       IN  IF row.status = "RUNNING" /\ row.at <= old THEN "STALE" ELSE Label(row.status)

(* Yesterday's day carries the badge, whatever the newest row says.        *)
Verified_Bug(s) == cp[s].status \in {"COMPLETE", "LEGACY"}
Verified(s) == cp[s].status = "COMPLETE"            \* the marker of the row is valid
ShopBadge(old) ==
  IF Verified(Scope("shop", today - 1, 0))
    THEN StateFor(cp, Present(Shop), old) ELSE "PARTIAL"

YearStates(t) ==
  {StateFor(t, {s \in Aidfa \cap DOMAIN t : s.kind = k}, view.cut) : k \in {"appropriation", "future"}}
CombinedState(states) ==
  LET severe == states \cap {"FAILED", "INCOMPLETE", "STALE"}
  IN  IF severe # {} THEN (IF "FAILED" \in severe THEN "FAILED"
                           ELSE IF "INCOMPLETE" \in severe THEN "INCOMPLETE" ELSE "STALE")
      ELSE IF "RUNNING" \in states THEN "RUNNING"
      ELSE IF states \in {{"COMPLETE"}, {"NOT_STARTED"}} THEN CHOOSE s \in states : TRUE
      ELSE "PARTIAL"

(* A day collected by region hides the ordinary rows, newer ones too.      *)
Trigger(t, s) == \/ s.kind = "region"
                 \/ s.kind = "nation" /\ t[s].status \in {"PARTITION", "EXHAUSTED"}
OfDay(S, d) == {s \in S : s.kind \in {"nation", "region"} /\ s.day = d}
Target(t, S) ==
  LET days == {s.day : s \in {u \in S : Trigger(t, u)}}
  IN  NewestOf(t, UNION {OfDay(S, d) : d \in days}).day

ActiveRegions(t, S) ==
  {s \in OfDay(S, Target(t, S)) : s.kind = "region" /\ t[s].status # "COMPLETE"}
CompleteRegions(t, S) ==
  {s \in OfDay(S, Target(t, S)) : s.kind = "region" /\ t[s].status = "COMPLETE"}
PartitionState(t, S) ==
  LET d == Target(t, S)
      active == ActiveRegions(t, S)
  IN  IF \E s \in OfDay(S, d) : s.kind = "nation" /\ t[s].status = "PARTITION" THEN "COMPLETE"
      ELSE IF active = {} THEN (IF Regions = {} THEN "INCOMPLETE" ELSE "PARTIAL")
      ELSE Label(t[NewestOf(t, active)].status)

HasPartition(t, S) == \E s \in S : Trigger(t, s)
BudgetState(t, S, old) ==
  IF HasPartition(t, S) THEN PartitionState(t, S) ELSE StateFor(t, S, old)
BudgetClaims(t, S, old) ==
  IF BudgetState(t, S, old) # "COMPLETE" THEN {}
  ELSE IF HasPartition(t, S) THEN Regional(Target(t, S)) ELSE {NewestOf(t, S)}

(* Days of the history counted complete; PARTITION_COMPLETE is not one.    *)
CompleteRows(t, S) ==
  {s \in S : s.kind \in {"nation", "history"} /\ t[s].status = "COMPLETE" /\ s.day < view.today}
CompleteDays(t, S) == {s.day : s \in CompleteRows(t, S)}

(* monitor_checkpoint_summary: the newest rows, the complete days, every   *)
(* row of the partition day, the newest row of either appropriation year.  *)
SelectedDay_Bug(S) == {NewestOf(cp, {s \in S : Trigger(cp, s)})}
SelectedDay(S) == OfDay(S, NewestOf(cp, {s \in S : Trigger(cp, s)}).day)
Bounded ==
  LET S == Present(Budget)
  IN  {s \in S : Cardinality({u \in S : cp[u].at > cp[s].at}) < Recent}
      \cup CompleteRows(cp, S) \cup (IF HasPartition(cp, S) THEN SelectedDay(S) ELSE {})
      \cup Present(Aidfa)

-----------------------------------------------------------------------------
(* The page.                                                               *)
(* It begins with the shopping rows.                                       *)
ReadShop ==
  /\ view.pc = "idle"
  /\ \E old \in 0..clock :         \* what happened up to old is five minutes old
       LET badge == ShopBadge(old)
       IN  view' = [NoView EXCEPT !.pc = "budget", !.today = today, !.cut = old, !.shop = badge,
             !.earned = badge = "COMPLETE" => Scope("shop", today - 1, 0) \in whole]
  /\ UNCHANGED <<today, clock, rows, child, cache>>

ReadBudget ==
  /\ view.pc = "budget"
  /\ cache' = IF cache = NoCache THEN [s \in Bounded |-> cp[s]] ELSE cache
  /\ LET t == cache'
         S == Budget \cap DOMAIN t
         all == Present(Budget)
         state == BudgetState(t, S, view.cut)
         years == CombinedState(YearStates(t))
     IN  view' = [view EXCEPT !.pc = "runs", !.cut = 0, !.today = 0, !.budget = state, !.aidfa = years,
           !.earned = /\ @ /\ BudgetClaims(t, S, view.cut) \subseteq whole
                      /\ years = "COMPLETE" => Aidfa \subseteq whole
                      /\ \A d \in CompleteDays(t, S) :
                           whole \cap {Scope("nation", d, 0), Scope("history", d, 0)} # {},
           !.exact = cache # NoCache \/ /\ state = BudgetState(cp, all, view.cut)
                                        /\ CompleteDays(t, S) = CompleteDays(cp, all)
                                        /\ HasPartition(cp, all) =>
                                             CompleteRegions(t, S) = CompleteRegions(cp, all),
           !.aged = state = "RUNNING" /\ \A s \in S : t[s].status = "RUNNING" => t[s].at <= view.cut]
  /\ UNCHANGED <<today, clock, rows, child>>

ReadRuns ==
  /\ view.pc = "runs" /\ view' = [view EXCEPT !.pc = "slot", !.runs = run]
  /\ UNCHANGED <<today, clock, rows, child, cache>>

(* The slot overrides the copied run state, and a wait of the source the   *)
(* state of an unfinished stage.  A reserved or queued source has no       *)
(* button.                                                                 *)
Transient(unclear) ==
  CASE slot.phase = "orphan" -> "REAPER_RECOVERY"
    [] slot.phase # "orphan" /\ unclear -> "WORKER_STATUS_UNKNOWN"
    [] OTHER -> IF slot.phase = "running" THEN "RUNNING" ELSE "REAP_PENDING"
Overridden_Bug(unclear) == view.runs
Overridden(unclear) ==
  [k \in Sources |-> IF k = slot.kind THEN Transient(unclear) ELSE view.runs[k]]
Waiting(state, runState) ==
  IF runState \in Waits /\ state \in {"RUNNING", "STALE", "PARTIAL", "INCOMPLETE"}
    THEN runState ELSE state

ReadSlot ==
  /\ view.pc = "slot"
  /\ \E unclear \in BOOLEAN :
       LET runs == Overridden(unclear)
       IN  view' = [view EXCEPT !.pc = "shown", !.runs = runs,
             !.shop = IF @ = "PARTIAL" THEN @ ELSE Waiting(@, runs["shopping"]),
             !.budget = Waiting(@, runs["budget"]), !.aidfa = Waiting(@, runs["budget"]),
             !.taken = slot.kind]
  /\ UNCHANGED <<today, clock, rows, child, cache>>

Close == view.pc = "shown" /\ view' = NoView /\ UNCHANGED <<today, clock, rows, child, cache>>

Next ==
  \/ WriteShop \/ WriteAidfa \/ WriteNation \/ WriteRegion \/ WriteHistory
  \/ \E k \in Sources : Launch(k) \/ Queue(k) \/ Hold(k)
  \/ Publish \/ Phase \/ Report \/ Release \/ Restart
  \/ Midnight \/ CacheExpires
  \/ ReadShop \/ ReadBudget \/ ReadRuns \/ ReadSlot \/ Close
Spec == Init /\ [][Next]_vars

-----------------------------------------------------------------------------
(* What the page shows as complete has been stored completely: yesterday's *)
(* shopping day, both appropriation years, the budget snapshot or all      *)
(* regions of it, and each history day.  And no source whose child holds   *)
(* the slot is said to be finished or to wait for a day or for memory, as  *)
(* the run state copied before says, nor are its unfinished stages.        *)
Idle == {"COMPLETE", "WAITING_QUOTA", "WAITING_MEMORY", "QUEUED", "IDLE"}
ShownIsTrue ==
  /\ view.earned
  /\ view.pc = "shown" /\ view.taken # "none" =>
       /\ view.runs[view.taken] \notin Idle
       /\ (IF view.taken = "shopping" THEN {view.shop} ELSE {view.budget, view.aidfa})
            \cap (Idle \ {"COMPLETE"}) = {}

(* Reading a bounded set of rows shows the same budget state, history days *)
(* and finished regions as reading every checkpoint, whatever the rows     *)
(* that were written since have pushed out of the recent ones.             *)
BoundedIsExact == view.exact

(* "A RUNNING that is not refreshed for five minutes is shown as stalled"  *)
(* (vnext_clean_app.py:6828, in Korean; so README.md:720): the budget is   *)
(* shown running only if a running row of it is younger than that.         *)
StaleIsShown == view.pc = "shown" => ~(view.aged /\ view.budget = "RUNNING")

=============================================================================
