---------------------------- MODULE SourceCycle ----------------------------
(***************************************************************************)
(* One cycle of a source in the isolated child: admission, the lease and   *)
(* _run_recent_collection_once_impl, with the scope bookkeeping of         *)
(* budget_vnext and budget_pg_store it rests on.  A budget cycle           *)
(* classifies what is stored, or collects in this order: next year's       *)
(* appropriation, this year's, one nationwide snapshot (or one region of   *)
(* it), then missing history days; it repairs, classifies and publishes a  *)
(* run state.  A shopping cycle runs ForwardSchedule, a slice of the smart *)
(* replay and the retention, and publishes its own.                        *)
(*                                                                         *)
(* A budget scope is BudgetCollection seen from outside: a state, what a   *)
(* call answers and how many requests it spends.  The lease admits one     *)
(* cycle; days are numbered, today - 1 is the newest the source answers.   *)
(***************************************************************************)
EXTENDS Integers, FiniteSets, FiniteSetsExt

CONSTANTS
  LastToday,     \* bound on the calendar
  Window,        \* source window in days
  Regions,       \* the region plan, when it is ready
  Overlapping,   \* days whose nationwide pages overlap for ever
  Quota,         \* requests a Korean day
  SyncMax,       \* BUDGET_SYNC_MAX_REQUESTS
  FutureMax,     \* FUTURE_BUDGET_SYNC_MAX_PAGES
  CurrentMax,    \* CURRENT_APPROPRIATION_SYNC_MAX_PAGES
  Reserve,       \* BUDGET_HISTORY_RESERVE_REQUESTS
  HistoryDays,   \* BUDGET_HISTORY_DAYS_PER_RUN
  Batch,         \* rows one classification pass drains
  MaxPool,       \* bound on rows waiting for classification
  MaxUpsets      \* bound on failures, partial answers and stops

CycleAssumption ==
  /\ LastToday \in Nat /\ LastToday > 1 /\ Overlapping \subseteq 1..LastToday
  /\ {Window, Quota, SyncMax, FutureMax, CurrentMax, HistoryDays, Batch} \subseteq Nat \ {0}
  /\ {Reserve, MaxPool, MaxUpsets} \subseteq Nat /\ Regions \subseteq Nat

VARIABLES
  today, used,   \* the Korean date and the requests spent on it
  nation,        \* state of every nationwide scope year:day
  region,        \* state of every regional scope year:day:region
  history,       \* state of every scope history:year:day
  aidfa,         \* the date the two appropriation scopes were completed, or 0
  current,       \* the snapshot the current rows were last reconciled with
  pool,          \* stored rows without classification
  pc, c,         \* where the cycle is, its local variables
  runState,      \* budget_run_state
  shopState,     \* shopping_run_state
  upsets

scopes == <<nation, region, history, aidfa, current>>
shown == <<runState, shopState>>
vars == <<today, used, scopes, pool, pc, c, shown, upsets>>

Days == 1..LastToday
Active == {"OPEN", "OVERLAP", "REPLAY", "EXHAUSTED"}   \* RUNNING, FAILED, INCOMPLETE
Finished == {"COMPLETE", "PARTITION"}                  \* COMPLETE, PARTITION_COMPLETE
Layers == {"future", "appropriation", "current", "history"}
Smaller(a, b) == IF a < b THEN a ELSE b
Larger(a, b) == IF a > b THEN a ELSE b
Left == Quota - used

NoCycle == [date |-> 0, st |-> [l \in Layers |-> "NOT_STARTED"], failed |-> FALSE,
            got |-> FALSE, drained |-> FALSE, snap |-> 0,
            days |-> 0, permits |-> 0, budget |-> "WAITING_KEY",
            shop |-> "WAITING_KEY", smart |-> "NOT_STARTED", hold |-> FALSE]

-----------------------------------------------------------------------------
(* What a call of the collector can do to a scope: the new state, the      *)
(* requests it spends of p permits, its answer.  An overlap is replayed    *)
(* once; a second one exhausts the scope.                                  *)
Answer(to, n, answer) == [to |-> to, n |-> n, answer |-> answer]
Resumed(s) == IF s \in {"OVERLAP", "REPLAY"} THEN "REPLAY" ELSE "OPEN"
Calls(s, p, overlaps) ==
  IF s = "COMPLETE" THEN {Answer(s, 0, "COMPLETE")}
  ELSE IF s = "EXHAUSTED" THEN {Answer(s, 0, "EXHAUSTED")}
  ELSE UNION {
    {Answer(Resumed(s), n, a) : a \in {"RUNNING", "INCOMPLETE", "RAISED"}}
    \cup (IF ~overlaps THEN {Answer("COMPLETE", n, "COMPLETE")}
          ELSE IF Resumed(s) = "OPEN" THEN {Answer("OVERLAP", n, "INCOMPLETE")}
          ELSE {Answer("EXHAUSTED", n, "EXHAUSTED")}) : n \in 1..p}

(* Only what does not end well is an upset.                                *)
Counted(call) == call.answer \in {"RUNNING", "INCOMPLETE", "RAISED"} /\ call.to # "OVERLAP"
Charge(call) ==
  /\ used' = used + call.n
  /\ pool' = IF call.n > 0 THEN Smaller(MaxPool, pool + 1) ELSE pool
  /\ IF Counted(call) THEN upsets < MaxUpsets /\ upsets' = upsets + 1 ELSE UNCHANGED upsets

(* Status of a layer after a call; an exception and an exhausted overlap   *)
(* are failures of the cycle.                                              *)
Settle(layer, call) ==
  LET bad == call.answer \in {"RAISED", "EXHAUSTED"}
  IN  [c EXCEPT !.st[layer] = IF bad THEN "FAILED" ELSE call.answer,
                !.failed = @ \/ bad, !.got = @ \/ call.answer # "RAISED"]

-----------------------------------------------------------------------------
LatestDay(date) == date - 1
WindowDays(date) == Larger(1, date - Window)..LatestDay(date)

(* The oldest unresolved nationwide snapshot newer than the last finished. *)
PendingDays(date) ==
  {d \in 1..LatestDay(date) :
     nation[d] \in Active /\ \A e \in d..LatestDay(date) : nation[e] \notin Finished}
Snapshot(date) ==
  IF PendingDays(date) = {} THEN LatestDay(date) ELSE Min(PendingDays(date))

Missing_Bug(date) == {d \in WindowDays(date) : nation[d] = "ABSENT" /\ history[d] = "ABSENT"}
Missing(date) ==
  {d \in WindowDays(date) : nation[d] # "COMPLETE" /\ history[d] # "COMPLETE"}

-----------------------------------------------------------------------------
Init ==
  /\ today = 2 /\ used = 0
  /\ nation = [d \in Days |-> "ABSENT"] /\ history = [d \in Days |-> "ABSENT"]
  /\ region = [d \in Days |-> [r \in Regions |-> "ABSENT"]]
  /\ aidfa = [k \in {"future", "appropriation"} |-> 0] /\ current = 0
  /\ pool = 0 /\ pc = "idle" /\ c = NoCycle /\ upsets = 0
  /\ runState = "IDLE" /\ shopState = "IDLE"

Midnight ==
  /\ today < LastToday /\ today' = today + 1 /\ used' = 0
  /\ UNCHANGED <<scopes, pool, pc, c, shown, upsets>>

(* Memory or another heavy cycle of the process holds it back, the backend *)
(* or the lease is not to be had, or another process holds the lease.      *)
Refused ==
  /\ pc = "idle" /\ upsets < MaxUpsets /\ upsets' = upsets + 1
  /\ \E answer \in {"WAITING_MEMORY", "WAITING_STORAGE", "LEASE_HELD"} :
       \/ runState' = answer /\ UNCHANGED shopState
       \/ shopState' = answer /\ UNCHANGED runState
  /\ UNCHANGED <<today, used, scopes, pool, pc, c>>

Begin ==
  /\ pc = "idle" /\ c' = [NoCycle EXCEPT !.date = today]
  /\ \/ pc' = "classify" /\ runState' = "RUNNING" /\ UNCHANGED shopState
     \/ pc' = "shop" /\ shopState' = "RUNNING" /\ UNCHANGED runState
  /\ UNCHANGED <<today, used, scopes, pool, upsets>>

-----------------------------------------------------------------------------
(* The shopping source: the ordinary collection, the smart replay after    *)
(* it, the retention unless memory stopped either.                         *)
Shopping ==
  /\ pc = "shop"
  /\ \/ pc' = "smart" /\ UNCHANGED upsets
        /\ \E answer \in {"COMPLETE", "PARTIAL", "WAITING_QUOTA"} :
             c' = [c EXCEPT !.shop = answer, !.smart = "RUNNING"]
     \/ /\ pc' = "retention" /\ upsets < MaxUpsets /\ upsets' = upsets + 1
        /\ c' \in {c, [c EXCEPT !.shop = "FAILED", !.failed = TRUE],      \* c: no key
                  [c EXCEPT !.shop = "WAITING_MEMORY", !.hold = TRUE]}
  /\ UNCHANGED <<today, used, scopes, pool, shown>>

SmartReplay ==
  /\ pc = "smart" /\ pc' = "retention"
  /\ \/ \E answer \in {"COMPLETE", "PARTIAL"} : c' = [c EXCEPT !.smart = answer]
        /\ UNCHANGED upsets
     \/ /\ upsets < MaxUpsets /\ upsets' = upsets + 1
        /\ c' \in {[c EXCEPT !.smart = "UNVERIFIED"],
                  [c EXCEPT !.smart = "WAITING_MEMORY", !.hold = TRUE]}
  /\ UNCHANGED <<today, used, scopes, pool, shown>>

Retention ==
  /\ pc = "retention" /\ pc' = "shopend"
  /\ \/ UNCHANGED <<c, upsets>>
     \/ /\ ~c.hold /\ upsets < MaxUpsets /\ upsets' = upsets + 1
        /\ c' = [c EXCEPT !.failed = TRUE]
  /\ UNCHANGED <<today, used, scopes, pool, shown>>

ShoppingEnd ==
  /\ pc = "shopend" /\ pc' = "idle" /\ c' = NoCycle
  /\ shopState' = CASE c.failed -> "FAILED"
                    [] ~c.failed /\ c.hold -> "WAITING_MEMORY"
                    [] OTHER -> IF c.shop = "WAITING_KEY" THEN "WAITING_KEYS" ELSE c.shop
  /\ UNCHANGED <<today, used, scopes, pool, runState, upsets>>

-----------------------------------------------------------------------------
(* Storage is not ready, or the preparation raised (a failure).            *)
NotReady ==
  /\ pc = "classify" /\ upsets < MaxUpsets /\ upsets' = upsets + 1
  /\ \E raised \in BOOLEAN :
       c' = [c EXCEPT !.budget = "WAITING_POSTGRES", !.failed = raised]
  /\ pc' = "finish"
  /\ UNCHANGED <<today, used, scopes, pool, shown>>

(* Stored rows are classified before any source request; a pass that       *)
(* drained something is all the cycle does.                                *)
Drains_Bug == pool > Batch                \* a last short pass lets requests through
Drains == pool > 0
Precheck ==
  /\ pc = "classify"
  /\ pool' = pool - Smaller(pool, Batch)
  /\ IF pool > 0 THEN c' = [c EXCEPT !.drained = TRUE, !.budget = "PARTIAL"] ELSE UNCHANGED c
  /\ pc' = IF Drains THEN "maintain" ELSE "admit"
  /\ UNCHANGED <<today, used, scopes, shown, upsets>>

Admit ==
  /\ pc = "admit"
  /\ \/ /\ Left > 0 /\ pc' = "future" /\ UNCHANGED <<c, upsets>>
     \/ /\ Left <= 0 /\ pc' = "maintain" /\ c' = [c EXCEPT !.budget = "WAITING_QUOTA"]
        /\ UNCHANGED upsets
     \/ /\ upsets < MaxUpsets /\ upsets' = upsets + 1             \* no LOFIN key
        /\ pc' = "maintain" /\ c' = [c EXCEPT !.budget = "WAITING_KEY"]
  /\ UNCHANGED <<today, used, scopes, pool, shown>>

(* An appropriation scope is read again once per date.                     *)
Refreshed(kind) == IF aidfa[kind] >= c.date THEN "COMPLETE" ELSE "OPEN"
Appropriation(kind, p) ==
  \E call \in Calls(Refreshed(kind), p, FALSE) :
    /\ Charge(call) /\ c' = Settle(kind, call)
    /\ aidfa' = [aidfa EXCEPT ![kind] = IF call.n = 0 THEN @
                                            ELSE IF call.answer = "COMPLETE" THEN today ELSE 0]
    /\ UNCHANGED <<today, nation, region, history, current, shown>>

Future ==
  /\ pc = "future" /\ pc' = "appropriation"
  /\ Appropriation("future", Larger(1, Smaller(FutureMax, Smaller(SyncMax, Left))))

CurrentYear ==
  /\ pc = "appropriation" /\ pc' = "reserve"
  /\ IF Smaller(CurrentMax, Left) <= 0
       THEN /\ c' = [c EXCEPT !.st["appropriation"] = "WAITING_QUOTA"]
            /\ UNCHANGED <<today, used, scopes, pool, shown, upsets>>
       ELSE Appropriation("appropriation", Smaller(CurrentMax, Left))

(* Permits of the nationwide snapshot: a part is kept for missing history. *)
ReservePermits ==
  LET remaining == Larger(0, Smaller(SyncMax, Left))
      kept == IF remaining > 1 /\ Missing(c.date) # {} /\ Reserve > 0
              THEN Smaller(Smaller(Reserve, Larger(1, remaining \div 4)), remaining - 1)
              ELSE 0
  IN  /\ pc = "reserve" /\ pc' = "current"
      /\ c' = [c EXCEPT !.permits = remaining - kept]
      /\ UNCHANGED <<today, used, scopes, pool, shown, upsets>>

-----------------------------------------------------------------------------
NoPermits ==
  /\ pc = "current" /\ c.permits <= 0
  /\ c' = [c EXCEPT !.st["current"] = "WAITING_QUOTA"] /\ pc' = "history"
  /\ UNCHANGED <<today, used, scopes, pool, shown, upsets>>

(* The older active scopes, regional ones too, are dropped by a complete   *)
(* snapshot, which also removes the current rows it did not list.          *)
Superseded(f, snap) ==
  [d \in Days |-> IF d < snap /\ f[d] \in Active THEN "SUPERSEDED" ELSE f[d]]
Nationwide ==
  LET snap == Snapshot(c.date)
  IN  /\ pc = "current" /\ c.permits > 0 /\ nation[snap] # "EXHAUSTED"
      /\ \E call \in Calls(nation[snap], c.permits, snap \in Overlapping) :
           /\ Charge(call) /\ c' = [Settle("current", call) EXCEPT !.snap = snap]
           /\ LET moved == [nation EXCEPT ![snap] = call.to]
              IN  IF call.answer = "COMPLETE"
                  THEN /\ nation' = Superseded(moved, snap) /\ current' = snap
                       /\ region' = [d \in Days |-> [r \in Regions |->
                             Superseded([e \in Days |-> region[e][r]], snap)[d]]]
                  ELSE nation' = moved /\ UNCHANGED <<region, current>>
      /\ pc' = "history"
      /\ UNCHANGED <<today, history, aidfa, shown>>

(* An exhausted snapshot is collected region by region, one each cycle.    *)
Fallback == pc = "current" /\ c.permits > 0 /\ nation[Snapshot(c.date)] = "EXHAUSTED"
Begun == [c EXCEPT !.snap = Snapshot(c.date)]
OpenRegions == {r \in Regions : region[Snapshot(c.date)][r] # "COMPLETE"}

PlanNotReady ==
  /\ Fallback /\ upsets < MaxUpsets /\ upsets' = upsets + 1
  /\ c' = [Begun EXCEPT !.st["current"] = "FAILED", !.failed = TRUE] /\ pc' = "history"
  /\ UNCHANGED <<today, used, scopes, pool, shown>>

NextRegion ==
  /\ Fallback /\ OpenRegions # {}
  /\ LET r == Min(OpenRegions)
         d == Snapshot(c.date)
         bad(call) == call.answer \in {"RAISED", "EXHAUSTED"}
     IN  \E overlaps \in BOOLEAN : \E call \in Calls(region[d][r], c.permits, overlaps) :
           /\ Charge(call)
           /\ c' = [Begun EXCEPT !.st["current"] = IF bad(call) THEN "FAILED" ELSE "PARTIAL",
                                 !.failed = @ \/ bad(call), !.got = @ \/ ~bad(call)]
           /\ region' = [region EXCEPT ![d][r] = call.to]
  /\ pc' = "history"
  /\ UNCHANGED <<today, nation, history, aidfa, current, shown>>

PartitionComplete ==
  /\ Fallback /\ OpenRegions = {}
  /\ nation' = [nation EXCEPT ![Snapshot(c.date)] = "PARTITION"]
  /\ c' = [Begun EXCEPT !.st["current"] = "COMPLETE"] /\ pc' = "history"
  /\ UNCHANGED <<today, used, region, history, aidfa, current, pool, shown, upsets>>

-----------------------------------------------------------------------------
(* History only after a complete current snapshot, oldest missing day      *)
(* first, while permits last.                                              *)
HistoryPermits == Larger(0, Smaller(SyncMax, Left))
MayCollect == pc = "history" /\ c.st["current"] = "COMPLETE" /\ c.st["history"] # "FAILED"
Continues == c.st["history"] \in {"NOT_STARTED", "COMPLETE"}
Goes == /\ HistoryPermits > 0 /\ c.days < HistoryDays
        /\ Missing(c.date) # {} /\ Continues

(* History is read with advance_current=False.                             *)
CurrentAfter_Bug(d, call) == IF call.answer = "COMPLETE" THEN d ELSE current
CurrentAfter(d, call) == current

HistoryDay ==
  /\ MayCollect /\ Goes
  /\ LET d == Min(Missing(c.date))
     IN  \E call \in Calls(history[d], HistoryPermits, d \in Overlapping) :
           /\ Charge(call) /\ history' = [history EXCEPT ![d] = call.to]
           /\ current' = CurrentAfter(d, call)
           /\ c' = [Settle("history", call) EXCEPT !.days = @ + 1]
  /\ UNCHANGED <<today, nation, region, aidfa, pc, shown>>

(* A day that was not completed ends the loop before the permits are read  *)
(* again, with the status of its call.                                     *)
HistoryStatus ==
  CASE c.st["current"] \in {"FAILED", "WAITING_QUOTA"} -> c.st["current"]
    [] c.st["current"] \in {"PARTIAL", "RUNNING", "INCOMPLETE"} -> "WAITING_CURRENT"
    [] OTHER -> IF c.st["history"] = "FAILED" THEN "FAILED"
                ELSE IF Missing(c.date) = {} THEN "COMPLETE"
                ELSE IF Continues /\ HistoryPermits <= 0 THEN "WAITING_QUOTA"
                ELSE IF c.st["history"] = "COMPLETE" THEN "PARTIAL"
                ELSE c.st["history"]

Combined(states) ==
  IF "FAILED" \in states THEN "FAILED"
  ELSE IF "WAITING_QUOTA" \in states /\ states \subseteq {"COMPLETE", "WAITING_QUOTA"}
       THEN "WAITING_QUOTA"
  ELSE IF states = {"COMPLETE"} THEN "COMPLETE" ELSE "PARTIAL"

HistoryEnd ==
  /\ pc = "history" /\ ~(MayCollect /\ Goes)
  /\ LET st == [c.st EXCEPT !["history"] = HistoryStatus]
     IN  c' = [c EXCEPT !.st = st, !.budget = Combined({st[l] : l \in Layers})]
  /\ pc' = "maintain"
  /\ UNCHANGED <<today, used, scopes, pool, shown, upsets>>

(* Repair, a classification pass over what was collected, retention.       *)
Maintain ==
  /\ pc = "maintain" /\ pc' = "finish"
  /\ pool' = IF c.got THEN pool - Smaller(pool, Batch) ELSE pool
  /\ UNCHANGED <<today, used, scopes, c, shown, upsets>>

ComponentState(value, failed) ==
  CASE failed -> "FAILED"
    [] ~failed /\ value \in {"COMPLETE", "WAITING_QUOTA"} -> value
    [] ~failed /\ value = "WAITING_POSTGRES" -> "WAITING_STORAGE"
    [] ~failed /\ value = "WAITING_KEY" -> "WAITING_KEYS"
    [] OTHER -> "PARTIAL"

Finish ==
  /\ pc = "finish" /\ pc' = "idle" /\ c' = NoCycle
  /\ runState' = ComponentState(c.budget, c.failed)
  /\ UNCHANGED <<today, used, scopes, pool, shopState, upsets>>

(* Memory pressure leaves a budget cycle from anywhere; so does a kill.    *)
Stop ==
  /\ pc # "idle" /\ upsets < MaxUpsets /\ upsets' = upsets + 1
  /\ pc' = "idle" /\ c' = NoCycle
  /\ IF pc \in {"shop", "smart", "retention", "shopend"}
       THEN shopState' = "FAILED" /\ UNCHANGED runState
       ELSE runState' = "WAITING_MEMORY" /\ UNCHANGED shopState
  /\ UNCHANGED <<today, used, scopes, pool>>

Next ==
  \/ Midnight \/ Refused \/ Begin \/ Shopping \/ SmartReplay \/ Retention \/ ShoppingEnd
  \/ NotReady \/ Precheck \/ Admit \/ Future \/ CurrentYear
  \/ ReservePermits \/ NoPermits \/ Nationwide \/ PlanNotReady \/ NextRegion
  \/ PartitionComplete \/ HistoryDay \/ HistoryEnd \/ Maintain \/ Finish \/ Stop
Spec == Init /\ [][Next]_vars

-----------------------------------------------------------------------------
ScopeStates == Active \cup Finished \cup {"ABSENT", "SUPERSEDED"}
TypeOK ==
  /\ today \in Days /\ used \in Nat
  /\ nation \in [Days -> ScopeStates] /\ history \in [Days -> ScopeStates]
  /\ region \in [Days -> [Regions -> ScopeStates]]
  /\ aidfa \in [{"future", "appropriation"} -> 0..LastToday]
  /\ current \in 0..LastToday /\ pool \in 0..MaxPool /\ upsets \in 0..MaxUpsets
  /\ pc \in {"idle", "shop", "smart", "retention", "shopend", "classify", "admit", "future",
             "appropriation", "reserve", "current", "history", "maintain", "finish"}
  /\ {runState, shopState} \subseteq
       {"IDLE", "RUNNING", "FAILED", "COMPLETE", "PARTIAL", "LEASE_HELD", "WAITING_QUOTA",
        "WAITING_KEYS", "WAITING_STORAGE", "WAITING_MEMORY"}

(* The permits of five consecutive contexts never add up to more requests  *)
(* than a Korean day allows, whatever the layers before have spent, and a  *)
(* cycle that drains classifications has spent none: it has not started a  *)
(* layer ("a cycle that is reducing classification backlog performs zero   *)
(* source requests", vnext_clean_app.py:2555).                             *)
RequestsAreCovered ==
  /\ TypeOK /\ used <= Quota
  /\ c.drained => \A l \in Layers : c.st[l] = "NOT_STARTED"

(* The current rows are never reconciled with an older snapshot than the   *)
(* last: resuming an abandoned day would delete rows that newer days add.  *)
CurrentNeverBackwards == [][current' >= current]_vars

(* The budget publishes COMPLETE only if the snapshot the cycle chose is   *)
(* finished, both appropriations were read on the cycle's date, and no day *)
(* of the source window is missing both as snapshot and as history; the    *)
(* shopping only if memory stopped neither its collection nor the replay.  *)
CompleteIsWhole ==
  [][/\ runState' = "COMPLETE" /\ runState # "COMPLETE" =>
          /\ c.snap # 0 /\ nation[c.snap] \in Finished
          /\ \A k \in DOMAIN aidfa : aidfa[k] >= c.date
          /\ \A d \in WindowDays(c.date) : "COMPLETE" \in {nation[d], history[d]}
     /\ shopState' = "COMPLETE" /\ shopState # "COMPLETE" =>
          c.shop = "COMPLETE" /\ c.smart \notin {"RUNNING", "WAITING_MEMORY"}]_vars

=============================================================================
