-------------------------- MODULE ForwardSchedule --------------------------
(***************************************************************************)
(* Which source days a shopping run collects, in which order, and what it  *)
(* remembers: shopping_recent_vnext.collect_forward.  A day is one scope   *)
(* of PageCollection; here only whether the scope is complete matters.     *)
(* Reopening a complete scope (resume=False) makes it incomplete until the *)
(* new scan completes.                                                     *)
(*                                                                         *)
(* Days are numbered from BOOTSTRAP_START_DATE = 1.  One run at a time:    *)
(* the source lease.  A run fixes its dates when it begins; the calendar   *)
(* goes on meanwhile.  Skipping a day reads only, and is part of the step  *)
(* that follows it.                                                        *)
(***************************************************************************)
EXTENDS Integers, FiniteSets, FiniteSetsExt

CONSTANTS
  FirstToday,      \* the dates on which the deployment may start
  LastToday,       \* bound on the calendar
  Retention,       \* days kept (retention_days, or retention_months in days)
  DayBudget,       \* max_days: days one run may attempt
  RecheckDays,     \* recheck_days: the newest days, re-read daily when caught up
  RecentWindow,    \* BACKLOG_RECENT_WINDOW_DAYS
  LongtailPerRun,  \* longtail_recheck_days_per_run
  StuckSets,       \* sets of days the source never completes
  MaxUpsets        \* bound on partial days, quota stops, failures and crashes

ScheduleAssumption ==
  /\ LastToday \in Nat \ {0} /\ FirstToday \subseteq 1..LastToday
  /\ {Retention, DayBudget, RecentWindow} \subseteq Nat \ {0}
  /\ {RecheckDays, LongtailPerRun, MaxUpsets} \subseteq Nat
  /\ \A s \in StuckSets : s \subseteq 1..LastToday

VARIABLES
  today,     \* the Korean date
  stuck,     \* the days the source never completes; never changes
  done,      \* days whose scope is complete
  recheck,   \* RECHECK_STATE_KEY: run date and the days rechecked under it
  longtail,  \* LONGTAIL_RECHECK_STATE_KEY: the same and the rotating cursor
  status,    \* shopping_recent_state
  pc,        \* where the run is
  run,       \* the local variables of collect_forward
  seen,      \* history: the latest run date and the days completed under it
  spent,     \* history: under it, re-reads begun minus re-reads cut short
  upsets

settings == <<recheck, longtail, status>>
history == <<seen, spent>>
vars == <<today, stuck, done, settings, pc, run, history, upsets>>

Days == 1..LastToday
Larger(a, b) == IF a > b THEN a ELSE b
Smaller(a, b) == IF a < b THEN a ELSE b

-----------------------------------------------------------------------------
(* Dates of a run.                                                         *)
StartDay(date) == Larger(1, date - Retention)
LatestDay(date) == date - 1                          \* LATEST_SOURCE_LAG_DAYS
Newest(start, latest, n) == IF n = 0 THEN {} ELSE Larger(start, latest - n + 1)..latest
LongtailDays(start, latest) == (start..latest) \ Newest(start, latest, RecheckDays)

(* The remembered days count under the date of the run only.               *)
Flags_Bug(state, date) == state.dates            \* flags of yesterday still count
Flags(state, date) == IF state.date = date THEN state.dates ELSE {}

Cursor(days) == IF longtail.next \in days THEN longtail.next ELSE Min(days)
NextRotating(d, days) == IF d + 1 \in days THEN d + 1 ELSE Min(days)

Priority(start, latest) ==
  IF latest > start /\ latest \notin done THEN latest ELSE 0
RecentDay(start, latest, date) ==
  LET open == Newest(start, latest, Smaller(RecheckDays, RecentWindow))
              \ (Flags(recheck, date) \cup {Priority(start, latest)})
  IN  IF open = {} THEN 0 ELSE Max(open)

NoRun == [date |-> 0, start |-> 1, latest |-> 0, priority |-> 0, recent |-> 0,
          todo |-> {}, fresh |-> {}, used |-> 0, left |-> FALSE, loop |-> "days",
          day |-> 0, reread |-> FALSE]
Idle == pc' = "idle" /\ run' = NoRun

-----------------------------------------------------------------------------
Init ==
  /\ today \in FirstToday /\ stuck \in StuckSets
  /\ done = {} /\ status = "NONE" /\ pc = "idle" /\ run = NoRun
  /\ recheck = [date |-> 0, dates |-> {}]
  /\ longtail = [date |-> 0, dates |-> {}, next |-> 1]
  /\ seen = [date |-> 0, dates |-> {}] /\ spent = [d \in Days |-> 0] /\ upsets = 0

Midnight ==
  /\ today < LastToday /\ today' = today + 1
  /\ UNCHANGED <<stuck, done, settings, pc, run, history, upsets>>

(* A run starts.  History restarts with a new run date.                    *)
Begin ==
  LET start == StartDay(today)
      latest == LatestDay(today)
  IN  /\ pc = "idle"
      /\ IF start > latest
           THEN /\ status # "COMPLETE" /\ status' = "COMPLETE"
                /\ UNCHANGED <<pc, run, history>>
           ELSE /\ status' = "RUNNING" /\ pc' = "days"
                /\ run' = [NoRun EXCEPT !.date = today, !.start = start, !.latest = latest,
                             !.priority = Priority(start, latest),
                             !.recent = RecentDay(start, latest, today),
                             !.todo = start..latest]
                /\ IF seen.date = today THEN UNCHANGED history
                   ELSE /\ seen' = [date |-> today, dates |-> {}]
                        /\ spent' = [d \in Days |-> 0]
      /\ UNCHANGED <<today, stuck, done, recheck, longtail, upsets>>

(* prepare_collection_storage raises.                                      *)
PrepareFails ==
  /\ pc = "idle" /\ StartDay(today) <= LatestDay(today) /\ upsets < MaxUpsets
  /\ status' = "FAILED" /\ upsets' = upsets + 1
  /\ UNCHANGED <<today, stuck, done, recheck, longtail, pc, run, history>>

(* Every loop starts a collection with this.                               *)
Collect(d, reread, loop) ==
  /\ pc' = "fetch"
  /\ run' = [run EXCEPT !.day = d, !.reread = reread, !.loop = loop,
               !.todo = IF loop = "longtail" THEN @ ELSE @ \ {d},
               !.used = IF loop = "days" THEN @ + 1 ELSE @]
  /\ IF reread THEN done' = done \ {d} /\ spent' = [spent EXCEPT ![d] = @ + 1]
               ELSE UNCHANGED <<done, spent>>
  /\ UNCHANGED <<today, stuck, settings, seen, upsets>>

-----------------------------------------------------------------------------
(* The loop over the days: D-1 if it is not complete, one recent day, then *)
(* ascending.  A complete day is skipped unless it is the recent one.      *)
InOrder_Bug(todo) == Min(todo)                          \* oldest first
InOrder(todo) ==
  CASE run.priority \in todo -> run.priority
    [] run.priority \notin todo /\ run.recent \in todo -> run.recent
    [] OTHER -> Min(todo)

Open == {d \in run.todo : d = run.recent \/ d \notin done}

VisitDay ==
  /\ pc = "days" /\ Open # {} /\ run.used < DayBudget
  /\ LET d == InOrder(Open) IN Collect(d, d = run.recent /\ d \in done, "days")

(* After the loop: a re-check of the newest days if nothing is left.       *)
DaysLeft_Bug == \E d \in run.start..run.latest : d \notin done \cup run.fresh \cup run.todo
DaysLeft == \E d \in run.start..run.latest : d \notin run.fresh \cup done

DaysEnd ==
  /\ pc = "days" /\ (Open = {} \/ run.used >= DayBudget)
  /\ LET left == DaysLeft
     IN  /\ run' = [run EXCEPT !.left = left, !.loop = "recheck",
                      !.todo = IF left THEN {} ELSE Newest(run.start, run.latest, RecheckDays)]
         /\ pc' = IF left THEN "finish" ELSE "recheck"
  /\ UNCHANGED <<today, stuck, done, settings, history, upsets>>

(* collect_all returns complete.                                           *)
FetchComplete ==
  /\ pc = "fetch" /\ run.day \notin stuck
  /\ done' = done \cup {run.day}
  /\ seen' = [seen EXCEPT !.dates = @ \cup {run.day}]
  /\ IF run.loop # "days" \/ run.reread
       THEN pc' = "save" /\ UNCHANGED run
       ELSE pc' = "days" /\ run' = [run EXCEPT !.fresh = @ \cup {run.day}]
  /\ UNCHANGED <<today, stuck, settings, spent, upsets>>

Cut == IF run.reread THEN [spent EXCEPT ![run.day] = @ - 1] ELSE spent
Upset == upsets' = IF run.day \in stuck THEN upsets ELSE upsets + 1

(* The page limit or the source ends it early: the whole run stops in the  *)
(* first loop, the re-checks only stop themselves.                         *)
FetchPartial ==
  /\ pc = "fetch" /\ (run.day \in stuck \/ upsets < MaxUpsets) /\ Upset
  /\ spent' = Cut
  /\ IF run.loop = "days" THEN status' = "PARTIAL" /\ Idle
     ELSE /\ pc' = "finish" /\ run' = [run EXCEPT !.left = TRUE] /\ UNCHANGED status
  /\ UNCHANGED <<today, stuck, done, recheck, longtail, seen>>

(* It raises: the daily quota, the 64 requests of the context, a failure.  *)
FetchRaises ==
  /\ pc = "fetch" /\ upsets < MaxUpsets /\ upsets' = upsets + 1
  /\ spent' = Cut
  /\ status' \in {"WAITING_QUOTA", "PARTIAL", "FAILED"} /\ Idle
  /\ UNCHANGED <<today, stuck, done, recheck, longtail, seen>>

(* The completed re-read is remembered, in a transaction of its own.       *)
SavedFlags_Bug(d) == [date |-> run.date, dates |-> {d}]         \* forgets the others
SavedFlags(d) == [date |-> run.date, dates |-> Flags(recheck, run.date) \cup {d}]
SaveFlag ==
  /\ pc = "save" /\ run.loop \in {"days", "recheck"}
  /\ recheck' = SavedFlags(run.day) /\ pc' = run.loop
  /\ UNCHANGED <<today, stuck, done, longtail, status, run, history, upsets>>

-----------------------------------------------------------------------------
(* The newest days once more; what this run has collected counts.          *)
Unchecked == run.todo \ Flags(recheck, run.date)

RecheckFresh ==
  /\ pc = "recheck" /\ Unchecked # {} /\ Min(Unchecked) \in run.fresh
  /\ recheck' = SavedFlags(Min(Unchecked))
  /\ UNCHANGED <<today, stuck, done, longtail, status, pc, run, history, upsets>>

RecheckDay ==
  /\ pc = "recheck" /\ Unchecked # {} /\ Min(Unchecked) \notin run.fresh
  /\ Collect(Min(Unchecked), TRUE, "recheck")

LongtailSlots == LongtailPerRun - Cardinality(Flags(longtail, run.date))

RecheckEnd ==
  /\ pc = "recheck" /\ Unchecked = {}
  /\ LET days == LongtailDays(run.start, run.latest)
         go == run.used = 0 /\ days # {} /\ LongtailSlots > 0
     IN  /\ pc' = IF go THEN "longtail" ELSE "finish"
         /\ run' = [run EXCEPT !.todo = IF go THEN days ELSE {}, !.loop = "longtail",
                      !.day = IF go THEN Cursor(days) ELSE 0]
  /\ UNCHANGED <<today, stuck, done, settings, history, upsets>>

-----------------------------------------------------------------------------
(* The long tail: run.day is the cursor, run.todo what the rotation still  *)
(* has to visit.  A day re-read today is passed.                           *)
LongDays == LongtailDays(run.start, run.latest)
Advance(date, dates) ==
  longtail' = [date |-> date, dates |-> dates, next |-> NextRotating(run.day, LongDays)]
PassedToday == Flags(recheck, run.date) \cup Flags(longtail, run.date)

PassLongtail ==
  /\ pc = "longtail" /\ run.todo # {} /\ run.day \in PassedToday
  /\ Advance(run.date, Flags(longtail, run.date))
  /\ run' = [run EXCEPT !.todo = @ \ {run.day}, !.day = NextRotating(@, LongDays)]
  /\ UNCHANGED <<today, stuck, done, recheck, status, pc, history, upsets>>

LongtailDay ==
  /\ pc = "longtail" /\ run.todo # {} /\ run.day \notin PassedToday
  /\ Collect(run.day, TRUE, "longtail")

SaveLongtail ==
  LET dates == Flags(longtail, run.date) \cup {run.day}
  IN  /\ pc = "save" /\ run.loop = "longtail"
      /\ Advance(run.date, dates)
      /\ run' = [run EXCEPT !.todo = @ \ {run.day}, !.day = NextRotating(@, LongDays)]
      /\ pc' = IF Cardinality(dates) >= LongtailPerRun THEN "finish" ELSE "longtail"
      /\ UNCHANGED <<today, stuck, done, recheck, status, history, upsets>>

LongtailEnd ==
  /\ pc = "longtail" /\ run.todo = {}
  /\ pc' = "finish" /\ UNCHANGED <<today, stuck, done, settings, run, history, upsets>>

Finish ==
  /\ pc = "finish"
  /\ status' = (IF run.left THEN "PARTIAL" ELSE "COMPLETE") /\ Idle
  /\ UNCHANGED <<today, stuck, done, recheck, longtail, history, upsets>>

(* The child is killed: the settings and the scopes stay as they are.      *)
Crash ==
  /\ pc # "idle" /\ upsets < MaxUpsets /\ upsets' = upsets + 1 /\ Idle
  /\ spent' = IF pc \in {"fetch", "save"} THEN Cut ELSE spent
  /\ UNCHANGED <<today, stuck, done, settings, seen>>

Step ==
  \/ Begin \/ VisitDay \/ DaysEnd \/ FetchComplete \/ SaveFlag
  \/ RecheckFresh \/ RecheckDay \/ RecheckEnd
  \/ PassLongtail \/ LongtailDay \/ SaveLongtail \/ LongtailEnd \/ Finish
Next ==
  \/ Step \/ FetchPartial \/ FetchRaises
  \/ Midnight \/ PrepareFails \/ Crash

Spec == Init /\ [][Next]_vars
(* The scheduler calls the collector again and again; a day the source     *)
(* never completes ends in a partial result.                               *)
Fairness == WF_vars(Step) /\ WF_vars(pc = "fetch" /\ run.day \in stuck /\ FetchPartial)

FairSpec == Spec /\ Fairness

-----------------------------------------------------------------------------
State == [date : 0..LastToday, dates : SUBSET Days]
Run == [date : 0..LastToday, start : Days, latest : 0..LastToday,
        priority : 0..LastToday, recent : 0..LastToday, todo : SUBSET Days,
        fresh : SUBSET Days, used : 0..DayBudget, left : BOOLEAN,
        loop : {"days", "recheck", "longtail"}, day : 0..LastToday, reread : BOOLEAN]
TypeOK ==
  /\ today \in Days /\ stuck \in StuckSets /\ done \subseteq Days
  /\ recheck \in State /\ seen \in State
  /\ longtail \in [date : 0..LastToday, dates : SUBSET Days, next : Days]
  /\ status \in {"NONE", "RUNNING", "PARTIAL", "COMPLETE", "FAILED", "WAITING_QUOTA"}
  /\ pc \in {"idle", "days", "fetch", "save", "recheck", "longtail", "finish"}
  /\ run \in Run /\ spent \in [Days -> Int] /\ upsets \in 0..MaxUpsets

(* A day that is remembered as rechecked under the current run date was    *)
(* completed under it and is complete, whatever stopped the run: a flag    *)
(* set too early would hide late registrations until the next date.  The   *)
(* long tail likewise, and not more days than it may re-read.              *)
FlagIsEarned ==
  /\ TypeOK
  /\ recheck.date = seen.date => recheck.dates \subseteq seen.dates \cap done
  /\ longtail.date = seen.date =>
       /\ longtail.dates \subseteq seen.dates \cap done
       /\ Cardinality(longtail.dates) <= LongtailPerRun

(* A complete day is re-read at most once per run date; a second time only *)
(* if an earlier re-read was cut short before it was remembered.           *)
OneRereadPerDate == \A d \in Days : spent[d] <= 1

(* The run reports COMPLETE only if every day of the retention window is   *)
(* complete and every one of the newest RecheckDays was completed under    *)
(* the run date.                                                           *)
CompleteIsCurrent ==
  [][status' = "COMPLETE" /\ status # "COMPLETE" /\ pc = "finish" =>
       /\ run.start..run.latest \subseteq done
       /\ Newest(run.start, run.latest, RecheckDays) \subseteq seen.dates]_vars

(* Yesterday is served before the backlog, and within the dates the        *)
(* deployment sees it is eventually complete whatever old day is stuck;    *)
(* with a source that completes every day the whole window is, for good.   *)
YesterdayNotStarved == <>[](LatestDay(today) \in done \cup stuck \cup {0})
BacklogDrains == <>[](stuck = {} => StartDay(today)..LatestDay(today) \subseteq done)
Progress == YesterdayNotStarved /\ BacklogDrains

=============================================================================
