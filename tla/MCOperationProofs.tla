-------------------------- MODULE MCOperationProofs --------------------------
(***************************************************************************)
(* Proofs about the parts of MCOperation, which share no state: what is    *)
(* true of a part is true of the whole.  They hold for any processes and   *)
(* bounds, any calendar, window and budget of days, any regions, quota and *)
(* limits of requests.                                                     *)
(***************************************************************************)
EXTENDS MCOperation, FiniteSetTheorems, WellFoundedInduction, TLAPS

-----------------------------------------------------------------------------
(* Forward collection: the inductive invariant.                            *)
Busy == f_pc # "idle"
Loops == {"days", "recheck", "longtail"}
In(loop) == f_run.loop = loop /\ f_pc \in {loop, "fetch", "save"}
RunWindow == f_run.start..f_run.latest
NewestDays == F!Newest(f_run.start, f_run.latest, RecheckDays)
(* The day whose scope is open while the source is asked for it.           *)
Asked == IF f_pc = "fetch" THEN {f_run.day} ELSE {}
(* The days remembered under the latest run date.                          *)
Rechecked == F!Flags(f_recheck, f_seen.date)
Rotated == F!Flags(f_longtail, f_seen.date)

(* What is remembered is of the latest run or of an earlier one.           *)
Dated ==
  /\ f_recheck.date <= f_seen.date /\ f_longtail.date <= f_seen.date /\ f_seen.date <= f_today
  /\ Busy => /\ f_run.date = f_seen.date /\ f_run.date \in F!Days
             /\ f_run.start = F!StartDay(f_run.date) /\ f_run.latest = F!LatestDay(f_run.date)
             /\ f_run.todo \subseteq RunWindow /\ f_run.fresh \subseteq f_seen.dates \cap f_done
             /\ f_run.used = 0 => f_run.fresh = {}
  /\ f_pc \in Loops => f_run.loop = f_pc
  /\ f_pc \in {"fetch", "save"} => f_run.day \in RunWindow
  /\ f_pc = "save" => f_run.day \in f_seen.dates \cap f_done

(* A flag is earned; the long tail never holds one of the newest days.     *)
Earned ==
  /\ Rechecked \subseteq f_seen.dates \cap f_done
  /\ Rotated \subseteq f_seen.dates \cap f_done
  /\ Rotated \subseteq F!LongtailDays(F!StartDay(f_seen.date), F!LatestDay(f_seen.date))
  /\ Cardinality(Rotated) <= LongtailPerRun

(* The day to visit out of turn is one of the newest and is not re-read    *)
(* after it is remembered.                                                 *)
Visiting ==
  In("days") =>
    /\ f_run.recent \in NewestDays \cup {0} /\ f_run.todo \cap f_run.fresh = {}
    /\ f_run.recent \in f_run.todo => f_run.recent \notin Rechecked
    /\ f_pc # "days" => f_run.day \notin f_run.todo /\ f_run.used # 0

Rotating ==
  In("longtail") =>
    /\ f_run.used = 0 /\ Cardinality(Rotated) < LongtailPerRun
    /\ f_run.day \in F!LongtailDays(f_run.start, f_run.latest)

(* Once the loop over the days left nothing, all are complete but the one  *)
(* that is read again.                                                     *)
Caught ==
  /\ In("recheck") \/ In("longtail") \/ (f_pc = "finish" /\ ~f_run.left) =>
       RunWindow \subseteq f_done \cup Asked
  /\ In("recheck") => /\ f_run.todo \subseteq NewestDays
                      /\ NewestDays \subseteq f_run.todo \cup f_seen.dates \cup Asked
  /\ In("longtail") \/ (f_pc = "finish" /\ ~f_run.left) => NewestDays \subseteq f_seen.dates

(* A re-read that was begun is under way, remembered or was cut short.     *)
Rereading == IF f_pc \in {"fetch", "save"} /\ f_run.reread THEN {f_run.day} ELSE {}
Spent ==
  \A d \in F!Days :
    /\ f_spent[d] <= 1
    /\ f_spent[d] = 1 => d \in Rechecked \cup Rotated \cup Rereading

ForwardInv ==
  F!TypeOK /\ Dated /\ Earned /\ Visiting /\ Rotating /\ Caught /\ Spent

-----------------------------------------------------------------------------
(* Smallest and largest elements.                                          *)
LEMMA Least ==
  ASSUME NEW T, T \subseteq Nat, T # {}
  PROVE  \E x \in T : \A y \in T : x <= y
<1> DEFINE R == OpToRel(<, Nat)
<1>1. IsWellFoundedOn(R, Nat)
  BY NatLessThanWellFounded
<1> HIDE DEF R
<1>2. PICK x \in T : \A y \in T : ~(<<y, x>> \in R)
  BY <1>1, WFMin
<1>3. \A a, b \in Nat : a < b => <<a, b>> \in R
  BY DEF R, OpToRel
<1>4. ASSUME NEW y \in T PROVE x <= y
  <2>1. ~(<<y, x>> \in R) /\ x \in Nat /\ y \in Nat
    BY <1>2
  <2>2. ~(y < x)
    BY <1>3, <2>1
  <2>3. QED
    BY <2>1, <2>2
<1>5. QED
  BY <1>4

LEMMA Greatest ==
  ASSUME NEW n \in Nat, NEW T, T \subseteq 0..n, T # {}
  PROVE  \E x \in T : \A y \in T : x >= y
<1>1. PICK U : U = {n - y : y \in T}
  OBVIOUS
<1>2. U \subseteq Nat /\ U # {}
  <2>1. \A y \in T : n - y \in Nat
    OBVIOUS
  <2>2. QED
    BY <1>1, <2>1
<1>3. PICK u \in U : \A v \in U : u <= v
  BY <1>2, Least
<1>4. PICK x \in T : u = n - x
  BY <1>1
<1>5. ASSUME NEW y \in T PROVE x >= y
  <2>1. n - y \in U
    BY <1>1
  <2>2. n - x <= n - y
    BY <1>3, <1>4, <2>1
  <2>3. x \in Nat /\ y \in Nat
    OBVIOUS
  <2>4. QED
    BY <2>2, <2>3
<1>6. QED
  BY <1>5

LEMMA ForwardMin ==
  ASSUME NEW T, T \subseteq Nat, T # {}
  PROVE  F!Min(T) \in T
BY Least DEF F!Min

LEMMA ForwardMax ==
  ASSUME NEW n \in Nat, NEW T, T \subseteq 0..n, T # {}
  PROVE  F!Max(T) \in T
BY Greatest DEF F!Max

LEMMA SameCardinality == \A s : F!Cardinality(s) = Cardinality(s)
BY Zenon DEF F!Cardinality, Cardinality

-----------------------------------------------------------------------------
(* Dates and the fields of a run.                                          *)
LEMMA ForwardConstants ==
  /\ ForwardDays \in Nat /\ ForwardDays >= 1 /\ FirstToday \subseteq 1..ForwardDays
  /\ KeptDays \in Nat /\ KeptDays >= 1 /\ DayBudget \in Nat /\ DayBudget >= 1
  /\ RecentWindow \in Nat /\ RecheckDays \in Nat /\ LongtailPerRun \in Nat /\ MaxUpsets \in Nat
  /\ F!Days \subseteq Nat
BY InstancesAssumption DEF F!ScheduleAssumption, F!Days

LEMMA RunFacts ==
  ASSUME F!TypeOK
  PROVE  /\ f_run.date \in 0..ForwardDays /\ f_run.start \in F!Days /\ f_run.latest \in 0..ForwardDays
         /\ f_run.todo \subseteq F!Days /\ f_run.fresh \subseteq F!Days /\ f_run.used \in 0..DayBudget
         /\ f_run.day \in 0..ForwardDays /\ f_run.recent \in 0..ForwardDays
         /\ f_run.left \in BOOLEAN /\ f_run.reread \in BOOLEAN
BY DEF F!TypeOK, F!Run

LEMMA StateFacts ==
  ASSUME F!TypeOK
  PROVE  /\ f_today \in F!Days /\ f_done \subseteq F!Days
         /\ f_recheck.date \in 0..ForwardDays /\ f_recheck.dates \subseteq F!Days
         /\ f_seen.date \in 0..ForwardDays /\ f_seen.dates \subseteq F!Days
         /\ f_longtail.date \in 0..ForwardDays /\ f_longtail.dates \subseteq F!Days
         /\ f_longtail.next \in F!Days /\ f_spent \in [F!Days -> Int]
BY DEF F!TypeOK, F!State

LEMMA DatesAreNat ==
  ASSUME F!TypeOK
  PROVE  f_recheck.date \in Nat /\ f_longtail.date \in Nat /\ f_seen.date \in Nat /\ f_today \in Nat
<1>1. 0..ForwardDays \subseteq Nat /\ F!Days \subseteq Nat
  BY ForwardConstants
<1>2. QED
  BY <1>1, StateFacts

LEMMA NewestFacts ==
  ASSUME NEW a \in Nat, NEW b \in Nat, NEW n \in Nat, NEW m \in Nat
  PROVE  /\ F!Newest(a, b, n) \subseteq a..b
         /\ F!Newest(a, b, F!Smaller(n, m)) \subseteq F!Newest(a, b, n)
<1>1. F!Newest(a, b, n) \subseteq a..b
  BY DEF F!Newest, F!Larger
<1>2. CASE n <= m
  <2>1. F!Smaller(n, m) = n
    BY <1>2 DEF F!Smaller
  <2>2. QED
    BY <1>1, <2>1
<1>3. CASE n > m
  BY <1>3 DEF F!Newest, F!Smaller, F!Larger
<1>4. QED
  BY <1>1, <1>2, <1>3

LEMMA RotationFacts ==
  ASSUME NEW days, days \subseteq Nat, days # {}, NEW d \in Nat
  PROVE  F!NextRotating(d, days) \in days /\ F!Cursor(days) \in days
BY ForwardMin DEF F!NextRotating, F!Cursor

(* What the flags of a date are once one is added, or of a later date.     *)
LEMMA FlagFacts ==
  ASSUME NEW s, NEW date, NEW e, NEW dates
  PROVE  /\ F!Flags([date |-> date, dates |-> dates], date) = dates
         /\ s.date # e => F!Flags(s, e) = {}
BY DEF F!Flags

-----------------------------------------------------------------------------
LEMMA ForwardStarts == F!Init => ForwardInv
<1> SUFFICES ASSUME F!Init PROVE ForwardInv
  OBVIOUS
<1>1. f_pc = "idle" /\ f_run = F!NoRun /\ f_done = {} /\ f_today \in F!Days
  BY ForwardConstants DEF F!Init, F!Days
<1>2. f_recheck.date = 0 /\ f_longtail.date = 0 /\ f_seen.date = 0
      /\ f_recheck.dates = {} /\ f_longtail.dates = {} /\ f_seen.dates = {}
  BY DEF F!Init
<1>3. F!NoRun \in F!Run
  BY ForwardConstants DEF F!NoRun, F!Run, F!Days
<1>4. f_recheck \in F!State /\ f_seen \in F!State
      /\ f_longtail \in [date : 0..ForwardDays, dates : SUBSET F!Days, next : F!Days]
  BY ForwardConstants DEF F!Init, F!State, F!Days
<1>5. f_stuck \in StuckSets /\ f_upsets \in 0..MaxUpsets /\ f_spent = [d \in F!Days |-> 0]
  BY ForwardConstants DEF F!Init
<1>6. F!TypeOK
  BY <1>1, <1>3, <1>4, <1>5 DEF F!TypeOK, F!Init
<1>7. Dated
  BY <1>1, <1>2, ForwardConstants DEF Dated, Busy, Loops, F!Days
<1>8. Rechecked = {} /\ Rotated = {}
  BY <1>2 DEF Rechecked, Rotated, F!Flags
<1>9. Earned
  BY <1>8, FS_EmptySet, ForwardConstants DEF Earned
<1>10. ~In("days") /\ ~In("recheck") /\ ~In("longtail") /\ f_pc # "finish"
  BY <1>1 DEF In
<1>11. Visiting /\ Rotating /\ Caught
  BY <1>10 DEF Visiting, Rotating, Caught
<1>12. Spent
  BY <1>5 DEF Spent
<1>13. QED
  BY <1>6, <1>7, <1>9, <1>11, <1>12 DEF ForwardInv

-----------------------------------------------------------------------------
(* The steps.                                                              *)
LEMMA MidnightKeepsForward ==
  ASSUME ForwardInv, F!Midnight
  PROVE  ForwardInv'
<1>1. /\ f_today < ForwardDays /\ f_today' = f_today + 1
      /\ UNCHANGED <<f_stuck, f_done, f_recheck, f_longtail, f_status, f_pc, f_run, f_seen,
                     f_spent, f_upsets>>
  BY DEF F!Midnight, F!settings, F!history
<1>2. F!TypeOK'
  BY <1>1, ForwardConstants DEF ForwardInv, F!TypeOK, F!Days
<1>3. Dated'
  <2>1. f_seen.date <= f_today'
    BY <1>1, StateFacts, ForwardConstants DEF ForwardInv, Dated, F!Days
  <2>2. QED
    BY <1>1, <2>1 DEF ForwardInv, Dated, Busy, RunWindow, F!StartDay, F!LatestDay
<1>4. /\ Rechecked' = Rechecked /\ Rotated' = Rotated /\ Rereading' = Rereading /\ Asked' = Asked
      /\ NewestDays' = NewestDays /\ RunWindow' = RunWindow
  BY <1>1 DEF Rechecked, Rotated, Rereading, Asked, NewestDays, RunWindow, F!Flags
<1>5. In("days")' = In("days") /\ In("recheck")' = In("recheck") /\ In("longtail")' = In("longtail")
  BY <1>1 DEF In
<1>6. Earned' /\ Visiting' /\ Rotating' /\ Caught' /\ Spent'
  BY <1>1, <1>4, <1>5 DEF ForwardInv, Earned, Visiting, Rotating, Caught, Spent, F!LongtailDays
<1>7. QED
  BY <1>2, <1>3, <1>6 DEF ForwardInv

(* Cutting a re-read short takes it off what was spent.                    *)
LEMMA CutSpent ==
  ASSUME F!TypeOK, Spent, NEW d \in F!Days, NEW s,
         s = IF f_pc \in {"fetch", "save"} THEN F!Cut ELSE f_spent
  PROVE  s[d] <= 1 /\ (s[d] = 1 => d \in Rechecked \cup Rotated)
<1>1. f_spent \in [F!Days -> Int] /\ f_spent[d] \in Int
  BY StateFacts
<1>2. f_spent[d] <= 1 /\ (f_spent[d] = 1 => d \in Rechecked \cup Rotated \cup Rereading)
  BY DEF Spent
<1>3. CASE d \in Rereading
  <2>1. s[d] = f_spent[d] - 1
    BY <1>1, <1>3 DEF Rereading, F!Cut
  <2>2. s[d] <= 0 /\ s[d] # 1
    BY <1>1, <1>2, <2>1
  <2>3. QED
    BY <1>1, <2>1, <2>2
<1>4. CASE d \notin Rereading
  <2>1. s[d] = f_spent[d]
    BY <1>1, <1>4 DEF Rereading, F!Cut
  <2>2. QED
    BY <1>2, <1>4, <2>1
<1>5. QED
  BY <1>3, <1>4

(* A run ends: what it began and did not complete does not count as spent. *)
LEMMA RunEnds ==
  ASSUME ForwardInv, F!TypeOK', f_pc' = "idle", f_run' = F!NoRun,
         UNCHANGED <<f_today, f_done, f_recheck, f_longtail, f_seen>>,
         f_spent' = IF f_pc \in {"fetch", "save"} THEN F!Cut ELSE f_spent
  PROVE  ForwardInv'
<1>1. Dated'
  BY DEF ForwardInv, Dated, Busy, Loops
<1>2. Rechecked' = Rechecked /\ Rotated' = Rotated /\ Rereading' = {}
  BY DEF Rechecked, Rotated, Rereading, F!Flags
<1>3. Earned'
  BY <1>2 DEF ForwardInv, Earned
<1>4. ~In("days")' /\ ~In("recheck")' /\ ~In("longtail")' /\ f_pc' # "finish"
  BY DEF In
<1>5. Visiting' /\ Rotating' /\ Caught'
  BY <1>4 DEF Visiting, Rotating, Caught
<1>6. Spent'
  BY <1>2, CutSpent DEF ForwardInv, Spent
<1>7. QED
  BY <1>1, <1>3, <1>5, <1>6 DEF ForwardInv

LEMMA NoRunTyped == F!NoRun \in F!Run
BY ForwardConstants DEF F!NoRun, F!Run, F!Days

LEMMA CutTyped ==
  ASSUME F!TypeOK
  PROVE  F!Cut \in [F!Days -> Int]
<1>1. f_spent \in [F!Days -> Int] /\ \A d \in F!Days : f_spent[d] - 1 \in Int
  BY StateFacts
<1>2. [f_spent EXCEPT ![f_run.day] = f_spent[f_run.day] - 1] \in [F!Days -> Int]
  BY <1>1
<1>3. QED
  BY <1>1, <1>2 DEF F!Cut

LEMMA FinishKeepsForward ==
  ASSUME ForwardInv, F!Finish \/ F!FetchRaises \/ F!Crash
  PROVE  ForwardInv'
<1>1. /\ f_pc' = "idle" /\ f_run' = F!NoRun
      /\ UNCHANGED <<f_today, f_stuck, f_done, f_recheck, f_longtail, f_seen>>
  BY DEF F!Finish, F!FetchRaises, F!Crash, F!Idle, F!settings, F!history
<1>2. f_spent' = IF f_pc \in {"fetch", "save"} THEN F!Cut ELSE f_spent
  BY DEF F!Finish, F!FetchRaises, F!Crash, F!history
<1>3. f_upsets' = f_upsets \/ (f_upsets < MaxUpsets /\ f_upsets' = f_upsets + 1)
  BY DEF F!Finish, F!FetchRaises, F!Crash
<1>4. f_upsets' \in 0..MaxUpsets
  BY <1>3, ForwardConstants DEF ForwardInv, F!TypeOK
<1>5. f_status' \in {f_status, "WAITING_QUOTA", "PARTIAL", "FAILED", "COMPLETE"}
  BY DEF F!Finish, F!FetchRaises, F!Crash, F!settings
<1>6. F!TypeOK'
  BY <1>1, <1>2, <1>4, <1>5, NoRunTyped, CutTyped DEF ForwardInv, F!TypeOK
<1>7. QED
  BY <1>1, <1>2, <1>6, RunEnds

LEMMA PartialKeepsForward ==
  ASSUME ForwardInv, F!FetchPartial
  PROVE  ForwardInv'
<1>1. /\ f_pc = "fetch" /\ f_spent' = F!Cut
      /\ UNCHANGED <<f_today, f_stuck, f_done, f_recheck, f_longtail, f_seen>>
  BY DEF F!FetchPartial
<1>2. f_upsets' \in 0..MaxUpsets
  <2>1. f_upsets' = f_upsets \/ (f_upsets < MaxUpsets /\ f_upsets' = f_upsets + 1)
    BY DEF F!FetchPartial, F!Upset
  <2>2. QED
    BY <2>1, ForwardConstants DEF ForwardInv, F!TypeOK
<1>3. CASE f_run.loop = "days"
  <2>1. f_pc' = "idle" /\ f_run' = F!NoRun /\ f_status' = "PARTIAL"
    BY <1>3 DEF F!FetchPartial, F!Idle
  <2>2. F!TypeOK'
    BY <1>1, <1>2, <2>1, NoRunTyped, CutTyped DEF ForwardInv, F!TypeOK
  <2>3. QED
    BY <1>1, <2>1, <2>2, RunEnds
<1>4. CASE f_run.loop # "days"
  <2>1. f_pc' = "finish" /\ f_run' = [f_run EXCEPT !.left = TRUE] /\ f_status' = f_status
    BY <1>4 DEF F!FetchPartial
  <2>2. f_run' \in F!Run /\ f_run'.left
    BY <2>1 DEF ForwardInv, F!TypeOK, F!Run
  <2>3. F!TypeOK'
    BY <1>1, <1>2, <2>1, <2>2, CutTyped DEF ForwardInv, F!TypeOK
  <2>4. /\ f_run'.date = f_run.date /\ f_run'.start = f_run.start /\ f_run'.latest = f_run.latest
        /\ f_run'.todo = f_run.todo /\ f_run'.fresh = f_run.fresh /\ f_run'.used = f_run.used
    BY <2>1 DEF ForwardInv, F!TypeOK, F!Run
  <2>5. Dated'
    BY <1>1, <2>1, <2>4 DEF ForwardInv, Dated, Busy, Loops, RunWindow
  <2>6. Rechecked' = Rechecked /\ Rotated' = Rotated /\ Rereading' = {}
    BY <1>1, <2>1 DEF Rechecked, Rotated, Rereading, F!Flags
  <2>7. Earned'
    BY <1>1, <2>6 DEF ForwardInv, Earned
  <2>8. ~In("days")' /\ ~In("recheck")' /\ ~In("longtail")'
    BY <2>1 DEF In
  <2>9. Visiting' /\ Rotating' /\ Caught'
    BY <2>2, <2>8 DEF Visiting, Rotating, Caught
  <2>10. Spent'
    BY <1>1, <2>6, CutSpent DEF ForwardInv, Spent
  <2>11. QED
    BY <2>3, <2>5, <2>7, <2>9, <2>10 DEF ForwardInv
<1>5. QED
  BY <1>3, <1>4

(* A collection begins: the day was not remembered if it is read again.    *)
LEMMA CollectKeepsForward ==
  ASSUME ForwardInv, NEW d \in RunWindow, NEW r \in BOOLEAN, NEW loop \in Loops,
         f_pc = loop, F!Collect(d, r, loop),
         r => d \notin Rechecked \cup Rotated \cup f_run.fresh,
         loop = "days" => f_run.used < DayBudget,
         loop = "longtail" => d = f_run.day
  PROVE  ForwardInv'
<1>1. /\ f_pc' = "fetch" /\ UNCHANGED <<f_today, f_stuck, f_recheck, f_longtail, f_status, f_seen, f_upsets>>
      /\ f_done' = IF r THEN f_done \ {d} ELSE f_done
      /\ f_spent' = IF r THEN [f_spent EXCEPT ![d] = f_spent[d] + 1] ELSE f_spent
  BY DEF F!Collect, F!settings
<1>2. f_run \in F!Run /\ f_run.loop = loop
  BY DEF ForwardInv, F!TypeOK, Dated
<1>3. /\ f_run'.day = d /\ f_run'.reread = r /\ f_run'.loop = loop
      /\ f_run'.todo = IF loop = "longtail" THEN f_run.todo ELSE f_run.todo \ {d}
      /\ f_run'.used = IF loop = "days" THEN f_run.used + 1 ELSE f_run.used
      /\ f_run'.date = f_run.date /\ f_run'.start = f_run.start /\ f_run'.latest = f_run.latest
      /\ f_run'.fresh = f_run.fresh /\ f_run'.recent = f_run.recent /\ f_run'.left = f_run.left
      /\ f_run'.priority = f_run.priority
  BY <1>2 DEF F!Collect, F!Run
<1>4. d \in F!Days
  <2>1. f_run.start \in 1..ForwardDays /\ f_run.latest \in 0..ForwardDays
    BY RunFacts DEF ForwardInv, F!Days
  <2>2. QED
    BY <2>1, ForwardConstants DEF RunWindow, F!Days
<1>5. f_run' \in F!Run
  <2>1. f_run'.used \in 0..DayBudget
    BY <1>3, RunFacts, ForwardConstants DEF ForwardInv
  <2>2. d \in 0..ForwardDays
    BY <1>4, ForwardConstants DEF F!Days
  <2>3. f_run' = [f_run EXCEPT !.day = d, !.reread = r, !.loop = loop,
                    !.todo = f_run'.todo, !.used = f_run'.used]
    BY <1>2, <1>3 DEF F!Collect, F!Run
  <2>4. f_run'.todo \subseteq F!Days
    BY <1>3, RunFacts DEF ForwardInv
  <2>5. QED
    BY <1>2, <2>1, <2>2, <2>3, <2>4 DEF F!Run, Loops
<1>6. f_spent' \in [F!Days -> Int] /\ f_done' \subseteq F!Days
  BY <1>1, <1>4, StateFacts DEF ForwardInv
<1>7. F!TypeOK'
  BY <1>1, <1>5, <1>6 DEF ForwardInv, F!TypeOK
<1>8. f_run.fresh \subseteq f_seen.dates \cap f_done /\ f_run.todo \subseteq RunWindow
      /\ (f_run.used = 0 => f_run.fresh = {}) /\ f_run.date = f_seen.date
  <2>1. Busy
    BY DEF Busy, Loops
  <2>2. QED
    BY <2>1 DEF ForwardInv, Dated
<1>9. f_run'.used = 0 => f_run.used = 0 /\ loop # "days"
  BY <1>3, RunFacts DEF ForwardInv
<1>10. RunWindow' = RunWindow /\ NewestDays' = NewestDays /\ Rechecked' = Rechecked /\ Rotated' = Rotated
  BY <1>1, <1>3 DEF RunWindow, NewestDays, Rechecked, Rotated, F!Flags
<1>11. Asked = {} /\ Asked' = {d} /\ Rereading = {} /\ Rereading' = IF r THEN {d} ELSE {}
  BY <1>1, <1>3 DEF Asked, Rereading, Loops
<1>12. Dated'
  BY <1>1, <1>3, <1>8, <1>9, <1>10, <1>11 DEF ForwardInv, Dated, Busy, Loops
<1>13. Earned'
  BY <1>1, <1>10 DEF ForwardInv, Earned
<1>14. \A l \in Loops : In(l)' <=> l = loop
  BY <1>1, <1>3 DEF In
<1>15. \A l \in Loops : In(l) <=> l = loop
  BY <1>2 DEF In, Loops
<1>16. Visiting'
  BY <1>1, <1>3, <1>9, <1>10, <1>14, <1>15 DEF ForwardInv, Visiting, Loops
<1>17. Rotating'
  BY <1>3, <1>10, <1>14, <1>15 DEF ForwardInv, Rotating, Loops
<1>18. f_pc # "finish" /\ f_pc' # "finish"
  BY <1>1 DEF Loops
<1>19. Caught'
  BY <1>1, <1>3, <1>10, <1>11, <1>14, <1>15, <1>18 DEF ForwardInv, Caught, Loops
<1>20. Spent'
  <2> SUFFICES ASSUME NEW e \in F!Days
               PROVE  /\ f_spent'[e] <= 1
                      /\ f_spent'[e] = 1 => e \in Rechecked \cup Rotated \cup Rereading'
    BY <1>10 DEF Spent
  <2>1. f_spent[e] \in Int /\ f_spent[e] <= 1 /\ (f_spent[e] = 1 => e \in Rechecked \cup Rotated)
    BY <1>11, StateFacts DEF ForwardInv, Spent
  <2>2. CASE r /\ e = d
    <3>1. f_spent[e] <= 0
      BY <2>1, <2>2
    <3>2. f_spent'[e] = f_spent[e] + 1
      BY <1>1, <2>2, StateFacts DEF ForwardInv
    <3>3. QED
      BY <2>1, <2>2, <3>1, <3>2, <1>11
  <2>3. CASE ~(r /\ e = d)
    <3>1. f_spent'[e] = f_spent[e]
      BY <1>1, <2>3, StateFacts DEF ForwardInv
    <3>2. QED
      BY <2>1, <3>1
  <2>4. QED
    BY <2>2, <2>3
<1>21. QED
  BY <1>7, <1>12, <1>13, <1>16, <1>17, <1>19, <1>20 DEF ForwardInv

LEMMA RotatedFinite ==
  ASSUME F!TypeOK
  PROVE  IsFiniteSet(Rotated) /\ Cardinality(Rotated) \in Nat
<1>1. Rotated \subseteq 1..ForwardDays
  BY StateFacts DEF Rotated, F!Flags, F!Days
<1>2. IsFiniteSet(1..ForwardDays)
  BY FS_Interval, ForwardConstants
<1>3. IsFiniteSet(Rotated)
  BY <1>1, <1>2, FS_Subset
<1>4. QED
  BY <1>3, FS_CardinalityType

(* What every collecting step needs to know about the window.              *)
LEMMA WindowFacts ==
  ASSUME ForwardInv, Busy
  PROVE  /\ f_run.date = f_seen.date /\ f_run.start \in Nat /\ f_run.start >= 1 /\ f_run.latest \in Nat
         /\ f_run.start = F!StartDay(f_seen.date) /\ f_run.latest = F!LatestDay(f_seen.date)
         /\ NewestDays \subseteq RunWindow /\ RunWindow \subseteq F!Days
         /\ Rotated \cap NewestDays = {} /\ f_run.todo \subseteq RunWindow
         /\ f_run.fresh \subseteq f_seen.dates \cap f_done
         /\ F!LongDays = RunWindow \ NewestDays
         /\ F!Flags(f_recheck, f_run.date) = Rechecked /\ F!Flags(f_longtail, f_run.date) = Rotated
<1>1. f_run.start \in 1..ForwardDays /\ f_run.latest \in 0..ForwardDays
  BY RunFacts DEF ForwardInv, F!Days
<1>2. f_run.start \in Nat /\ f_run.start >= 1 /\ f_run.latest \in Nat
  BY <1>1, ForwardConstants
<1>3. NewestDays \subseteq RunWindow
  BY <1>2, NewestFacts, ForwardConstants DEF NewestDays, RunWindow
<1>4. RunWindow \subseteq F!Days
  BY <1>1, ForwardConstants DEF RunWindow, F!Days
<1>5. /\ f_run.date = f_seen.date /\ f_run.start = F!StartDay(f_seen.date)
      /\ f_run.latest = F!LatestDay(f_seen.date) /\ f_run.todo \subseteq RunWindow
      /\ f_run.fresh \subseteq f_seen.dates \cap f_done
  BY DEF ForwardInv, Dated
<1>6. Rotated \cap NewestDays = {}
  BY <1>5 DEF ForwardInv, Earned, F!LongtailDays, NewestDays
<1>7. QED
  BY <1>2, <1>3, <1>4, <1>5, <1>6 DEF F!LongDays, F!LongtailDays, NewestDays, RunWindow, Rechecked, Rotated

(* The loop over the days never picks one that is remembered.              *)
LEMMA VisitDayKeepsForward ==
  ASSUME ForwardInv, F!VisitDay
  PROVE  ForwardInv'
<1>1. PICK d : d = F!InOrder(F!Open)
  OBVIOUS
<1>2. PICK r : r = (d = f_run.recent /\ d \in f_done)
  OBVIOUS
<1>3. /\ f_pc = "days" /\ F!Open # {} /\ f_run.used < DayBudget
      /\ F!Collect(d, r, "days")
  BY <1>1, <1>2 DEF F!VisitDay
<1>4. Busy /\ In("days")
  BY <1>3 DEF Busy, In, ForwardInv, Dated, Loops
<1>5. F!Open \subseteq f_run.todo /\ f_run.todo \subseteq Nat
  <2>1. F!Days \subseteq Nat
    BY ForwardConstants
  <2>2. QED
    BY <2>1, RunFacts DEF F!Open, ForwardInv
<1>6. d \in f_run.todo
  <2>1. F!Min(F!Open) \in F!Open
    BY <1>3, <1>5, ForwardMin
  <2>2. QED
    BY <1>1, <1>5, <2>1 DEF F!InOrder
<1>7. d \in RunWindow /\ d \in F!Days /\ 0 \notin F!Days
  BY <1>4, <1>6, WindowFacts DEF F!Days
<1>8. ASSUME r PROVE d \notin Rechecked \cup Rotated \cup f_run.fresh
  <2>1. d = f_run.recent
    BY <1>2, <1>8
  <2>2. d \notin Rechecked /\ d \notin f_run.fresh /\ f_run.recent \in NewestDays \cup {0}
    BY <1>4, <1>6, <2>1 DEF ForwardInv, Visiting
  <2>3. d \notin Rotated
    BY <1>4, <1>7, <2>1, <2>2, WindowFacts
  <2>4. QED
    BY <2>2, <2>3
<1>9. r \in BOOLEAN /\ "days" \in Loops /\ "days" # "longtail"
  BY <1>2 DEF Loops
<1>10. QED
  BY <1>3, <1>7, <1>8, <1>9, CollectKeepsForward

LEMMA RecheckDayKeepsForward ==
  ASSUME ForwardInv, F!RecheckDay
  PROVE  ForwardInv'
<1>1. PICK d : d = F!Min(F!Unchecked)
  OBVIOUS
<1>2. /\ f_pc = "recheck" /\ F!Unchecked # {} /\ d \notin f_run.fresh
      /\ F!Collect(d, TRUE, "recheck")
  BY <1>1 DEF F!RecheckDay
<1>3. Busy /\ In("recheck")
  BY <1>2 DEF Busy, In, ForwardInv, Dated, Loops
<1>4. F!Unchecked \subseteq Nat
  BY ForwardConstants, RunFacts DEF F!Unchecked, ForwardInv
<1>5. d \in F!Unchecked
  BY <1>1, <1>2, <1>4, ForwardMin
<1>6. d \in f_run.todo /\ d \notin Rechecked
  BY <1>3, <1>5, WindowFacts DEF F!Unchecked
<1>7. d \in NewestDays
  BY <1>3, <1>6 DEF ForwardInv, Caught
<1>8. d \in RunWindow /\ d \notin Rotated
  BY <1>3, <1>7, WindowFacts
<1>9. TRUE \in BOOLEAN /\ "recheck" \in Loops /\ "recheck" # "longtail" /\ "recheck" # "days"
  BY DEF Loops
<1>10. QED
  BY <1>2, <1>6, <1>8, <1>9, CollectKeepsForward

LEMMA LongtailDayKeepsForward ==
  ASSUME ForwardInv, F!LongtailDay
  PROVE  ForwardInv'
<1>1. /\ f_pc = "longtail" /\ f_run.day \notin F!PassedToday
      /\ F!Collect(f_run.day, TRUE, "longtail")
  BY DEF F!LongtailDay
<1>2. Busy /\ In("longtail")
  BY <1>1 DEF Busy, In, ForwardInv, Dated, Loops
<1>3. f_run.day \notin Rechecked \cup Rotated
  BY <1>1, <1>2, WindowFacts DEF F!PassedToday
<1>4. f_run.day \in RunWindow /\ f_run.used = 0
  BY <1>2 DEF ForwardInv, Rotating, F!LongtailDays, RunWindow
<1>5. f_run.fresh = {}
  BY <1>2, <1>4 DEF ForwardInv, Dated
<1>6. TRUE \in BOOLEAN /\ "longtail" \in Loops /\ "longtail" # "days"
  BY DEF Loops
<1>7. QED
  BY <1>1, <1>3, <1>4, <1>5, <1>6, CollectKeepsForward

-----------------------------------------------------------------------------
(* The source completes the day.                                           *)
LEMMA FetchCompleteKeepsForward ==
  ASSUME ForwardInv, F!FetchComplete
  PROVE  ForwardInv'
<1> DEFINE d == f_run.day
<1>1. PICK saved : saved = (f_run.loop # "days" \/ f_run.reread)
  OBVIOUS
<1>2. /\ f_pc = "fetch" /\ f_done' = f_done \cup {f_run.day}
      /\ f_seen' = [f_seen EXCEPT !.dates = f_seen.dates \cup {f_run.day}]
      /\ f_pc' = IF saved THEN "save" ELSE "days"
      /\ f_run' = IF saved THEN f_run ELSE [f_run EXCEPT !.fresh = f_run.fresh \cup {f_run.day}]
      /\ UNCHANGED <<f_today, f_stuck, f_recheck, f_longtail, f_status, f_spent, f_upsets>>
  BY <1>1 DEF F!FetchComplete, F!settings
<1>3. Busy
  BY <1>2 DEF Busy
<1>4. f_run.day \in F!Days /\ f_run.day \in RunWindow
  BY <1>2, <1>3, WindowFacts DEF ForwardInv, Dated
<1>5. /\ f_seen' \in F!State /\ f_seen'.date = f_seen.date
      /\ f_seen'.dates = f_seen.dates \cup {f_run.day}
  BY <1>2, <1>4 DEF ForwardInv, F!TypeOK, F!State
<1>6. /\ f_run' \in F!Run /\ f_run'.day = f_run.day /\ f_run'.loop = f_run.loop
      /\ f_run'.reread = f_run.reread /\ f_run'.todo = f_run.todo /\ f_run'.used = f_run.used
      /\ f_run'.date = f_run.date /\ f_run'.start = f_run.start /\ f_run'.latest = f_run.latest
      /\ f_run'.recent = f_run.recent /\ f_run'.left = f_run.left
      /\ f_run'.fresh = IF saved THEN f_run.fresh ELSE f_run.fresh \cup {f_run.day}
  BY <1>2, <1>4 DEF ForwardInv, F!TypeOK, F!Run
<1>7. f_done' \subseteq F!Days
  BY <1>2, <1>4 DEF ForwardInv, F!TypeOK
<1>8. F!TypeOK'
  BY <1>2, <1>5, <1>6, <1>7 DEF ForwardInv, F!TypeOK
<1>9. RunWindow' = RunWindow /\ NewestDays' = NewestDays /\ Rechecked' = Rechecked /\ Rotated' = Rotated
  BY <1>2, <1>5, <1>6 DEF RunWindow, NewestDays, Rechecked, Rotated, F!Flags
<1>10. \A l \in Loops : In(l)' <=> In(l)
  BY <1>1, <1>2, <1>6 DEF In, Loops
<1>11. Asked = {f_run.day} /\ Asked' = {} /\ Rereading' = Rereading
  BY <1>1, <1>2, <1>6 DEF Asked, Rereading
<1>12. ~saved => In("days")
  BY <1>1, <1>2 DEF In
<1>13. ~saved => f_run.used # 0 /\ f_run.day \notin f_run.todo
  BY <1>2, <1>12 DEF ForwardInv, Visiting
<1>14. Dated'
  <2>1. f_pc' \in Loops => f_run'.loop = f_pc'
    BY <1>1, <1>2, <1>6 DEF Loops
  <2>2. Busy' => /\ f_run'.date = f_seen'.date /\ f_run'.date \in F!Days
             /\ f_run'.start = F!StartDay(f_run'.date) /\ f_run'.latest = F!LatestDay(f_run'.date)
             /\ f_run'.todo \subseteq RunWindow'
    BY <1>3, <1>5, <1>6, <1>9 DEF ForwardInv, Dated, F!StartDay, F!LatestDay
  <2>3. f_run'.fresh \subseteq f_seen'.dates \cap f_done'
    BY <1>2, <1>3, <1>5, <1>6 DEF ForwardInv, Dated
  <2>4. f_run'.used = 0 => f_run'.fresh = {}
    BY <1>3, <1>6, <1>13 DEF ForwardInv, Dated
  <2>5. f_recheck'.date <= f_seen'.date /\ f_longtail'.date <= f_seen'.date /\ f_seen'.date <= f_today'
    BY <1>2, <1>5 DEF ForwardInv, Dated
  <2>6. f_run'.day \in RunWindow' /\ f_run'.day \in f_seen'.dates \cap f_done'
    BY <1>2, <1>4, <1>5, <1>6, <1>9
  <2>7. QED
    BY <2>1, <2>2, <2>3, <2>4, <2>5, <2>6 DEF Dated
<1>15. Earned'
  BY <1>2, <1>5, <1>9 DEF ForwardInv, Earned
<1>16. Visiting'
  BY <1>2, <1>6, <1>9, <1>10, <1>13 DEF ForwardInv, Visiting, Loops
<1>17. Rotating'
  BY <1>6, <1>9, <1>10 DEF ForwardInv, Rotating, Loops
<1>18. f_pc' # "finish"
  BY <1>2
<1>19. Caught'
  BY <1>2, <1>5, <1>6, <1>9, <1>10, <1>11, <1>18 DEF ForwardInv, Caught, Loops
<1>20. Spent'
  BY <1>2, <1>9, <1>11 DEF ForwardInv, Spent
<1>21. QED
  BY <1>8, <1>14, <1>15, <1>16, <1>17, <1>19, <1>20 DEF ForwardInv

(* A completed day is remembered.                                          *)
LEMMA RememberKeepsForward ==
  ASSUME ForwardInv, NEW d, d \in f_seen.dates \cap f_done,
         f_recheck' = F!SavedFlags(d), f_run' = f_run,
         UNCHANGED <<f_today, f_stuck, f_done, f_longtail, f_status, f_seen, f_spent, f_upsets>>,
         \/ f_pc = "recheck" /\ f_pc' = "recheck"
         \/ f_pc = "save" /\ d = f_run.day /\ f_run.loop \in {"days", "recheck"} /\ f_pc' = f_run.loop
  PROVE  ForwardInv'
<1>1. Busy /\ Busy'
  BY DEF Busy
<1>2. d \in F!Days
  BY StateFacts DEF ForwardInv
<1>3. f_recheck' = [date |-> f_run.date, dates |-> Rechecked \cup {d}]
  BY <1>1, WindowFacts DEF F!SavedFlags
<1>4. f_run.date \in 0..ForwardDays /\ Rechecked \subseteq F!Days
  BY RunFacts, StateFacts DEF ForwardInv, Rechecked, F!Flags
<1>5. f_recheck' \in F!State
  BY <1>2, <1>3, <1>4 DEF F!State
<1>6. f_pc' \in {"idle", "days", "fetch", "save", "recheck", "longtail", "finish"}
  OBVIOUS
<1>7. F!TypeOK'
  BY <1>5, <1>6 DEF ForwardInv, F!TypeOK
<1>8. RunWindow' = RunWindow /\ NewestDays' = NewestDays /\ Rotated' = Rotated
  BY DEF RunWindow, NewestDays, Rotated, F!Flags
<1>9. Rechecked' = Rechecked \cup {d}
  BY <1>1, <1>3, WindowFacts, FlagFacts DEF Rechecked
<1>10. Asked = {} /\ Asked' = {} /\ Rereading' = {} /\ f_pc' # "finish"
  BY DEF Asked, Rereading
<1>11. (f_pc' \in Loops => f_run'.loop = f_pc') /\ f_pc' \in Loops
  BY DEF ForwardInv, Dated, Loops
<1>12. Dated'
  <2>1. f_recheck'.date <= f_seen'.date
    BY <1>1, <1>3, WindowFacts, StateFacts DEF ForwardInv
  <2>2. f_pc' \notin {"fetch", "save"}
    BY <1>11 DEF Loops
  <2>3. QED
    BY <1>1, <1>8, <1>11, <2>1, <2>2 DEF ForwardInv, Dated, F!StartDay, F!LatestDay
<1>13. Earned'
  BY <1>8, <1>9 DEF ForwardInv, Earned, F!StartDay, F!LatestDay
<1>14. \A l \in Loops : In(l)' <=> In(l)
  BY DEF In, Loops, ForwardInv, Dated
<1>15. In("days") => d \notin f_run.todo
  BY DEF In, ForwardInv, Visiting
<1>16. Visiting'
  <2>1. In("days")' => In("days") /\ f_pc' = "days"
    BY <1>10, <1>14 DEF In, Loops
  <2>2. QED
    BY <1>8, <1>9, <1>15, <2>1 DEF ForwardInv, Visiting
<1>17. Rotating'
  BY <1>8, <1>14 DEF ForwardInv, Rotating, Loops
<1>18. Caught'
  BY <1>8, <1>10, <1>14 DEF ForwardInv, Caught, Loops
<1>19. Spent'
  BY <1>8, <1>9, <1>10 DEF ForwardInv, Spent, Rereading
<1>20. QED
  BY <1>7, <1>12, <1>13, <1>16, <1>17, <1>18, <1>19 DEF ForwardInv

LEMMA SaveFlagKeepsForward ==
  ASSUME ForwardInv, F!SaveFlag
  PROVE  ForwardInv'
<1>1. /\ f_pc = "save" /\ f_run.loop \in {"days", "recheck"} /\ f_pc' = f_run.loop
      /\ f_recheck' = F!SavedFlags(f_run.day) /\ f_run' = f_run
      /\ UNCHANGED <<f_today, f_stuck, f_done, f_longtail, f_status, f_seen, f_spent, f_upsets>>
  BY DEF F!SaveFlag, F!history
<1>2. f_run.day \in f_seen.dates \cap f_done
  BY <1>1 DEF ForwardInv, Dated
<1>3. QED
  BY <1>1, <1>2, RememberKeepsForward

LEMMA RecheckFreshKeepsForward ==
  ASSUME ForwardInv, F!RecheckFresh
  PROVE  ForwardInv'
<1>1. PICK d : d = F!Min(F!Unchecked)
  OBVIOUS
<1>2. /\ f_pc = "recheck" /\ f_pc' = f_pc /\ d \in f_run.fresh
      /\ f_recheck' = F!SavedFlags(d) /\ f_run' = f_run
      /\ UNCHANGED <<f_today, f_stuck, f_done, f_longtail, f_status, f_seen, f_spent, f_upsets>>
  BY <1>1 DEF F!RecheckFresh, F!history
<1>3. d \in f_seen.dates \cap f_done
  BY <1>2, WindowFacts DEF Busy
<1>4. QED
  BY <1>2, <1>3, RememberKeepsForward

-----------------------------------------------------------------------------
(* The loops end.                                                          *)
LEMMA DaysEndKeepsForward ==
  ASSUME ForwardInv, F!DaysEnd
  PROVE  ForwardInv'
<1>1. PICK left : left = F!DaysLeft
  OBVIOUS
<1>2. /\ f_pc = "days" /\ f_pc' = IF left THEN "finish" ELSE "recheck"
      /\ f_run' = [f_run EXCEPT !.left = left, !.loop = "recheck",
                      !.todo = IF left THEN {} ELSE NewestDays]
      /\ UNCHANGED <<f_today, f_stuck, f_done, f_recheck, f_longtail, f_status, f_seen, f_spent, f_upsets>>
  BY <1>1 DEF F!DaysEnd, NewestDays, F!settings, F!history
<1>3. Busy /\ Busy' /\ left \in BOOLEAN
  BY <1>1, <1>2 DEF Busy, F!DaysLeft
<1>4. NewestDays \subseteq RunWindow /\ RunWindow \subseteq F!Days
  BY <1>3, WindowFacts
<1>5. /\ f_run' \in F!Run /\ f_run'.left = left /\ f_run'.loop = "recheck"
      /\ f_run'.todo = IF left THEN {} ELSE NewestDays
      /\ f_run'.date = f_run.date /\ f_run'.start = f_run.start /\ f_run'.latest = f_run.latest
      /\ f_run'.used = f_run.used /\ f_run'.fresh = f_run.fresh
  BY <1>2, <1>3, <1>4 DEF ForwardInv, F!TypeOK, F!Run
<1>6. F!TypeOK'
  BY <1>2, <1>5 DEF ForwardInv, F!TypeOK
<1>7. RunWindow' = RunWindow /\ NewestDays' = NewestDays /\ Rechecked' = Rechecked /\ Rotated' = Rotated
  BY <1>2, <1>5 DEF RunWindow, NewestDays, Rechecked, Rotated, F!Flags
<1>8. Rereading = {} /\ Rereading' = {} /\ Asked' = {}
  BY <1>2 DEF Rereading, Asked
<1>9. (f_pc' \in Loops => f_run'.loop = f_pc') /\ f_pc' \notin {"fetch", "save"}
  BY <1>2, <1>5 DEF Loops
<1>10. Dated'
  BY <1>2, <1>3, <1>4, <1>5, <1>7, <1>9 DEF ForwardInv, Dated, F!StartDay, F!LatestDay
<1>11. Earned'
  BY <1>2, <1>7 DEF ForwardInv, Earned, F!StartDay, F!LatestDay
<1>12. ~In("days")' /\ ~In("longtail")'
  BY <1>5 DEF In
<1>13. Visiting' /\ Rotating'
  BY <1>12 DEF Visiting, Rotating
<1>14. ~left => RunWindow \subseteq f_done
  BY <1>1, <1>3, WindowFacts DEF F!DaysLeft, RunWindow
<1>15. left => f_pc' = "finish" /\ ~In("recheck")'
  BY <1>2 DEF In
<1>16. ~left => f_pc' # "finish"
  BY <1>2
<1>17. Caught'
  BY <1>2, <1>5, <1>7, <1>12, <1>14, <1>15, <1>16 DEF Caught
<1>18. Spent'
  BY <1>2, <1>7, <1>8 DEF ForwardInv, Spent
<1>19. QED
  BY <1>6, <1>10, <1>11, <1>13, <1>17, <1>18 DEF ForwardInv

LEMMA RecheckEndKeepsForward ==
  ASSUME ForwardInv, F!RecheckEnd
  PROVE  ForwardInv'
<1>1. PICK days : days = F!LongtailDays(f_run.start, f_run.latest)
  OBVIOUS
<1>2. PICK go : go = (f_run.used = 0 /\ days # {} /\ F!LongtailSlots > 0)
  OBVIOUS
<1>3. PICK d : d = IF go THEN F!Cursor(days) ELSE 0
  OBVIOUS
<1>4. /\ f_pc = "recheck" /\ F!Unchecked = {} /\ f_pc' = IF go THEN "longtail" ELSE "finish"
      /\ f_run' = [f_run EXCEPT !.todo = IF go THEN days ELSE {}, !.loop = "longtail", !.day = d]
      /\ UNCHANGED <<f_today, f_stuck, f_done, f_recheck, f_longtail, f_status, f_seen, f_spent, f_upsets>>
  BY <1>1, <1>2, <1>3 DEF F!RecheckEnd, F!settings, F!history
<1>5. Busy /\ Busy' /\ In("recheck")
  BY <1>4 DEF Busy, In, ForwardInv, Dated, Loops
<1>6. days \subseteq RunWindow /\ days \subseteq F!Days /\ days \subseteq Nat
  BY <1>1, <1>5, WindowFacts, ForwardConstants DEF F!LongtailDays, RunWindow
<1>7. go => d \in days
  BY <1>2, <1>3, <1>6, ForwardMin, StateFacts, ForwardConstants DEF F!Cursor
<1>8. d \in 0..ForwardDays
  <2>1. d \in F!Days \/ d = 0
    BY <1>3, <1>6, <1>7
  <2>2. QED
    BY <2>1, ForwardConstants DEF F!Days
<1>9. /\ f_run' \in F!Run /\ f_run'.todo = (IF go THEN days ELSE {}) /\ f_run'.loop = "longtail"
      /\ f_run'.day = d
      /\ f_run'.date = f_run.date /\ f_run'.start = f_run.start /\ f_run'.latest = f_run.latest
      /\ f_run'.used = f_run.used /\ f_run'.fresh = f_run.fresh
  BY <1>4, <1>6, <1>8 DEF ForwardInv, F!TypeOK, F!Run
<1>10. F!TypeOK'
  BY <1>4, <1>9 DEF ForwardInv, F!TypeOK
<1>11. RunWindow' = RunWindow /\ NewestDays' = NewestDays /\ Rechecked' = Rechecked /\ Rotated' = Rotated
  BY <1>4, <1>9 DEF RunWindow, NewestDays, Rechecked, Rotated, F!Flags
<1>12. Rereading = {} /\ Rereading' = {} /\ Asked = {} /\ Asked' = {}
  BY <1>4 DEF Rereading, Asked
<1>13. (f_pc' \in Loops => f_run'.loop = f_pc') /\ f_pc' \notin {"fetch", "save"}
  BY <1>4, <1>9 DEF Loops
<1>14. Dated'
  BY <1>4, <1>5, <1>6, <1>9, <1>11, <1>13 DEF ForwardInv, Dated, F!StartDay, F!LatestDay
<1>15. Earned'
  BY <1>4, <1>11 DEF ForwardInv, Earned, F!StartDay, F!LatestDay
<1>16. ~In("days")' /\ ~In("recheck")' /\ (In("longtail")' => go)
  BY <1>4, <1>9 DEF In
<1>17. go => Cardinality(Rotated) < LongtailPerRun
  <2>1. Cardinality(Rotated) \in Nat
    BY RotatedFinite DEF ForwardInv
  <2>2. F!LongtailSlots = LongtailPerRun - Cardinality(Rotated)
    BY <1>5, WindowFacts, SameCardinality DEF F!LongtailSlots
  <2>3. go => LongtailPerRun - Cardinality(Rotated) > 0
    BY <1>2, <2>2
  <2>4. QED
    BY <2>1, <2>3, ForwardConstants
<1>18. Visiting' /\ Rotating'
  BY <1>1, <1>2, <1>7, <1>9, <1>11, <1>16, <1>17 DEF Visiting, Rotating
<1>19. RunWindow \subseteq f_done /\ NewestDays \subseteq f_seen.dates
  <2>1. f_run.todo \subseteq Rechecked
    BY <1>4, <1>5, WindowFacts DEF F!Unchecked
  <2>2. QED
    BY <1>5, <1>12, <2>1 DEF ForwardInv, Caught, Earned
<1>20. Caught'
  BY <1>4, <1>11, <1>16, <1>19 DEF Caught
<1>21. Spent'
  BY <1>4, <1>11, <1>12 DEF ForwardInv, Spent
<1>22. QED
  BY <1>10, <1>14, <1>15, <1>18, <1>20, <1>21 DEF ForwardInv

LEMMA LongtailEndKeepsForward ==
  ASSUME ForwardInv, F!LongtailEnd
  PROVE  ForwardInv'
<1>1. /\ f_pc = "longtail" /\ f_pc' = "finish" /\ f_run' = f_run
      /\ UNCHANGED <<f_today, f_stuck, f_done, f_recheck, f_longtail, f_status, f_seen, f_spent, f_upsets>>
  BY DEF F!LongtailEnd, F!settings, F!history
<1>2. Busy /\ Busy' /\ In("longtail")
  BY <1>1 DEF Busy, In, ForwardInv, Dated, Loops
<1>3. F!TypeOK'
  BY <1>1 DEF ForwardInv, F!TypeOK
<1>4. RunWindow' = RunWindow /\ NewestDays' = NewestDays /\ Rechecked' = Rechecked /\ Rotated' = Rotated
  BY <1>1 DEF RunWindow, NewestDays, Rechecked, Rotated, F!Flags
<1>5. Rereading = {} /\ Rereading' = {} /\ Asked = {} /\ Asked' = {}
  BY <1>1 DEF Rereading, Asked
<1>6. f_pc' \notin Loops /\ f_pc' \notin {"fetch", "save"}
  BY <1>1 DEF Loops
<1>7. Dated' /\ Earned'
  BY <1>1, <1>2, <1>4, <1>6 DEF ForwardInv, Dated, Earned, F!StartDay, F!LatestDay
<1>8. ~In("days")' /\ ~In("recheck")' /\ ~In("longtail")'
  BY <1>1 DEF In
<1>9. Visiting' /\ Rotating' /\ Caught'
  BY <1>1, <1>2, <1>4, <1>5, <1>8 DEF ForwardInv, Visiting, Rotating, Caught
<1>10. Spent'
  BY <1>1, <1>4, <1>5 DEF ForwardInv, Spent
<1>11. QED
  BY <1>3, <1>7, <1>9, <1>10 DEF ForwardInv

-----------------------------------------------------------------------------
(* The long tail moves on: the cursor names a day outside the newest.      *)
LEMMA AdvanceKeepsForward ==
  ASSUME ForwardInv, In("longtail"), NEW dates,
         F!Advance(f_run.date, dates),
         f_run' = [f_run EXCEPT !.todo = f_run.todo \ {f_run.day},
                     !.day = F!NextRotating(f_run.day, F!LongDays)],
         UNCHANGED <<f_today, f_stuck, f_done, f_recheck, f_status, f_seen, f_spent, f_upsets>>,
         f_pc \in {"longtail", "save"}, f_pc' \in {"longtail", "finish"},
         Rotated \subseteq dates, dates \subseteq f_seen.dates \cap f_done \cap F!LongDays,
         Cardinality(dates) <= LongtailPerRun,
         f_pc' = "longtail" => Cardinality(dates) < LongtailPerRun,
         Rereading \subseteq dates
  PROVE  ForwardInv'
<1>1. Busy /\ Busy'
  BY DEF Busy
<1>2. f_run.day \in F!LongDays /\ f_run.used = 0
  BY <1>1 DEF ForwardInv, Rotating, F!LongDays
<1>3. F!LongDays \subseteq F!Days /\ F!LongDays \subseteq RunWindow /\ F!LongDays # {}
  BY <1>1, <1>2, WindowFacts
<1>4. PICK d : d = F!NextRotating(f_run.day, F!LongDays)
  OBVIOUS
<1>5. d \in F!LongDays
  <2>1. F!LongDays \subseteq Nat /\ f_run.day \in Nat
    BY <1>2, <1>3, ForwardConstants
  <2>2. QED
    BY <1>3, <1>4, <2>1, RotationFacts
<1>6. d \in F!Days /\ d \in 0..ForwardDays
  <2>1. d \in F!Days
    BY <1>3, <1>5
  <2>2. QED
    BY <2>1, ForwardConstants DEF F!Days
<1>7. f_longtail' = [date |-> f_run.date, dates |-> dates, next |-> d]
  BY <1>4 DEF F!Advance
<1>8. f_longtail' \in [date : 0..ForwardDays, dates : SUBSET F!Days, next : F!Days]
  <2>1. f_run.date \in 0..ForwardDays /\ dates \subseteq F!Days
    BY RunFacts, StateFacts DEF ForwardInv
  <2>2. QED
    BY <1>6, <1>7, <2>1
<1>9. /\ f_run' \in F!Run /\ f_run'.todo = f_run.todo \ {f_run.day} /\ f_run'.loop = "longtail"
      /\ f_run'.day = d
      /\ f_run'.date = f_run.date /\ f_run'.start = f_run.start /\ f_run'.latest = f_run.latest
      /\ f_run'.used = f_run.used /\ f_run'.fresh = f_run.fresh
  BY <1>4, <1>6 DEF ForwardInv, F!TypeOK, F!Run, In
<1>10. F!TypeOK'
  BY <1>8, <1>9 DEF ForwardInv, F!TypeOK
<1>11. RunWindow' = RunWindow /\ NewestDays' = NewestDays /\ Rechecked' = Rechecked
  BY <1>9 DEF RunWindow, NewestDays, Rechecked, F!Flags
<1>12. Rotated' = dates
  BY <1>1, <1>7, WindowFacts, FlagFacts DEF Rotated, F!Flags
<1>13. Rereading' = {} /\ Asked = {} /\ Asked' = {}
  BY DEF Rereading, Asked
<1>14. (f_pc' \in Loops => f_run'.loop = f_pc') /\ f_pc' \notin {"fetch", "save"}
  BY <1>9 DEF Loops
<1>15. Dated'
  <2>1. f_longtail'.date <= f_seen'.date
    BY <1>1, <1>7, WindowFacts, StateFacts DEF ForwardInv
  <2>2. QED
    BY <1>1, <1>9, <1>11, <1>14, <2>1 DEF ForwardInv, Dated, F!StartDay, F!LatestDay
<1>16. Earned'
  <2>1. F!LongDays = F!LongtailDays(F!StartDay(f_seen.date), F!LatestDay(f_seen.date))
    BY <1>1, WindowFacts DEF F!LongDays
  <2>2. QED
    BY <1>11, <1>12, <2>1 DEF ForwardInv, Earned, F!StartDay, F!LatestDay, F!LongtailDays
<1>17. ~In("days")' /\ ~In("recheck")' /\ (In("longtail")' => f_pc' = "longtail")
  BY <1>9 DEF In
<1>18. Visiting' /\ Rotating'
  BY <1>2, <1>5, <1>9, <1>12, <1>17 DEF Visiting, Rotating, F!LongDays
<1>19. Caught'
  BY <1>11, <1>13, <1>17 DEF ForwardInv, Caught
<1>20. Spent'
  BY <1>11, <1>12, <1>13 DEF ForwardInv, Spent
<1>21. QED
  BY <1>10, <1>15, <1>16, <1>18, <1>19, <1>20 DEF ForwardInv

LEMMA PassLongtailKeepsForward ==
  ASSUME ForwardInv, F!PassLongtail
  PROVE  ForwardInv'
<1>1. /\ f_pc = "longtail" /\ f_pc' = f_pc /\ F!Advance(f_run.date, F!Flags(f_longtail, f_run.date))
      /\ f_run' = [f_run EXCEPT !.todo = f_run.todo \ {f_run.day},
                      !.day = F!NextRotating(f_run.day, F!LongDays)]
      /\ UNCHANGED <<f_today, f_stuck, f_done, f_recheck, f_status, f_seen, f_spent, f_upsets>>
  BY DEF F!PassLongtail, F!history
<1>2. Busy /\ In("longtail")
  BY <1>1 DEF Busy, In, ForwardInv, Dated, Loops
<1>3. F!Flags(f_longtail, f_run.date) = Rotated
  BY <1>2, WindowFacts
<1>4. Rotated \subseteq f_seen.dates \cap f_done \cap F!LongDays
  BY <1>2, WindowFacts DEF ForwardInv, Earned, F!LongDays
<1>5. Cardinality(Rotated) < LongtailPerRun /\ Cardinality(Rotated) <= LongtailPerRun
  BY <1>2 DEF ForwardInv, Rotating, Earned
<1>6. Rereading = {}
  BY <1>1 DEF Rereading
<1>7. F!Advance(f_run.date, Rotated)
  BY <1>1, <1>3
<1>8. QED
  BY <1>1, <1>2, <1>4, <1>5, <1>6, <1>7, AdvanceKeepsForward

LEMMA SaveLongtailKeepsForward ==
  ASSUME ForwardInv, F!SaveLongtail
  PROVE  ForwardInv'
<1>1. PICK dates : dates = F!Flags(f_longtail, f_run.date) \cup {f_run.day}
  OBVIOUS
<1>2. /\ f_pc = "save" /\ f_run.loop = "longtail" /\ F!Advance(f_run.date, dates)
      /\ f_run' = [f_run EXCEPT !.todo = f_run.todo \ {f_run.day},
                      !.day = F!NextRotating(f_run.day, F!LongDays)]
      /\ f_pc' = IF F!Cardinality(dates) >= LongtailPerRun THEN "finish" ELSE "longtail"
      /\ UNCHANGED <<f_today, f_stuck, f_done, f_recheck, f_status, f_seen, f_spent, f_upsets>>
  BY <1>1 DEF F!SaveLongtail, F!history
<1>3. Busy /\ In("longtail")
  BY <1>2 DEF Busy, In
<1>4. dates = Rotated \cup {f_run.day}
  BY <1>1, <1>3, WindowFacts
<1>5. f_run.day \in f_seen.dates \cap f_done \cap F!LongDays
  BY <1>2, <1>3, WindowFacts DEF ForwardInv, Dated, Rotating, F!LongDays
<1>6. dates \subseteq f_seen.dates \cap f_done \cap F!LongDays
  BY <1>3, <1>4, <1>5, WindowFacts DEF ForwardInv, Earned, F!LongDays
<1>7. Cardinality(Rotated) < LongtailPerRun
  BY <1>3 DEF ForwardInv, Rotating
<1>8. /\ IsFiniteSet(Rotated) /\ Cardinality(Rotated) \in Nat
      /\ Cardinality(dates) = Cardinality(Rotated) \/ Cardinality(dates) = Cardinality(Rotated) + 1
  BY <1>4, RotatedFinite, FS_AddElement DEF ForwardInv
<1>9. Cardinality(dates) <= LongtailPerRun /\ Cardinality(dates) \in Nat
  BY <1>7, <1>8, ForwardConstants
<1>10. f_pc' = IF Cardinality(dates) >= LongtailPerRun THEN "finish" ELSE "longtail"
  BY <1>2, SameCardinality
<1>11. f_pc' \in {"longtail", "finish"} /\ (f_pc' = "longtail" => ~(Cardinality(dates) >= LongtailPerRun))
  BY <1>10
<1>12. f_pc' = "longtail" => Cardinality(dates) < LongtailPerRun
  BY <1>9, <1>11, ForwardConstants
<1>13. Rereading \subseteq dates /\ Rotated \subseteq dates
  BY <1>4 DEF Rereading
<1>14. QED
  BY <1>2, <1>3, <1>6, <1>9, <1>11, <1>12, <1>13, AdvanceKeepsForward

-----------------------------------------------------------------------------
(* A run begins.                                                           *)
LEMMA QuietKeepsForward ==
  ASSUME ForwardInv, f_pc = "idle", f_pc' = f_pc, f_run' = f_run,
         UNCHANGED <<f_today, f_stuck, f_done, f_recheck, f_longtail, f_seen, f_spent>>,
         f_status' \in {"COMPLETE", "FAILED"}, f_upsets' \in 0..MaxUpsets
  PROVE  ForwardInv'
<1>1. F!TypeOK'
  BY DEF ForwardInv, F!TypeOK
<1>2. /\ RunWindow' = RunWindow /\ NewestDays' = NewestDays /\ Rechecked' = Rechecked
      /\ Rotated' = Rotated /\ Rereading' = Rereading /\ ~Busy' /\ f_pc' \notin Loops
      /\ f_pc' \notin {"fetch", "save", "finish"}
  BY DEF RunWindow, NewestDays, Rechecked, Rotated, Rereading, Busy, Loops, F!Flags
<1>3. ~In("days")' /\ ~In("recheck")' /\ ~In("longtail")'
  BY DEF In
<1>4. Dated' /\ Earned' /\ Spent'
  BY <1>2 DEF ForwardInv, Dated, Earned, Spent, F!StartDay, F!LatestDay
<1>5. Visiting' /\ Rotating' /\ Caught'
  BY <1>2, <1>3 DEF Visiting, Rotating, Caught
<1>6. QED
  BY <1>1, <1>4, <1>5 DEF ForwardInv

LEMMA DateFacts ==
  ASSUME NEW date \in F!Days
  PROVE  /\ F!StartDay(date) \in 1..ForwardDays /\ F!LatestDay(date) \in 0..ForwardDays
         /\ F!StartDay(date) \in Nat /\ F!LatestDay(date) \in Nat
         /\ F!StartDay(date)..F!LatestDay(date) \subseteq F!Days
<1>1. date \in 1..ForwardDays
  BY DEF F!Days
<1>2. F!StartDay(date) \in 1..ForwardDays /\ F!LatestDay(date) \in 0..ForwardDays
  BY <1>1, ForwardConstants DEF F!StartDay, F!LatestDay, F!Larger
<1>3. QED
  BY <1>2, ForwardConstants DEF F!Days

(* The day to visit out of turn: one of the newest, not remembered.        *)
LEMMA RecentFacts ==
  ASSUME NEW date \in F!Days, NEW start, start = F!StartDay(date),
         NEW latest, latest = F!LatestDay(date)
  PROVE  LET d == F!RecentDay(start, latest, date)
         IN  /\ d \in 0..ForwardDays
             /\ d \in F!Newest(start, latest, RecheckDays) \cup {0}
             /\ d # 0 => d \notin F!Flags(f_recheck, date)
<1>1. start \in Nat /\ latest \in Nat /\ start..latest \subseteq F!Days
  BY DateFacts
<1>2. PICK open : open = F!Newest(start, latest, F!Smaller(RecheckDays, RecentWindow))
                         \ (F!Flags(f_recheck, date) \cup {F!Priority(start, latest)})
  OBVIOUS
<1>3. PICK d : d = F!RecentDay(start, latest, date)
  OBVIOUS
<1>4. d = IF open = {} THEN 0 ELSE F!Max(open)
  BY <1>2, <1>3 DEF F!RecentDay
<1>5. open \subseteq F!Newest(start, latest, RecheckDays) /\ open \cap F!Flags(f_recheck, date) = {}
      /\ open \subseteq start..latest
  BY <1>1, <1>2, NewestFacts, ForwardConstants
<1>6. open \subseteq 0..ForwardDays
  <2>1. F!Days \subseteq 0..ForwardDays
    BY ForwardConstants DEF F!Days
  <2>2. QED
    BY <1>1, <1>5, <2>1
<1>7. d = 0 \/ d \in open
  BY <1>4, <1>6, ForwardMax, ForwardConstants
<1>8. d \in 0..ForwardDays
  <2>1. 0 \in 0..ForwardDays
    BY ForwardConstants
  <2>2. QED
    BY <1>6, <1>7, <2>1
<1>9. QED
  BY <1>3, <1>5, <1>7, <1>8

LEMMA BeginKeepsForward ==
  ASSUME ForwardInv, F!Begin
  PROVE  ForwardInv'
<1>1. PICK start : start = F!StartDay(f_today)
  OBVIOUS
<1>2. PICK latest : latest = F!LatestDay(f_today)
  OBVIOUS
<1>3. f_pc = "idle" /\ UNCHANGED <<f_today, f_stuck, f_done, f_recheck, f_longtail, f_upsets>>
  BY DEF F!Begin
<1>4. f_today \in F!Days /\ f_seen.date <= f_today
  BY StateFacts DEF ForwardInv, Dated
<1>5. CASE start > latest
  <2>1. f_status' = "COMPLETE" /\ f_pc' = f_pc /\ f_run' = f_run /\ f_seen' = f_seen /\ f_spent' = f_spent
    BY <1>1, <1>2, <1>5 DEF F!Begin, F!history
  <2>2. f_upsets' \in 0..MaxUpsets
    BY <1>3 DEF ForwardInv, F!TypeOK
  <2>3. QED
    BY <1>3, <2>1, <2>2, QuietKeepsForward
<1>6. CASE ~(start > latest)
  <2>1. PICK priority : priority = F!Priority(start, latest)
    OBVIOUS
  <2>2. PICK recent : recent = F!RecentDay(start, latest, f_today)
    OBVIOUS
  <2>3. /\ f_status' = "RUNNING" /\ f_pc' = "days"
        /\ f_run' = [F!NoRun EXCEPT !.date = f_today, !.start = start, !.latest = latest,
                       !.priority = priority, !.recent = recent, !.todo = start..latest]
    BY <1>1, <1>2, <1>6, <2>1, <2>2 DEF F!Begin
  <2>4. \/ f_seen.date = f_today /\ f_seen' = f_seen /\ f_spent' = f_spent
        \/ /\ f_seen.date # f_today /\ f_seen' = [date |-> f_today, dates |-> {}]
           /\ f_spent' = [d \in F!Days |-> 0]
    BY <1>1, <1>2, <1>6 DEF F!Begin, F!history
  <2>5. /\ start \in F!Days /\ latest \in 0..ForwardDays /\ start..latest \subseteq F!Days
        /\ f_today \in 0..ForwardDays /\ priority \in 0..ForwardDays
    <3>1. start \in 1..ForwardDays /\ latest \in 0..ForwardDays /\ start..latest \subseteq F!Days
      BY <1>1, <1>2, <1>4, DateFacts
    <3>2. priority = latest \/ priority = 0
      BY <2>1 DEF F!Priority
    <3>3. QED
      BY <1>4, <3>1, <3>2, ForwardConstants DEF F!Days
  <2>6. /\ recent \in 0..ForwardDays /\ recent \in F!Newest(start, latest, RecheckDays) \cup {0}
        /\ recent # 0 => recent \notin F!Flags(f_recheck, f_today)
    BY <1>1, <1>2, <1>4, <2>2, RecentFacts
  <2>7. F!NoRun \in F!Run /\ F!NoRun.fresh = {} /\ F!NoRun.loop = "days" /\ F!NoRun.reread = FALSE
    BY NoRunTyped DEF F!NoRun
  <2>8. /\ f_run' \in F!Run /\ f_run'.date = f_today /\ f_run'.start = start /\ f_run'.latest = latest
        /\ f_run'.recent = recent /\ f_run'.todo = start..latest /\ f_run'.fresh = {}
        /\ f_run'.loop = "days" /\ f_run'.reread = FALSE
    BY <2>3, <2>5, <2>6, <2>7 DEF F!Run
  <2>9. f_seen' \in F!State /\ f_seen'.date = f_today /\ f_spent' \in [F!Days -> Int]
    BY <2>4, <2>5 DEF ForwardInv, F!TypeOK, F!State
  <2>10. F!TypeOK'
    BY <1>3, <2>3, <2>8, <2>9 DEF ForwardInv, F!TypeOK
  <2>11. RunWindow' = start..latest /\ NewestDays' = F!Newest(start, latest, RecheckDays)
         /\ Rereading = {} /\ Rereading' = {}
    BY <1>3, <2>3, <2>8 DEF RunWindow, NewestDays, Rereading
  <2>12. \/ f_seen.date = f_today /\ f_seen'.dates = f_seen.dates /\ f_spent' = f_spent
            /\ Rechecked' = Rechecked /\ Rotated' = Rotated
         \/ Rechecked' = {} /\ Rotated' = {} /\ f_spent' = [d \in F!Days |-> 0]
    <3>1. CASE f_seen.date = f_today
      BY <1>3, <2>4, <3>1 DEF Rechecked, Rotated, F!Flags
    <3>2. CASE f_seen.date # f_today
      <4>1. f_recheck.date # f_today /\ f_longtail.date # f_today
        <5>1. f_recheck.date \in Nat /\ f_longtail.date \in Nat /\ f_seen.date \in Nat /\ f_today \in Nat
          BY DatesAreNat DEF ForwardInv
        <5>2. f_recheck.date <= f_seen.date /\ f_longtail.date <= f_seen.date
          BY DEF ForwardInv, Dated
        <5>3. QED
          BY <1>4, <3>2, <5>1, <5>2
      <4>2. QED
        BY <1>3, <2>4, <2>9, <3>2, <4>1 DEF Rechecked, Rotated, F!Flags
    <3>3. QED
      BY <3>1, <3>2
  <2>13. Rechecked' = F!Flags(f_recheck, f_today)
    BY <1>3, <2>9 DEF Rechecked
  <2>14. Dated'
    <3>1. f_recheck.date <= f_today /\ f_longtail.date <= f_today /\ f_today <= f_today
      <4>1. /\ f_recheck.date \in Nat /\ f_longtail.date \in Nat /\ f_seen.date \in Nat
            /\ f_today \in Nat
        BY DatesAreNat DEF ForwardInv
      <4>2. f_recheck.date <= f_seen.date /\ f_longtail.date <= f_seen.date
        BY DEF ForwardInv, Dated
      <4>3. QED
        BY <1>4, <4>1, <4>2
    <3>2. f_pc' \notin {"fetch", "save"}
      BY <2>3
    <3>3. QED
      BY <1>1, <1>2, <1>3, <1>4, <2>3, <2>8, <2>9, <2>11, <3>1, <3>2 DEF Dated, F!StartDay, F!LatestDay
  <2>15. Earned'
    <3>1. CASE f_seen.date = f_today /\ f_seen'.dates = f_seen.dates
               /\ Rechecked' = Rechecked /\ Rotated' = Rotated
      BY <1>3, <2>9, <3>1 DEF ForwardInv, Earned, F!StartDay, F!LatestDay
    <3>2. CASE Rechecked' = {} /\ Rotated' = {}
      BY <3>2, FS_EmptySet, ForwardConstants DEF Earned
    <3>3. QED
      BY <2>12, <3>1, <3>2
  <2>16. ~In("recheck")' /\ ~In("longtail")' /\ f_pc' = "days"
    BY <2>3, <2>8 DEF In
  <2>17. recent \in start..latest => recent \notin Rechecked'
    <3>1. 0 \notin F!Days
      BY DEF F!Days
    <3>2. QED
      BY <2>5, <2>6, <2>13, <3>1
  <2>18. Visiting'
    BY <2>6, <2>8, <2>11, <2>16, <2>17 DEF Visiting
  <2>19. Rotating' /\ Caught'
    BY <2>16 DEF Rotating, Caught
  <2>20. Spent'
    <3>1. CASE f_spent' = f_spent /\ Rechecked' = Rechecked /\ Rotated' = Rotated
      BY <2>11, <3>1 DEF ForwardInv, Spent
    <3>2. CASE f_spent' = [d \in F!Days |-> 0]
      BY <3>2 DEF Spent
    <3>3. QED
      BY <2>12, <3>1, <3>2
  <2>21. QED
    BY <2>10, <2>14, <2>15, <2>18, <2>19, <2>20 DEF ForwardInv
<1>7. QED
  BY <1>5, <1>6

LEMMA PrepareKeepsForward ==
  ASSUME ForwardInv, F!PrepareFails
  PROVE  ForwardInv'
<1>1. /\ f_pc = "idle" /\ f_pc' = f_pc /\ f_run' = f_run /\ f_status' = "FAILED"
      /\ UNCHANGED <<f_today, f_stuck, f_done, f_recheck, f_longtail, f_seen, f_spent>>
      /\ f_upsets < MaxUpsets /\ f_upsets' = f_upsets + 1
  BY DEF F!PrepareFails, F!history
<1>2. f_upsets' \in 0..MaxUpsets
  BY <1>1, ForwardConstants DEF ForwardInv, F!TypeOK
<1>3. QED
  BY <1>1, <1>2, QuietKeepsForward

LEMMA ForwardStep ==
  ASSUME ForwardInv, [F!Next]_forwardVars
  PROVE  ForwardInv'
<1>1. CASE UNCHANGED forwardVars
  <2>1. /\ f_run' = f_run /\ f_pc' = f_pc
        /\ UNCHANGED <<f_today, f_stuck, f_done, f_recheck, f_longtail, f_status, f_seen, f_spent, f_upsets>>
    BY <1>1 DEF forwardVars
  <2>2. F!TypeOK'
    BY <2>1 DEF ForwardInv, F!TypeOK
  <2>3. /\ RunWindow' = RunWindow /\ NewestDays' = NewestDays /\ Rechecked' = Rechecked
        /\ Rotated' = Rotated /\ Rereading' = Rereading /\ Asked' = Asked /\ Busy' = Busy
        /\ (\A l \in Loops : In(l)' <=> In(l))
    BY <2>1 DEF RunWindow, NewestDays, Rechecked, Rotated, Rereading, Asked, Busy, In, F!Flags
  <2>4. Dated' /\ Earned' /\ Spent'
    BY <2>1, <2>3 DEF ForwardInv, Dated, Earned, Spent, F!StartDay, F!LatestDay, F!LongtailDays
  <2>5. Visiting' /\ Rotating' /\ Caught'
    BY <2>1, <2>3 DEF ForwardInv, Visiting, Rotating, Caught, Loops, F!LongtailDays
  <2>6. QED
    BY <2>2, <2>4, <2>5 DEF ForwardInv
<1>2. CASE F!Next
  <2>1. CASE F!Begin
    BY <2>1, BeginKeepsForward
  <2>2. CASE F!VisitDay
    BY <2>2, VisitDayKeepsForward
  <2>3. CASE F!DaysEnd
    BY <2>3, DaysEndKeepsForward
  <2>4. CASE F!FetchComplete
    BY <2>4, FetchCompleteKeepsForward
  <2>5. CASE F!SaveFlag
    BY <2>5, SaveFlagKeepsForward
  <2>6. CASE F!RecheckFresh
    BY <2>6, RecheckFreshKeepsForward
  <2>7. CASE F!RecheckDay
    BY <2>7, RecheckDayKeepsForward
  <2>8. CASE F!RecheckEnd
    BY <2>8, RecheckEndKeepsForward
  <2>9. CASE F!PassLongtail
    BY <2>9, PassLongtailKeepsForward
  <2>10. CASE F!LongtailDay
    BY <2>10, LongtailDayKeepsForward
  <2>11. CASE F!SaveLongtail
    BY <2>11, SaveLongtailKeepsForward
  <2>12. CASE F!LongtailEnd
    BY <2>12, LongtailEndKeepsForward
  <2>13. CASE F!Finish \/ F!FetchRaises \/ F!Crash
    BY <2>13, FinishKeepsForward
  <2>14. CASE F!FetchPartial
    BY <2>14, PartialKeepsForward
  <2>15. CASE F!Midnight
    BY <2>15, MidnightKeepsForward
  <2>16. CASE F!PrepareFails
    BY <2>16, PrepareKeepsForward
  <2>17. QED
    BY <1>2, <2>1, <2>2, <2>3, <2>4, <2>5, <2>6, <2>7, <2>8, <2>9, <2>10, <2>11, <2>12,
       <2>13, <2>14, <2>15, <2>16 DEF F!Next, F!Step
<1>3. QED
  BY <1>1, <1>2

LEMMA ForwardMeans ==
  ASSUME ForwardInv
  PROVE  F!FlagIsEarned /\ F!OneRereadPerDate
<1>1. f_recheck.date = f_seen.date => f_recheck.dates \subseteq f_seen.dates \cap f_done
  BY DEF ForwardInv, Earned, Rechecked, F!Flags
<1>2. f_longtail.date = f_seen.date =>
        /\ f_longtail.dates \subseteq f_seen.dates \cap f_done
        /\ F!Cardinality(f_longtail.dates) <= LongtailPerRun
  BY SameCardinality DEF ForwardInv, Earned, Rotated, F!Flags
<1>3. F!OneRereadPerDate
  BY DEF ForwardInv, Spent, F!OneRereadPerDate
<1>4. QED
  BY <1>1, <1>2, <1>3 DEF ForwardInv, F!FlagIsEarned

LEMMA ForwardCompletes ==
  ASSUME ForwardInv, [F!Next]_forwardVars
  PROVE  f_status' = "COMPLETE" /\ f_status # "COMPLETE" /\ f_pc = "finish" =>
           /\ f_run.start..f_run.latest \subseteq f_done
           /\ F!Newest(f_run.start, f_run.latest, RecheckDays) \subseteq f_seen.dates
<1> SUFFICES ASSUME f_status' = "COMPLETE", f_status # "COMPLETE", f_pc = "finish"
             PROVE  RunWindow \subseteq f_done /\ NewestDays \subseteq f_seen.dates
  BY DEF RunWindow, NewestDays
<1>1. F!Next
  BY DEF forwardVars
<1>2. F!Finish \/ f_status' = f_status
  BY <1>1 DEF F!Next, F!Step, F!Begin, F!VisitDay, F!DaysEnd, F!FetchComplete, F!SaveFlag,
       F!RecheckFresh, F!RecheckDay, F!RecheckEnd, F!PassLongtail, F!LongtailDay, F!SaveLongtail,
       F!LongtailEnd, F!FetchPartial, F!FetchRaises, F!Midnight, F!PrepareFails, F!Crash,
       F!settings, F!Collect
<1>3. F!Finish
  BY <1>2
<1>4. ~f_run.left
  BY <1>3 DEF F!Finish
<1>5. Asked = {}
  BY DEF Asked
<1>6. QED
  BY <1>4, <1>5 DEF ForwardInv, Caught

-----------------------------------------------------------------------------
(* Start-up: the inductive invariant.                                      *)
BootSteps == {"gone", "reserved", "begin", "prepare", "settings", "foundation", "shopping",
              "match", "users", "budget", "indexes", "probe", "gate", "publish"}
BootTyped ==
  /\ b_db \in [marker : {"none", "ours", "foreign"}, schemas : SUBSET B!Schemas, legacy : BOOLEAN,
               tables : SUBSET B!Tables, budget : {"none", "old", "ours"},
               index : {"none", "invalid", "valid"}]
  /\ b_web \in [B!Procs -> [loader : {"DOWN", "LOADING", "READY", "FAILED"}, initializing : BOOLEAN,
                            ok : BOOLEAN, recent : BOOLEAN, ready : BOOLEAN]]
  /\ b_at \in [B!Procs -> [B!Slots -> BootSteps]]

(* Storage is whose it was found to be.                                    *)
Owned ==
  /\ b_born = "EMPTY" => /\ b_db.legacy = FALSE /\ b_db.marker # "foreign"
                         /\ b_db.marker = "none" => b_db.schemas = {}
  /\ b_born = "OLD" => B!Refused(b_db)
  /\ "shopping" \in b_db.tables => "foundation" \in b_db.tables

(* One thread at a time, and only while its process is initialising.       *)
Threads ==
  \A p \in B!Procs :
    /\ \A j, k \in B!Slots : b_at[p][j] # "gone" /\ b_at[p][k] # "gone" => j = k
    /\ (\E k \in B!Slots : b_at[p][k] # "gone") => b_web[p].initializing /\ ~b_web[p].ok
    /\ b_web[p].loader = "DOWN" => ~b_web[p].initializing /\ ~b_web[p].ok

(* What a step finds done by the steps before it.                          *)
Prepared == BootSteps \ {"gone", "reserved", "begin", "prepare"}
Installed(step) ==
  CASE step = "foundation" -> {"settings"}
    [] step = "shopping" -> {"settings", "foundation"}
    [] step = "match" -> {"settings", "foundation", "shopping"}
    [] step = "users" -> {"settings", "foundation", "shopping", "match"}
    [] step \in {"budget", "indexes", "probe", "gate", "publish"} -> B!Tables
    [] OTHER -> {}
Placed ==
  /\ \A p \in B!Procs, k \in B!Slots :
       /\ b_at[p][k] \in Prepared => b_db.marker = "ours" /\ Installed(b_at[p][k]) \subseteq b_db.tables
       /\ b_at[p][k] = "probe" => b_db.index = "valid"
  /\ \A p \in B!Procs : b_web[p].ok => b_db.marker = "ours" /\ b_db.tables = B!Tables
  /\ b_source = "working" => {"settings", "foundation", "shopping"} \subseteq b_db.tables

BootInv == BootTyped /\ Owned /\ Threads /\ Placed

-----------------------------------------------------------------------------
LEMMA BootStepsAre == B!Steps = BootSteps
BY DEF B!Steps, B!Next_, BootSteps

(* A database only grows: what a thread or a process rests on stays.       *)
Grown ==
  /\ b_db.marker = "ours" => b_db'.marker = "ours"
  /\ b_db.tables \subseteq b_db'.tables
  /\ b_db.index = "valid" => b_db'.index = "valid"

LEMMA GrownPlaces ==
  ASSUME BootInv, BootTyped', Grown,
         \A p \in B!Procs, k \in B!Slots :
           \/ b_at'[p][k] = b_at[p][k]
           \/ /\ b_at'[p][k] \in Prepared =>
                   b_db'.marker = "ours" /\ Installed(b_at'[p][k]) \subseteq b_db'.tables
              /\ b_at'[p][k] = "probe" => b_db'.index = "valid",
         \A p \in B!Procs : b_web'[p].ok =>
           b_web[p].ok \/ (b_db'.marker = "ours" /\ b_db'.tables = B!Tables),
         b_source' = "working" =>
           b_source = "working" \/ {"settings", "foundation", "shopping"} \subseteq b_db'.tables
  PROVE  Placed'
<1>1. ASSUME NEW p \in B!Procs, NEW k \in B!Slots
      PROVE  /\ b_at'[p][k] \in Prepared =>
                  b_db'.marker = "ours" /\ Installed(b_at'[p][k]) \subseteq b_db'.tables
             /\ b_at'[p][k] = "probe" => b_db'.index = "valid"
  <2>1. CASE b_at'[p][k] = b_at[p][k]
    BY <2>1 DEF BootInv, Placed, Grown
  <2>2. QED
    BY <2>1
<1>2. ASSUME NEW p \in B!Procs, b_web'[p].ok
      PROVE  b_db'.marker = "ours" /\ b_db'.tables = B!Tables
  <2>1. CASE b_web[p].ok
    <3>1. b_db'.tables \subseteq B!Tables
      BY DEF BootTyped
    <3>2. QED
      BY <2>1, <3>1 DEF BootInv, Placed, Grown
  <2>2. QED
    BY <1>2, <2>1
<1>3. b_source' = "working" => {"settings", "foundation", "shopping"} \subseteq b_db'.tables
  BY DEF BootInv, Placed, Grown
<1>4. QED
  BY <1>1, <1>2, <1>3 DEF Placed, Installed, Prepared

LEMMA BootStarts == B!Init => BootInv
<1> SUFFICES ASSUME B!Init PROVE BootInv
  OBVIOUS
<1>1. /\ b_web = [p \in B!Procs |-> B!Down] /\ b_at = [p \in B!Procs |-> [k \in B!Slots |-> "gone"]]
      /\ b_source = "none"
      /\ \/ b_db = B!Empty /\ b_born = "EMPTY"
         \/ b_db \in B!Old /\ b_born = "OLD"
         \/ b_db \in B!Ours /\ b_born = "OURS"
  BY DEF B!Init
<1>2. BootTyped
  <2>1. b_db \in [marker : {"none", "ours", "foreign"}, schemas : SUBSET B!Schemas, legacy : BOOLEAN,
               tables : SUBSET B!Tables, budget : {"none", "old", "ours"},
               index : {"none", "invalid", "valid"}]
    <3>1. CASE b_db = B!Empty
      BY <3>1 DEF B!Empty
    <3>2. CASE b_db \in B!Old
      BY <3>2 DEF B!Old
    <3>3. CASE b_db \in B!Ours
      <4>1. B!Prefixes \subseteq SUBSET B!Tables
        BY DEF B!Prefixes, B!Tables
      <4>2. b_db \in [marker : {"ours"}, schemas : {B!Schemas}, legacy : {TRUE}, tables : B!Prefixes,
                      budget : {"none", "old"}, index : {"none", "invalid"}]
        BY <3>3 DEF B!Ours
      <4>3. QED
        BY <4>1, <4>2
    <3>4. QED
      BY <1>1, <3>1, <3>2, <3>3
  <2>2. B!Down \in [loader : {"DOWN", "LOADING", "READY", "FAILED"}, initializing : BOOLEAN,
                            ok : BOOLEAN, recent : BOOLEAN, ready : BOOLEAN]
    BY DEF B!Down
  <2>3. QED
    BY <1>1, <2>1, <2>2 DEF BootTyped, BootSteps
<1>3. Owned
  <2>1. CASE b_db = B!Empty /\ b_born = "EMPTY"
    BY <2>1 DEF Owned, B!Empty
  <2>2. CASE b_db \in B!Old /\ b_born = "OLD"
    BY <2>2 DEF Owned, B!Old, B!Refused, B!Prior
  <2>3. CASE b_db \in B!Ours /\ b_born = "OURS"
    BY <2>3 DEF Owned, B!Ours, B!Prefixes, B!Tables
  <2>4. QED
    BY <1>1, <2>1, <2>2, <2>3
<1>4. Threads
  BY <1>1 DEF Threads, B!Down
<1>5. Placed
  BY <1>1 DEF Placed, Prepared, B!Down
<1>6. QED
  BY <1>2, <1>3, <1>4, <1>5 DEF BootInv

-----------------------------------------------------------------------------
(* Steps that leave the database alone.                                    *)
LEMMA WebFacts ==
  ASSUME BootTyped, NEW p \in B!Procs
  PROVE  b_web[p] \in [loader : {"DOWN", "LOADING", "READY", "FAILED"}, initializing : BOOLEAN,
                       ok : BOOLEAN, recent : BOOLEAN, ready : BOOLEAN]
BY DEF BootTyped

LEMMA LoneThread ==
  ASSUME BootInv, NEW p \in B!Procs, NEW k \in B!Slots, b_at[p][k] # "gone"
  PROVE  /\ b_web[p].initializing /\ ~b_web[p].ok /\ b_web[p].loader # "DOWN"
         /\ \A j \in B!Slots : j # k => b_at[p][j] = "gone"
BY DEF BootInv, Threads

(* A process changes, its threads do not.                                  *)
LEMMA ProcessKeepsBoot ==
  ASSUME BootInv, NEW p \in B!Procs, NEW w,
         w \in [loader : {"DOWN", "LOADING", "READY", "FAILED"}, initializing : BOOLEAN,
                ok : BOOLEAN, recent : BOOLEAN, ready : BOOLEAN],
         b_web' = [b_web EXCEPT ![p] = w], UNCHANGED <<b_db, b_born, b_at, b_source>>,
         \/ w.initializing = b_web[p].initializing /\ w.ok = b_web[p].ok
         \/ (w.loader = "DOWN" /\ ~w.initializing /\ ~w.ok /\ b_web[p].ok),
         w.loader = "DOWN" => ~w.initializing /\ ~w.ok
  PROVE  BootInv'
<1>1. BootTyped'
  BY DEF BootInv, BootTyped
<1>2. b_web'[p] = w /\ \A q \in B!Procs : q # p => b_web'[q] = b_web[q]
  BY DEF BootInv, BootTyped
<1>3. Owned'
  BY DEF BootInv, Owned, B!Refused, B!Prior
<1>4. Threads'
  BY <1>2 DEF BootInv, Threads
<1>5. Grown
  BY DEF Grown
<1>6. Placed'
  <2>1. \A q \in B!Procs : b_web'[q].ok => b_web[q].ok
    BY <1>2
  <2>2. QED
    BY <1>1, <1>5, <2>1, GrownPlaces
<1>7. QED
  BY <1>1, <1>3, <1>4, <1>6 DEF BootInv

LEMMA DownTyped ==
  B!Down \in [loader : {"DOWN", "LOADING", "READY", "FAILED"}, initializing : BOOLEAN,
              ok : BOOLEAN, recent : BOOLEAN, ready : BOOLEAN]
BY DEF B!Down

LEMMA QuietProcess ==
  ASSUME BootInv, NEW p \in B!Procs,
         B!Start(p) \/ B!ImportFails(p) \/ B!FiveSeconds(p) \/ B!ReadyProbe(p) \/ B!ChildEnds(p)
  PROVE  BootInv'
<1>1. UNCHANGED <<b_db, b_born, b_at, b_source>>
  BY DEF B!Start, B!ImportFails, B!FiveSeconds, B!ReadyProbe, B!ChildEnds
<1>2. b_web[p] \in [loader : {"DOWN", "LOADING", "READY", "FAILED"}, initializing : BOOLEAN,
                    ok : BOOLEAN, recent : BOOLEAN, ready : BOOLEAN]
      /\ b_web \in [B!Procs -> [loader : {"DOWN", "LOADING", "READY", "FAILED"}, initializing : BOOLEAN,
                    ok : BOOLEAN, recent : BOOLEAN, ready : BOOLEAN]]
  BY WebFacts DEF BootInv, BootTyped
<1>3. b_web[p].loader = "DOWN" => ~b_web[p].initializing /\ ~b_web[p].ok
  BY DEF BootInv, Threads
<1>4. CASE B!Start(p)
  <2>1. PICK w : w = [b_web[p] EXCEPT !.loader = "LOADING"]
    OBVIOUS
  <2>2. b_web' = [b_web EXCEPT ![p] = w]
    BY <1>4, <2>1, <1>2 DEF B!Start
  <2>3. QED
    BY <1>1, <1>2, <2>1, <2>2, ProcessKeepsBoot
<1>5. CASE B!ImportFails(p)
  <2>1. PICK w : w = [b_web[p] EXCEPT !.loader = "FAILED"]
    OBVIOUS
  <2>2. b_web' = [b_web EXCEPT ![p] = w]
    BY <1>5, <2>1, <1>2 DEF B!ImportFails
  <2>3. QED
    BY <1>1, <1>2, <2>1, <2>2, ProcessKeepsBoot
<1>6. CASE B!FiveSeconds(p)
  <2>1. PICK w : w = [b_web[p] EXCEPT !.recent = FALSE]
    OBVIOUS
  <2>2. b_web' = [b_web EXCEPT ![p] = w]
    BY <1>6, <2>1, <1>2 DEF B!FiveSeconds
  <2>3. QED
    BY <1>1, <1>2, <1>3, <2>1, <2>2, ProcessKeepsBoot
<1>7. CASE B!ReadyProbe(p)
  <2>1. PICK r \in BOOLEAN : b_web' = [b_web EXCEPT ![p].ready = r]
    <3>1. PICK answers : b_web' = [b_web EXCEPT ![p].ready = (answers /\ b_db.budget # "none")]
      BY <1>7 DEF B!ReadyProbe
    <3>2. QED
      BY <3>1
  <2>2. PICK w : w = [b_web[p] EXCEPT !.ready = r]
    OBVIOUS
  <2>3. b_web' = [b_web EXCEPT ![p] = w]
    BY <2>1, <2>2, <1>2
  <2>4. QED
    BY <1>1, <1>2, <1>3, <2>2, <2>3, ProcessKeepsBoot
<1>8. CASE B!ChildEnds(p)
  <2>1. b_web' = [b_web EXCEPT ![p] = B!Down] /\ b_web[p].ok
    BY <1>8 DEF B!ChildEnds
  <2>2. B!Down.loader = "DOWN" /\ ~B!Down.initializing /\ ~B!Down.ok
    BY DEF B!Down
  <2>3. QED
    BY <1>1, <2>1, <2>2, DownTyped, ProcessKeepsBoot
<1>9. QED
  BY <1>4, <1>5, <1>6, <1>7, <1>8

(* A thread is reserved only for a process that has none.                  *)
LEMMA ReserveKeepsBoot ==
  ASSUME BootInv, NEW p \in B!Procs, NEW w,
         w = b_web[p] \/ w = [b_web[p] EXCEPT !.loader = "READY"],
         w.loader # "DOWN", B!Reserve(p, w), UNCHANGED <<b_db, b_born, b_source>>
  PROVE  BootInv'
<1>1. b_web[p] \in [loader : {"DOWN", "LOADING", "READY", "FAILED"}, initializing : BOOLEAN,
                    ok : BOOLEAN, recent : BOOLEAN, ready : BOOLEAN]
  BY WebFacts DEF BootInv
<1>2. /\ w \in [loader : {"DOWN", "LOADING", "READY", "FAILED"}, initializing : BOOLEAN,
                    ok : BOOLEAN, recent : BOOLEAN, ready : BOOLEAN]
      /\ w.initializing = b_web[p].initializing /\ w.ok = b_web[p].ok
  BY <1>1
<1>3. CASE ~B!MayReserve(w)
  <2>1. b_at' = b_at /\ b_web' = [b_web EXCEPT ![p] = w]
    BY <1>3 DEF B!Reserve
  <2>2. QED
    BY <1>2, <2>1, ProcessKeepsBoot
<1>4. CASE B!MayReserve(w)
  <2>1. PICK k \in B!Slots : /\ b_at' = [b_at EXCEPT ![p][k] = "reserved"]
                             /\ b_web' = [b_web EXCEPT ![p] = [w EXCEPT !.initializing = TRUE]]
    BY <1>4 DEF B!Reserve
  <2>2. ~b_web[p].ok /\ ~b_web[p].initializing
    BY <1>2, <1>4 DEF B!MayReserve
  <2>3. \A j \in B!Slots : b_at[p][j] = "gone"
    BY <2>2 DEF BootInv, Threads
  <2>4. "reserved" \in BootSteps /\ "reserved" \notin Prepared
    BY DEF BootSteps, Prepared
  <2>5. /\ b_at' \in [B!Procs -> [B!Slots -> BootSteps]] /\ b_at'[p][k] = "reserved"
        /\ \A q \in B!Procs, j \in B!Slots : q # p \/ j # k => b_at'[q][j] = b_at[q][j]
    BY <2>1, <2>4 DEF BootInv, BootTyped
  <2>6. PICK v : v = [w EXCEPT !.initializing = TRUE]
    OBVIOUS
  <2>7. /\ v \in [loader : {"DOWN", "LOADING", "READY", "FAILED"}, initializing : BOOLEAN,
                    ok : BOOLEAN, recent : BOOLEAN, ready : BOOLEAN]
        /\ v.initializing /\ ~v.ok /\ v.loader # "DOWN"
    BY <1>2, <2>2, <2>6
  <2>8. b_web' = [b_web EXCEPT ![p] = v]
    BY <2>1, <2>6
  <2>9. BootTyped'
    BY <2>5, <2>7, <2>8 DEF BootInv, BootTyped
  <2>10. b_web'[p] = v /\ \A q \in B!Procs : q # p => b_web'[q] = b_web[q]
    BY <2>8 DEF BootInv, BootTyped
  <2>11. Owned'
    BY DEF BootInv, Owned, B!Refused, B!Prior
  <2>12. Threads'
    BY <2>3, <2>5, <2>7, <2>10 DEF BootInv, Threads
  <2>13. Placed'
    <3>1. \A q \in B!Procs : b_web'[q].ok => b_web[q].ok
      BY <2>7, <2>10
    <3>2. Grown
      BY DEF Grown
    <3>3. \A q \in B!Procs, j \in B!Slots :
            b_at'[q][j] = b_at[q][j] \/ (b_at'[q][j] \notin Prepared /\ b_at'[q][j] # "probe")
      BY <2>4, <2>5
    <3>4. QED
      BY <2>9, <3>1, <3>2, <3>3, GrownPlaces
  <2>14. QED
    BY <2>9, <2>11, <2>12, <2>13 DEF BootInv
<1>5. QED
  BY <1>3, <1>4

LEMMA ReservingProcess ==
  ASSUME BootInv, NEW p \in B!Procs, B!Imported(p) \/ B!Request(p)
  PROVE  BootInv'
<1>1. b_web[p] \in [loader : {"DOWN", "LOADING", "READY", "FAILED"}, initializing : BOOLEAN,
                    ok : BOOLEAN, recent : BOOLEAN, ready : BOOLEAN]
  BY WebFacts DEF BootInv
<1>2. CASE B!Imported(p)
  <2>1. PICK w : w = [b_web[p] EXCEPT !.loader = "READY"]
    OBVIOUS
  <2>2. B!Reserve(p, w) /\ UNCHANGED <<b_db, b_born, b_source>> /\ w.loader # "DOWN"
    BY <1>1, <1>2, <2>1 DEF B!Imported
  <2>3. QED
    BY <2>1, <2>2, ReserveKeepsBoot
<1>3. CASE B!Request(p)
  <2>1. PICK w : w = b_web[p]
    OBVIOUS
  <2>2. B!Reserve(p, w) /\ UNCHANGED <<b_db, b_born, b_source>> /\ w.loader # "DOWN"
    BY <1>3, <2>1 DEF B!Request
  <2>3. QED
    BY <2>1, <2>2, ReserveKeepsBoot
<1>4. QED
  BY <1>2, <1>3

-----------------------------------------------------------------------------
(* A thread moves from k's step to another; its process keeps a state that *)
(* fits; the database grows as it did.                                     *)
LEMMA ThreadKeepsBoot ==
  ASSUME BootInv, NEW p \in B!Procs, NEW k \in B!Slots, NEW step \in BootSteps, NEW w,
         w \in [loader : {"DOWN", "LOADING", "READY", "FAILED"}, initializing : BOOLEAN,
                ok : BOOLEAN, recent : BOOLEAN, ready : BOOLEAN],
         b_at[p][k] # "gone", b_at' = [b_at EXCEPT ![p][k] = step],
         b_web' = [b_web EXCEPT ![p] = w], UNCHANGED <<b_born, b_source>>,
         b_db' \in [marker : {"none", "ours", "foreign"}, schemas : SUBSET B!Schemas, legacy : BOOLEAN,
               tables : SUBSET B!Tables, budget : {"none", "old", "ours"},
               index : {"none", "invalid", "valid"}],
         Owned', Grown,
         step # "gone" => w.initializing /\ ~w.ok /\ w.loader # "DOWN",
         w.loader = "DOWN" => ~w.initializing /\ ~w.ok,
         w.ok => b_db'.marker = "ours" /\ b_db'.tables = B!Tables,
         step \in Prepared => b_db'.marker = "ours" /\ Installed(step) \subseteq b_db'.tables,
         step = "probe" => b_db'.index = "valid"
  PROVE  BootInv'
<1>1. /\ b_at' \in [B!Procs -> [B!Slots -> BootSteps]] /\ b_at'[p][k] = step
      /\ \A q \in B!Procs, j \in B!Slots : q # p \/ j # k => b_at'[q][j] = b_at[q][j]
  BY DEF BootInv, BootTyped
<1>2. BootTyped'
  BY <1>1 DEF BootInv, BootTyped
<1>3. b_web'[p] = w /\ \A q \in B!Procs : q # p => b_web'[q] = b_web[q]
  BY DEF BootInv, BootTyped
<1>4. \A j \in B!Slots : j # k => b_at'[p][j] = "gone"
  BY <1>1, LoneThread
<1>5. Threads'
  BY <1>1, <1>3, <1>4 DEF BootInv, Threads
<1>6. Placed'
  <2>1. \A q \in B!Procs : b_web'[q].ok =>
          b_web[q].ok \/ (b_db'.marker = "ours" /\ b_db'.tables = B!Tables)
    BY <1>3
  <2>2. \A q \in B!Procs, j \in B!Slots :
          \/ b_at'[q][j] = b_at[q][j]
          \/ /\ b_at'[q][j] \in Prepared =>
                  b_db'.marker = "ours" /\ Installed(b_at'[q][j]) \subseteq b_db'.tables
             /\ b_at'[q][j] = "probe" => b_db'.index = "valid"
    <3> SUFFICES ASSUME NEW q \in B!Procs, NEW j \in B!Slots, b_at'[q][j] # b_at[q][j]
                 PROVE  /\ b_at'[q][j] \in Prepared =>
                              b_db'.marker = "ours" /\ Installed(b_at'[q][j]) \subseteq b_db'.tables
                        /\ b_at'[q][j] = "probe" => b_db'.index = "valid"
      OBVIOUS
    <3>1. b_at'[q][j] = step
      BY <1>1
    <3>2. QED
      BY <3>1
  <2>3. QED
    BY <1>2, <2>1, <2>2, GrownPlaces
<1>7. QED
  BY <1>2, <1>5, <1>6 DEF BootInv

(* The steps that do not touch the database.                               *)
LEMMA QuietThread ==
  ASSUME BootInv, NEW p \in B!Procs, NEW k \in B!Slots,
         B!StartThread(p, k) \/ B!ThreadFails(p, k) \/ B!Begin(p, k) \/ B!Publish(p, k)
  PROVE  BootInv'
<1>1. UNCHANGED <<b_db, b_born, b_source>> /\ b_at[p][k] # "gone"
  BY DEF B!StartThread, B!ThreadFails, B!Begin, B!Publish
<1>2. b_web[p].initializing /\ ~b_web[p].ok /\ b_web[p].loader # "DOWN"
  BY <1>1, LoneThread
<1>3. b_web[p] \in [loader : {"DOWN", "LOADING", "READY", "FAILED"}, initializing : BOOLEAN,
                    ok : BOOLEAN, recent : BOOLEAN, ready : BOOLEAN]
      /\ b_web \in [B!Procs -> [loader : {"DOWN", "LOADING", "READY", "FAILED"}, initializing : BOOLEAN,
                    ok : BOOLEAN, recent : BOOLEAN, ready : BOOLEAN]]
  BY WebFacts DEF BootInv, BootTyped
<1>4. Owned' /\ Grown /\ b_db' \in [marker : {"none", "ours", "foreign"}, schemas : SUBSET B!Schemas,
               legacy : BOOLEAN, tables : SUBSET B!Tables, budget : {"none", "old", "ours"},
               index : {"none", "invalid", "valid"}]
  BY <1>1 DEF BootInv, BootTyped, Owned, Grown, B!Refused, B!Prior
<1>5. {"gone", "begin", "prepare"} \subseteq BootSteps \ Prepared
  BY DEF BootSteps, Prepared
<1>6. CASE B!StartThread(p, k)
  <2>1. b_at' = [b_at EXCEPT ![p][k] = "begin"] /\ b_web' = [b_web EXCEPT ![p] = b_web[p]]
    BY <1>3, <1>6 DEF B!StartThread, B!Goto
  <2>2. QED
    BY <1>1, <1>2, <1>3, <1>4, <1>5, <2>1, ThreadKeepsBoot
<1>7. CASE B!ThreadFails(p, k)
  <2>1. PICK w : w = [b_web[p] EXCEPT !.initializing = FALSE]
    OBVIOUS
  <2>2. b_at' = [b_at EXCEPT ![p][k] = "gone"] /\ b_web' = [b_web EXCEPT ![p] = w]
    BY <1>3, <1>7, <2>1 DEF B!ThreadFails, B!Goto
  <2>3. w \in [loader : {"DOWN", "LOADING", "READY", "FAILED"}, initializing : BOOLEAN,
                    ok : BOOLEAN, recent : BOOLEAN, ready : BOOLEAN]
        /\ ~w.ok /\ w.loader # "DOWN"
    BY <1>2, <1>3, <2>1
  <2>4. QED
    BY <1>1, <1>4, <1>5, <2>2, <2>3, ThreadKeepsBoot
<1>8. CASE B!Begin(p, k)
  <2>1. PICK w : w = [b_web[p] EXCEPT !.initializing = TRUE, !.recent = TRUE]
    OBVIOUS
  <2>2. b_at' = [b_at EXCEPT ![p][k] = "prepare"] /\ b_web' = [b_web EXCEPT ![p] = w]
    BY <1>3, <1>8, <2>1 DEF B!Begin, B!Goto
  <2>3. w \in [loader : {"DOWN", "LOADING", "READY", "FAILED"}, initializing : BOOLEAN,
                    ok : BOOLEAN, recent : BOOLEAN, ready : BOOLEAN]
        /\ w.initializing /\ ~w.ok /\ w.loader # "DOWN"
    BY <1>2, <1>3, <2>1
  <2>4. QED
    BY <1>1, <1>4, <1>5, <2>2, <2>3, ThreadKeepsBoot
<1>9. CASE B!Publish(p, k)
  <2>1. PICK w : w = [b_web[p] EXCEPT !.ok = TRUE, !.initializing = FALSE]
    OBVIOUS
  <2>2. /\ b_at' = [b_at EXCEPT ![p][k] = "gone"] /\ b_web' = [b_web EXCEPT ![p] = w]
        /\ b_at[p][k] = "publish"
    BY <1>3, <1>9, <2>1 DEF B!Publish, B!Goto
  <2>3. w \in [loader : {"DOWN", "LOADING", "READY", "FAILED"}, initializing : BOOLEAN,
                    ok : BOOLEAN, recent : BOOLEAN, ready : BOOLEAN]
        /\ w.loader # "DOWN"
    BY <1>2, <1>3, <2>1
  <2>4. b_db.marker = "ours" /\ B!Tables \subseteq b_db.tables /\ b_db.tables \subseteq B!Tables
    BY <2>2 DEF BootInv, BootTyped, Placed, Prepared, BootSteps, Installed
  <2>5. b_db'.marker = "ours" /\ b_db'.tables = B!Tables
    BY <1>1, <2>4
  <2>6. QED
    BY <1>1, <1>4, <1>5, <2>2, <2>3, <2>5, ThreadKeepsBoot
<1>10. QED
  BY <1>6, <1>7, <1>8, <1>9

-----------------------------------------------------------------------------
(* What a step that succeeds leaves.                                       *)
LEMMA EffectFacts ==
  ASSUME BootInv, NEW p \in B!Procs, NEW k \in B!Slots, NEW s, s = b_at[p][k],
         s \notin {"gone", "reserved", "begin", "publish"}, ~B!Impossible(s, b_db),
         b_db' = B!Effect(s, b_db), b_born' = b_born
  PROVE  /\ b_db' \in [marker : {"none", "ours", "foreign"}, schemas : SUBSET B!Schemas, legacy : BOOLEAN,
                       tables : SUBSET B!Tables, budget : {"none", "old", "ours"},
                       index : {"none", "invalid", "valid"}]
         /\ Owned' /\ Grown /\ b_db'.marker = "ours"
         /\ b_db'.tables = b_db.tables \cup ({s} \cap B!Tables)
         /\ s = "indexes" => b_db'.index = "valid"
<1>1. b_db \in [marker : {"none", "ours", "foreign"}, schemas : SUBSET B!Schemas, legacy : BOOLEAN,
                tables : SUBSET B!Tables, budget : {"none", "old", "ours"},
                index : {"none", "invalid", "valid"}]
      /\ s \in BootSteps
  BY DEF BootInv, BootTyped
<1>2. s = "prepare" \/ s \in Prepared
  BY <1>1 DEF Prepared
<1>3. s \in Prepared => b_db.marker = "ours" /\ Installed(s) \subseteq b_db.tables
  BY DEF BootInv, Placed
<1>4. s = "prepare" => /\ b_db.marker # "foreign"
                       /\ b_db.marker = "none" => b_db.schemas = {} /\ ~b_db.legacy
  BY <1>1 DEF B!Impossible, B!Refused, B!Prior
<1>5. b_born # "OLD"
  <2>1. CASE s = "prepare"
    BY <2>1 DEF BootInv, Owned, B!Impossible
  <2>2. CASE s \in Prepared
    BY <1>3, <2>2 DEF BootInv, Owned, B!Refused
  <2>3. QED
    BY <1>2, <2>1, <2>2
<1>6. {"prepare", "budget", "indexes", "probe", "gate"} \cap B!Tables = {}
  BY DEF B!Tables
<1>7. /\ b_born = "EMPTY" => b_db.legacy = FALSE /\ b_db.marker # "foreign"
      /\ "shopping" \in b_db.tables => "foundation" \in b_db.tables
  BY DEF BootInv, Owned
<1>8. B!Schemas = {"app", "budget"}
  BY DEF B!Schemas
<1>9. CASE s = "prepare" /\ b_db.marker = "none"
  <2>1. b_db' = [b_db EXCEPT !.schemas = B!Schemas, !.marker = "ours"]
    BY <1>9 DEF B!Effect, B!Provisioned, B!Tables
  <2>2. /\ b_db'.marker = "ours" /\ b_db'.legacy = b_db.legacy /\ b_db'.tables = b_db.tables
        /\ b_db'.index = b_db.index
        /\ b_db' \in [marker : {"none", "ours", "foreign"}, schemas : SUBSET B!Schemas, legacy : BOOLEAN,
                tables : SUBSET B!Tables, budget : {"none", "old", "ours"},
                index : {"none", "invalid", "valid"}]
    BY <1>1, <2>1
  <2>3. QED
    BY <1>5, <1>6, <1>7, <1>9, <2>2 DEF Owned, Grown
<1>10. CASE s \in B!Tables
  <2>1. b_db' = [b_db EXCEPT !.tables = b_db.tables \cup {s}, !.schemas = b_db.schemas \cup {"app"}]
    BY <1>10 DEF B!Effect, B!Tables
  <2>2. s \in Prepared
    BY <1>2, <1>10 DEF B!Tables
  <2>3. /\ b_db'.marker = "ours" /\ b_db'.legacy = b_db.legacy /\ b_db'.tables = b_db.tables \cup {s}
        /\ b_db'.index = b_db.index
        /\ b_db' \in [marker : {"none", "ours", "foreign"}, schemas : SUBSET B!Schemas, legacy : BOOLEAN,
                tables : SUBSET B!Tables, budget : {"none", "old", "ours"},
                index : {"none", "invalid", "valid"}]
    <3>1. b_db.schemas \cup {"app"} \subseteq B!Schemas /\ b_db.tables \cup {s} \subseteq B!Tables
      BY <1>1, <1>8, <1>10
    <3>2. b_db.marker = "ours"
      BY <1>3, <2>2
    <3>3. QED
      BY <1>1, <2>1, <3>1, <3>2
  <2>4. s = "shopping" => "foundation" \in b_db.tables
    BY <1>3, <2>2 DEF Installed
  <2>5. s # "indexes"
    BY <1>10 DEF B!Tables
  <2>6. QED
    BY <1>5, <1>7, <1>10, <2>3, <2>4, <2>5 DEF Owned, Grown
<1>11. CASE s = "budget" /\ b_db.budget = "none"
  <2>1. b_db' = [b_db EXCEPT !.budget = "ours", !.schemas = b_db.schemas \cup {"budget"}]
    BY <1>11 DEF B!Effect, B!Tables
  <2>2. s \in Prepared
    BY <1>2, <1>11
  <2>3. b_db.marker = "ours" /\ b_db.schemas \cup {"budget"} \subseteq B!Schemas
    BY <1>1, <1>3, <1>8, <2>2
  <2>4. /\ b_db'.marker = "ours" /\ b_db'.legacy = b_db.legacy /\ b_db'.tables = b_db.tables
        /\ b_db'.index = b_db.index
        /\ b_db' \in [marker : {"none", "ours", "foreign"}, schemas : SUBSET B!Schemas, legacy : BOOLEAN,
                tables : SUBSET B!Tables, budget : {"none", "old", "ours"},
                index : {"none", "invalid", "valid"}]
    BY <1>1, <2>1, <2>3
  <2>5. QED
    BY <1>5, <1>6, <1>7, <1>11, <2>4 DEF Owned, Grown
<1>12. CASE s = "indexes" /\ B!Rebuilds(b_db)
  <2>1. b_db' = [b_db EXCEPT !.index = "valid"]
    BY <1>12 DEF B!Effect, B!Tables
  <2>2. s \in Prepared
    BY <1>2, <1>12
  <2>3. /\ b_db'.marker = "ours" /\ b_db'.legacy = b_db.legacy /\ b_db'.tables = b_db.tables
        /\ b_db'.index = "valid"
        /\ b_db' \in [marker : {"none", "ours", "foreign"}, schemas : SUBSET B!Schemas, legacy : BOOLEAN,
                tables : SUBSET B!Tables, budget : {"none", "old", "ours"},
                index : {"none", "invalid", "valid"}]
    BY <1>1, <1>3, <2>1, <2>2
  <2>4. QED
    BY <1>5, <1>6, <1>7, <1>12, <2>3 DEF Owned, Grown
<1>13. CASE /\ ~(s = "prepare" /\ b_db.marker = "none") /\ s \notin B!Tables
            /\ ~(s = "budget" /\ b_db.budget = "none") /\ ~(s = "indexes" /\ B!Rebuilds(b_db))
  <2>1. b_db' = b_db
    BY <1>13 DEF B!Effect
  <2>2. b_db.marker = "ours"
    BY <1>1, <1>2, <1>3, <1>4, <1>13
  <2>3. s = "indexes" => b_db.index = "valid"
    BY <1>13 DEF B!Rebuilds
  <2>4. {s} \cap B!Tables = {}
    BY <1>13
  <2>5. QED
    BY <1>1, <1>5, <1>7, <2>1, <2>2, <2>3, <2>4 DEF Owned, Grown
<1>14. QED
  BY <1>9, <1>10, <1>11, <1>12, <1>13

(* The order of the steps.                                                 *)
LEMMA OrderFacts ==
  ASSUME NEW s \in BootSteps, s \notin {"gone", "reserved", "begin", "publish"}
  PROVE  /\ B!Next_[s] \in Prepared
         /\ B!Next_[s] = "probe" => s = "indexes"
         /\ Installed(B!Next_[s]) \subseteq Installed(s) \cup ({s} \cap B!Tables)
<1>1. s \in {"prepare", "settings", "foundation", "shopping", "match", "users", "budget", "indexes",
              "probe", "gate"}
  BY DEF BootSteps
<1>2. CASE s = "prepare"
  BY <1>2 DEF B!Next_, Prepared, BootSteps, Installed
<1>3. CASE s = "settings"
  BY <1>3 DEF B!Next_, Prepared, BootSteps, Installed, B!Tables
<1>4. CASE s = "foundation"
  BY <1>4 DEF B!Next_, Prepared, BootSteps, Installed, B!Tables
<1>5. CASE s = "shopping"
  BY <1>5 DEF B!Next_, Prepared, BootSteps, Installed, B!Tables
<1>6. CASE s = "match"
  BY <1>6 DEF B!Next_, Prepared, BootSteps, Installed, B!Tables
<1>7. CASE s = "users"
  BY <1>7 DEF B!Next_, Prepared, BootSteps, Installed, B!Tables
<1>8. CASE s = "budget"
  BY <1>8 DEF B!Next_, Prepared, BootSteps, Installed
<1>9. CASE s = "indexes"
  BY <1>9 DEF B!Next_, Prepared, BootSteps, Installed
<1>10. CASE s = "probe"
  BY <1>10 DEF B!Next_, Prepared, BootSteps, Installed
<1>11. CASE s = "gate"
  BY <1>11 DEF B!Next_, Prepared, BootSteps, Installed
<1>12. QED
  BY <1>1, <1>2, <1>3, <1>4, <1>5, <1>6, <1>7, <1>8, <1>9, <1>10, <1>11

LEMMA StepKeepsBoot ==
  ASSUME BootInv, NEW p \in B!Procs, NEW k \in B!Slots, B!Step(p, k)
  PROVE  BootInv'
<1>1. PICK s : s = b_at[p][k]
  OBVIOUS
<1>2. PICK step : step = B!Next_[s]
  OBVIOUS
<1>3. PICK w : w = [b_web[p] EXCEPT !.ready = IF s = "probe" THEN TRUE ELSE b_web[p].ready]
  OBVIOUS
<1>4. b_web[p] \in [loader : {"DOWN", "LOADING", "READY", "FAILED"}, initializing : BOOLEAN,
                    ok : BOOLEAN, recent : BOOLEAN, ready : BOOLEAN]
      /\ b_web \in [B!Procs -> [loader : {"DOWN", "LOADING", "READY", "FAILED"}, initializing : BOOLEAN,
                    ok : BOOLEAN, recent : BOOLEAN, ready : BOOLEAN]]
  BY WebFacts DEF BootInv, BootTyped
<1>5. /\ s \in BootSteps /\ s \notin {"gone", "reserved", "begin", "publish"} /\ ~B!Impossible(s, b_db)
      /\ b_db' = B!Effect(s, b_db) /\ b_at' = [b_at EXCEPT ![p][k] = step]
      /\ UNCHANGED <<b_born, b_source>>
  BY <1>1, <1>2, BootStepsAre DEF B!Step, B!Goto
<1>6. b_web' = [b_web EXCEPT ![p] = w]
  BY <1>1, <1>3, <1>4 DEF B!Step
<1>7. /\ b_db' \in [marker : {"none", "ours", "foreign"}, schemas : SUBSET B!Schemas, legacy : BOOLEAN,
                       tables : SUBSET B!Tables, budget : {"none", "old", "ours"},
                       index : {"none", "invalid", "valid"}]
      /\ Owned' /\ Grown /\ b_db'.marker = "ours"
      /\ b_db'.tables = b_db.tables \cup ({s} \cap B!Tables)
      /\ s = "indexes" => b_db'.index = "valid"
  BY <1>1, <1>5, EffectFacts
<1>8. step \in Prepared /\ (step = "probe" => s = "indexes")
      /\ Installed(step) \subseteq Installed(s) \cup ({s} \cap B!Tables)
  BY <1>2, <1>5, OrderFacts
<1>9. Installed(s) \subseteq b_db.tables
  <2>1. CASE s = "prepare"
    BY <2>1 DEF Installed
  <2>2. CASE s \in Prepared
    BY <1>1, <2>2 DEF BootInv, Placed
  <2>3. QED
    BY <1>5, <2>1, <2>2 DEF Prepared
<1>10. b_at[p][k] # "gone"
  BY <1>1, <1>5
<1>11. b_web[p].initializing /\ ~b_web[p].ok /\ b_web[p].loader # "DOWN"
  BY <1>10, LoneThread
<1>12. w \in [loader : {"DOWN", "LOADING", "READY", "FAILED"}, initializing : BOOLEAN,
                    ok : BOOLEAN, recent : BOOLEAN, ready : BOOLEAN]
       /\ w.initializing /\ ~w.ok /\ w.loader # "DOWN"
  BY <1>3, <1>4, <1>11
<1>13. step \in BootSteps /\ Installed(step) \subseteq b_db'.tables
  BY <1>7, <1>8, <1>9 DEF Prepared
<1>14. QED
  BY <1>5, <1>6, <1>7, <1>8, <1>10, <1>12, <1>13, ThreadKeepsBoot

-----------------------------------------------------------------------------
(* What a step that fails, or a process that dies, leaves.                 *)
LEMMA IndexFacts ==
  ASSUME BootInv, b_born' = b_born, b_db' = b_db \/ (B!Rebuilds(b_db) /\ b_db.marker = "ours"
                                                   /\ b_db' = [b_db EXCEPT !.index = "invalid"])
  PROVE  /\ b_db' \in [marker : {"none", "ours", "foreign"}, schemas : SUBSET B!Schemas, legacy : BOOLEAN,
                       tables : SUBSET B!Tables, budget : {"none", "old", "ours"},
                       index : {"none", "invalid", "valid"}]
         /\ Owned' /\ Grown /\ b_db'.marker = b_db.marker /\ b_db'.tables = b_db.tables
<1>1. b_db \in [marker : {"none", "ours", "foreign"}, schemas : SUBSET B!Schemas, legacy : BOOLEAN,
                tables : SUBSET B!Tables, budget : {"none", "old", "ours"},
                index : {"none", "invalid", "valid"}]
  BY DEF BootInv, BootTyped
<1>2. CASE b_db' = b_db
  BY <1>1, <1>2 DEF BootInv, Owned, Grown, B!Refused, B!Prior
<1>3. CASE B!Rebuilds(b_db) /\ b_db.marker = "ours" /\ b_db' = [b_db EXCEPT !.index = "invalid"]
  <2>1. /\ b_db'.marker = b_db.marker /\ b_db'.legacy = b_db.legacy /\ b_db'.tables = b_db.tables
        /\ b_db'.schemas = b_db.schemas
        /\ b_db' \in [marker : {"none", "ours", "foreign"}, schemas : SUBSET B!Schemas, legacy : BOOLEAN,
                tables : SUBSET B!Tables, budget : {"none", "old", "ours"},
                index : {"none", "invalid", "valid"}]
    BY <1>1, <1>3
  <2>2. b_db.index # "valid"
    BY <1>3 DEF B!Rebuilds
  <2>3. QED
    BY <1>3, <2>1, <2>2 DEF BootInv, Owned, Grown, B!Refused, B!Prior
<1>4. QED
  BY <1>2, <1>3

LEMMA IndexingIsOurs ==
  ASSUME BootInv, NEW p \in B!Procs, NEW k \in B!Slots, b_at[p][k] = "indexes"
  PROVE  b_db.marker = "ours"
BY DEF BootInv, Placed, Prepared, BootSteps

LEMMA StepFailsKeepsBoot ==
  ASSUME BootInv, NEW p \in B!Procs, NEW k \in B!Slots, B!StepFails(p, k)
  PROVE  BootInv'
<1>1. PICK s : s = b_at[p][k]
  OBVIOUS
<1>2. /\ s \in BootSteps /\ s # "gone" /\ UNCHANGED <<b_born, b_source>>
      /\ b_db' = [b_db EXCEPT !.index = IF s = "indexes" /\ B!Rebuilds(b_db) THEN "invalid" ELSE b_db.index]
      /\ B!Failed(p, k)
  BY <1>1, BootStepsAre DEF B!StepFails
<1>3. b_web[p] \in [loader : {"DOWN", "LOADING", "READY", "FAILED"}, initializing : BOOLEAN,
                    ok : BOOLEAN, recent : BOOLEAN, ready : BOOLEAN]
      /\ b_web \in [B!Procs -> [loader : {"DOWN", "LOADING", "READY", "FAILED"}, initializing : BOOLEAN,
                    ok : BOOLEAN, recent : BOOLEAN, ready : BOOLEAN]]
      /\ b_db \in [marker : {"none", "ours", "foreign"}, schemas : SUBSET B!Schemas, legacy : BOOLEAN,
                tables : SUBSET B!Tables, budget : {"none", "old", "ours"},
                index : {"none", "invalid", "valid"}]
  BY WebFacts DEF BootInv, BootTyped
<1>4. b_db' = b_db \/ (B!Rebuilds(b_db) /\ b_db.marker = "ours"
                        /\ b_db' = [b_db EXCEPT !.index = "invalid"])
  <2>1. CASE s = "indexes" /\ B!Rebuilds(b_db)
    BY <1>1, <1>2, <2>1, IndexingIsOurs
  <2>2. CASE ~(s = "indexes" /\ B!Rebuilds(b_db))
    BY <1>2, <1>3, <2>2
  <2>3. QED
    BY <2>1, <2>2
<1>5. /\ b_db' \in [marker : {"none", "ours", "foreign"}, schemas : SUBSET B!Schemas, legacy : BOOLEAN,
                       tables : SUBSET B!Tables, budget : {"none", "old", "ours"},
                       index : {"none", "invalid", "valid"}]
      /\ Owned' /\ Grown /\ b_db'.marker = b_db.marker /\ b_db'.tables = b_db.tables
  BY <1>2, <1>4, IndexFacts
<1>6. b_at[p][k] # "gone"
  BY <1>1, <1>2
<1>7. b_web[p].initializing /\ ~b_web[p].ok /\ b_web[p].loader # "DOWN"
  BY <1>6, LoneThread
<1>8. "gone" \in BootSteps /\ "gone" \notin Prepared /\ "gate" \in BootSteps
  BY DEF BootSteps, Prepared
<1>9. CASE s \in B!Optional
  <2>1. PICK w : w = [b_web[p] EXCEPT !.ready = FALSE]
    OBVIOUS
  <2>2. b_at' = [b_at EXCEPT ![p][k] = "gate"] /\ b_web' = [b_web EXCEPT ![p] = w]
    BY <1>1, <1>2, <1>3, <1>9, <2>1 DEF B!Failed, B!Goto
  <2>3. w \in [loader : {"DOWN", "LOADING", "READY", "FAILED"}, initializing : BOOLEAN,
                    ok : BOOLEAN, recent : BOOLEAN, ready : BOOLEAN]
        /\ w.initializing /\ ~w.ok /\ w.loader # "DOWN"
    BY <1>3, <1>7, <2>1
  <2>4. b_db.marker = "ours" /\ Installed(s) \subseteq b_db.tables
    <3>1. s \in Prepared
      BY <1>9 DEF B!Optional, Prepared, BootSteps
    <3>2. QED
      BY <1>1, <3>1 DEF BootInv, Placed
  <2>5. Installed("gate") = Installed(s)
    BY <1>9 DEF B!Optional, Installed
  <2>6. QED
    BY <1>2, <1>5, <1>6, <1>8, <2>2, <2>3, <2>4, <2>5, ThreadKeepsBoot
<1>10. CASE s \notin B!Optional
  <2>1. PICK w : w = IF p \in Webs THEN [b_web[p] EXCEPT !.ok = FALSE, !.initializing = FALSE] ELSE B!Down
    OBVIOUS
  <2>2. b_at' = [b_at EXCEPT ![p][k] = "gone"] /\ b_web' = [b_web EXCEPT ![p] = w]
    BY <1>1, <1>2, <1>3, <1>10, <2>1 DEF B!Failed, B!Goto, B!AfterFailure
  <2>3. w \in [loader : {"DOWN", "LOADING", "READY", "FAILED"}, initializing : BOOLEAN,
                    ok : BOOLEAN, recent : BOOLEAN, ready : BOOLEAN]
        /\ ~w.initializing /\ ~w.ok
    BY <1>3, <2>1, DownTyped DEF B!Down
  <2>4. QED
    BY <1>2, <1>5, <1>6, <1>8, <2>2, <2>3, ThreadKeepsBoot
<1>11. QED
  BY <1>9, <1>10

-----------------------------------------------------------------------------
(* Children, and processes that die.                                       *)
LEMMA ChildKeepsBoot ==
  ASSUME BootInv, NEW p \in B!Procs, B!Child(p)
  PROVE  BootInv'
<1>1. b_web[p] \in [loader : {"DOWN", "LOADING", "READY", "FAILED"}, initializing : BOOLEAN,
                    ok : BOOLEAN, recent : BOOLEAN, ready : BOOLEAN]
      /\ b_web \in [B!Procs -> [loader : {"DOWN", "LOADING", "READY", "FAILED"}, initializing : BOOLEAN,
                    ok : BOOLEAN, recent : BOOLEAN, ready : BOOLEAN]]
      /\ b_at \in [B!Procs -> [B!Slots -> BootSteps]]
  BY WebFacts DEF BootInv, BootTyped
<1>2. PICK w : w = [b_web[p] EXCEPT !.loader = "READY", !.initializing = TRUE]
  OBVIOUS
<1>3. /\ b_web[p].loader = "DOWN" /\ UNCHANGED <<b_db, b_born, b_source>>
      /\ b_web' = [b_web EXCEPT ![p] = w] /\ b_at' = [b_at EXCEPT ![p][1] = "begin"]
  BY <1>1, <1>2 DEF B!Child, B!Goto
<1>4. w \in [loader : {"DOWN", "LOADING", "READY", "FAILED"}, initializing : BOOLEAN,
                    ok : BOOLEAN, recent : BOOLEAN, ready : BOOLEAN]
      /\ w.initializing /\ w.ok = b_web[p].ok /\ w.loader # "DOWN"
  BY <1>1, <1>2
<1>5. ~b_web[p].ok /\ ~b_web[p].initializing
  BY <1>3 DEF BootInv, Threads
<1>6. \A j \in B!Slots : b_at[p][j] = "gone"
  BY <1>5 DEF BootInv, Threads
<1>7. "begin" \in BootSteps /\ "begin" \notin Prepared /\ 1 \in B!Slots
  BY DEF BootSteps, Prepared, B!Slots
<1>8. /\ b_at' \in [B!Procs -> [B!Slots -> BootSteps]] /\ b_at'[p][1] = "begin"
      /\ \A q \in B!Procs, j \in B!Slots : q # p \/ j # 1 => b_at'[q][j] = b_at[q][j]
  BY <1>1, <1>3, <1>7
<1>9. b_web'[p] = w /\ \A q \in B!Procs : q # p => b_web'[q] = b_web[q]
  BY <1>1, <1>3
<1>10. BootTyped'
  BY <1>3, <1>4, <1>8 DEF BootInv, BootTyped
<1>11. Owned' /\ Grown
  BY <1>3 DEF BootInv, Owned, Grown, B!Refused, B!Prior
<1>12. Threads'
  BY <1>4, <1>5, <1>6, <1>8, <1>9 DEF BootInv, Threads
<1>13. \A q \in B!Procs : b_web'[q].ok => b_web[q].ok
  BY <1>4, <1>9
<1>14. \A q \in B!Procs, j \in B!Slots :
         b_at'[q][j] = b_at[q][j] \/ (b_at'[q][j] \notin Prepared /\ b_at'[q][j] # "probe")
  BY <1>7, <1>8
<1>15. Placed'
  BY <1>3, <1>10, <1>11, <1>13, <1>14, GrownPlaces
<1>16. QED
  BY <1>10, <1>11, <1>12, <1>15 DEF BootInv

LEMMA DiesKeepsBoot ==
  ASSUME BootInv, NEW p \in B!Procs, B!Dies(p)
  PROVE  BootInv'
<1>1. /\ b_db \in [marker : {"none", "ours", "foreign"}, schemas : SUBSET B!Schemas, legacy : BOOLEAN,
                tables : SUBSET B!Tables, budget : {"none", "old", "ours"},
                index : {"none", "invalid", "valid"}]
      /\ b_web \in [B!Procs -> [loader : {"DOWN", "LOADING", "READY", "FAILED"}, initializing : BOOLEAN,
                    ok : BOOLEAN, recent : BOOLEAN, ready : BOOLEAN]]
      /\ b_at \in [B!Procs -> [B!Slots -> BootSteps]]
  BY DEF BootInv, BootTyped
<1>2. PICK hurt : hurt = (B!Rebuilds(b_db) /\ \E k \in B!Slots : b_at[p][k] = "indexes")
  OBVIOUS
<1>3. PICK none : none = [k \in B!Slots |-> "gone"]
  OBVIOUS
<1>4. /\ b_web' = [b_web EXCEPT ![p] = B!Down] /\ b_at' = [b_at EXCEPT ![p] = none]
      /\ UNCHANGED <<b_born, b_source>>
      /\ b_db' \in {b_db, [b_db EXCEPT !.index = IF hurt THEN "invalid" ELSE b_db.index]}
  BY <1>2, <1>3 DEF B!Dies
<1>5. hurt => B!Rebuilds(b_db) /\ b_db.marker = "ours"
  BY <1>2, IndexingIsOurs
<1>6. b_db' = b_db \/ (B!Rebuilds(b_db) /\ b_db.marker = "ours"
                        /\ b_db' = [b_db EXCEPT !.index = "invalid"])
  <2>1. CASE hurt
    BY <1>4, <1>5, <2>1
  <2>2. CASE ~hurt
    BY <1>1, <1>4, <2>2
  <2>3. QED
    BY <2>1, <2>2
<1>7. /\ b_db' \in [marker : {"none", "ours", "foreign"}, schemas : SUBSET B!Schemas, legacy : BOOLEAN,
                       tables : SUBSET B!Tables, budget : {"none", "old", "ours"},
                       index : {"none", "invalid", "valid"}]
      /\ Owned' /\ Grown
  BY <1>4, <1>6, IndexFacts
<1>8. none \in [B!Slots -> BootSteps] /\ (\A k \in B!Slots : none[k] = "gone") /\ "gone" \notin Prepared
  BY <1>3 DEF BootSteps, Prepared
<1>9. /\ b_at' \in [B!Procs -> [B!Slots -> BootSteps]] /\ b_at'[p] = none
      /\ \A q \in B!Procs : q # p => b_at'[q] = b_at[q]
  BY <1>1, <1>4, <1>8
<1>10. b_web'[p] = B!Down /\ \A q \in B!Procs : q # p => b_web'[q] = b_web[q]
  BY <1>1, <1>4
<1>11. ~B!Down.initializing /\ ~B!Down.ok
  BY DEF B!Down
<1>12. BootTyped'
  BY <1>1, <1>4, <1>7, <1>9, DownTyped DEF BootTyped
<1>13. Threads'
  BY <1>8, <1>9, <1>10, <1>11 DEF BootInv, Threads
<1>14. \A q \in B!Procs : b_web'[q].ok => b_web[q].ok
  BY <1>10, <1>11
<1>15. \A q \in B!Procs, j \in B!Slots :
         b_at'[q][j] = b_at[q][j] \/ (b_at'[q][j] \notin Prepared /\ b_at'[q][j] # "probe")
  BY <1>8, <1>9
<1>16. Placed'
  BY <1>4, <1>7, <1>12, <1>14, <1>15, GrownPlaces
<1>17. QED
  BY <1>7, <1>12, <1>13, <1>16 DEF BootInv

LEMMA SourceKeepsBoot ==
  ASSUME BootInv, B!SourceChild \/ B!SourceEnds
  PROVE  BootInv'
<1>1. UNCHANGED <<b_db, b_born, b_web, b_at>> /\ (b_source' = "working" => B!Verified(b_db))
  BY DEF B!SourceChild, B!SourceEnds
<1>2. B!Verified(b_db) => {"settings", "foundation", "shopping"} \subseteq b_db.tables
  BY DEF BootInv, Owned, B!Verified
<1>3. BootTyped' /\ Owned' /\ Threads' /\ Grown
  BY <1>1 DEF BootInv, BootTyped, Owned, Threads, Grown, B!Refused, B!Prior
<1>4. Placed'
  BY <1>1, <1>2, <1>3, GrownPlaces
<1>5. QED
  BY <1>3, <1>4 DEF BootInv

LEMMA BootStep ==
  ASSUME BootInv, [B!Next]_bootVars
  PROVE  BootInv'
<1>1. CASE UNCHANGED bootVars
  BY <1>1 DEF bootVars, BootInv, BootTyped, Owned, Threads, Placed, B!Refused, B!Prior
<1>2. CASE B!SourceChild \/ B!SourceEnds
  BY <1>2, SourceKeepsBoot
<1>3. CASE \E p \in B!Procs : B!Process(p)
  <2>1. PICK p \in B!Procs : B!Process(p)
    BY <1>3
  <2>2. CASE B!Start(p) \/ B!ImportFails(p) \/ B!FiveSeconds(p) \/ B!ReadyProbe(p) \/ B!ChildEnds(p)
    BY <2>2, QuietProcess
  <2>3. CASE B!Imported(p) \/ B!Request(p)
    BY <2>3, ReservingProcess
  <2>4. CASE B!Child(p)
    BY <2>4, ChildKeepsBoot
  <2>5. CASE B!Dies(p)
    BY <2>5, DiesKeepsBoot
  <2>6. CASE \E k \in B!Slots : B!Thread(p, k)
    <3>1. PICK k \in B!Slots : B!Thread(p, k)
      BY <2>6
    <3>2. CASE B!Step(p, k)
      BY <3>2, StepKeepsBoot
    <3>3. CASE B!StepFails(p, k)
      BY <3>3, StepFailsKeepsBoot
    <3>4. CASE B!StartThread(p, k) \/ B!ThreadFails(p, k) \/ B!Begin(p, k) \/ B!Publish(p, k)
      BY <3>4, QuietThread
    <3>5. QED
      BY <3>1, <3>2, <3>3, <3>4 DEF B!Thread
  <2>7. QED
    BY <2>1, <2>2, <2>3, <2>4, <2>5, <2>6 DEF B!Process
<1>4. QED
  BY <1>1, <1>2, <1>3 DEF B!Next

-----------------------------------------------------------------------------
(* What the invariant says.                                                *)
LEMMA BootMeans ==
  ASSUME BootInv
  PROVE  B!NeverLockedOut /\ B!ReadyIsInstalled /\ B!OneInitializer
<1>1. B!NeverLockedOut
  BY DEF BootInv, BootTyped, Owned, B!NeverLockedOut, B!Refused, B!Prior
<1>2. B!ReadyIsInstalled
  BY DEF BootInv, Placed, B!ReadyIsInstalled
<1>3. B!OneInitializer
  <2> SUFFICES ASSUME NEW p \in B!Procs
               PROVE  B!Cardinality({k \in B!Slots : b_at[p][k] # "gone"}) <= 1
    BY DEF B!OneInitializer
  <2>1. PICK T : T = {k \in B!Slots : b_at[p][k] # "gone"}
    OBVIOUS
  <2>2. \A j, k \in T : j = k
    BY <2>1 DEF BootInv, Threads
  <2>3. Cardinality(T) <= 1
    <3>1. CASE T = {}
      BY <3>1, FS_EmptySet
    <3>2. CASE T # {}
      <4>1. PICK k : T = {k}
        BY <2>2, <3>2
      <4>2. Cardinality({k}) = 1
        BY FS_Singleton
      <4>3. QED
        BY <4>1, <4>2
    <3>3. QED
      BY <3>1, <3>2
  <2>4. B!Cardinality(T) = Cardinality(T)
    BY Zenon DEF B!Cardinality, Cardinality
  <2>5. QED
    BY <2>1, <2>3, <2>4
<1>4. QED
  BY <1>1, <1>2, <1>3

(* Storage of another origin is refused, so no thread gets past it.        *)
LEMMA OldStays ==
  ASSUME BootInv, [B!Next]_bootVars, b_born = "OLD"
  PROVE  b_db' = b_db
<1>1. B!Refused(b_db) /\ b_db.marker # "ours"
  BY DEF BootInv, Owned, B!Refused
<1>2. \A p \in B!Procs, k \in B!Slots : b_at[p][k] \notin Prepared
  BY <1>1 DEF BootInv, Placed
<1>3. \A p \in B!Procs, k \in B!Slots : b_at[p][k] # "indexes"
  BY <1>2 DEF Prepared, BootSteps
<1>4. b_db = [b_db EXCEPT !.index = b_db.index]
  BY DEF BootInv, BootTyped
<1>5. ASSUME NEW p \in B!Procs, B!Dies(p) PROVE b_db' = b_db
  BY <1>3, <1>4, <1>5 DEF B!Dies
<1>6. ASSUME NEW p \in B!Procs, NEW k \in B!Slots, B!StepFails(p, k) PROVE b_db' = b_db
  BY <1>3, <1>4, <1>6 DEF B!StepFails
<1>7. ASSUME NEW p \in B!Procs, NEW k \in B!Slots, B!Step(p, k) PROVE FALSE
  <2>1. b_at[p][k] \in BootSteps
    BY DEF BootInv, BootTyped
  <2>2. b_at[p][k] = "prepare"
    BY <1>2, <1>7, <2>1 DEF B!Step, Prepared
  <2>3. QED
    BY <1>1, <1>7, <2>2 DEF B!Step, B!Impossible
<1>8. QED
  BY <1>5, <1>6, <1>7 DEF B!Next, B!Process, B!Thread, bootVars, B!SourceChild, B!SourceEnds, B!Start,
     B!Imported, B!ImportFails, B!Request, B!FiveSeconds, B!ReadyProbe, B!Child, B!ChildEnds,
     B!StartThread, B!ThreadFails, B!Begin, B!Publish

-----------------------------------------------------------------------------
(* The cycle of a source: the inductive invariant.                         *)
LayerStates == {"NOT_STARTED", "COMPLETE", "FAILED", "RUNNING", "INCOMPLETE", "WAITING_QUOTA",
                "PARTIAL", "WAITING_CURRENT"}
Cycles ==
  [date : 0..CycleDays, st : [C!Layers -> LayerStates], failed : BOOLEAN, got : BOOLEAN,
   drained : BOOLEAN, snap : 0..CycleDays, days : Nat, permits : Nat,
   budget : {"WAITING_KEY", "WAITING_POSTGRES", "WAITING_QUOTA", "PARTIAL", "FAILED", "COMPLETE"},
   shop : {"WAITING_KEY", "WAITING_QUOTA", "WAITING_MEMORY", "PARTIAL", "FAILED", "COMPLETE"},
   smart : {"NOT_STARTED", "RUNNING", "COMPLETE", "PARTIAL", "UNVERIFIED", "WAITING_MEMORY"},
   hold : BOOLEAN]
CycleTyped == C!TypeOK /\ c_c \in Cycles

(* What a layer may still ask for is left of the day.                      *)
Spends ==
  /\ c_used <= Quota /\ (c_pc = "future" => c_used < Quota)
  /\ c_pc = "current" => c_c.permits <= Quota - c_used

(* The current rows are of a finished snapshot that was over when the      *)
(* cycle began.                                                            *)
Calendar ==
  /\ 2 <= c_today /\ c_current < c_today
  /\ c_pc # "idle" => 2 <= c_c.date /\ c_c.date <= c_today /\ c_current < c_c.date
  /\ c_current # 0 => c_nation[c_current] = "COMPLETE"

Unstarted == \A l \in C!Layers : c_c.st[l] = "NOT_STARTED"
ShopSteps == {"shop", "smart", "retention", "shopend"}
Last == {"maintain", "finish"}
BeforeCurrent == {"classify", "admit", "future", "appropriation", "reserve", "current"}
Started ==
  /\ c_pc \in {"classify", "admit"} \/ c_c.drained => Unstarted
  /\ c_c.drained => c_pc \in Last
  /\ c_pc \in BeforeCurrent => c_c.st["current"] # "COMPLETE"
  /\ c_c.budget = "COMPLETE" => c_pc \in Last
  /\ c_pc = "shop" => c_c.smart = "NOT_STARTED"
  /\ c_pc \in {"retention", "shopend"} =>
       c_c.smart # "RUNNING" /\ (c_c.smart = "WAITING_MEMORY" => c_c.hold)

(* What a layer that says COMPLETE rests on.                               *)
Fresh == \A k \in {"future", "appropriation"} : c_c.st[k] = "COMPLETE" => c_aidfa[k] >= c_c.date
SnapshotRead == c_c.st["current"] = "COMPLETE" => c_c.snap # 0 /\ c_nation[c_c.snap] \in C!Finished
AllRead ==
  /\ \A l \in {"future", "appropriation", "current"} : c_c.st[l] = "COMPLETE"
  /\ \A d \in C!WindowDays(c_c.date) : "COMPLETE" \in {c_nation[d], c_history[d]}
Read == Fresh /\ SnapshotRead /\ (c_c.budget = "COMPLETE" => AllRead)

CycleInv == CycleTyped /\ Spends /\ Calendar /\ Started /\ Read

-----------------------------------------------------------------------------
LEMMA CycleConstants ==
  /\ CycleDays \in Nat /\ CycleDays > 1
  /\ Window \in Nat /\ Quota \in Nat /\ SyncMax \in Nat /\ FutureMax \in Nat /\ CurrentMax \in Nat
  /\ HistoryDays \in Nat /\ Batch \in Nat /\ Quota > 0 /\ SyncMax > 0 /\ FutureMax > 0
  /\ HistoryReserve \in Nat /\ MaxPool \in Nat /\ MaxUpsets \in Nat /\ Regions \subseteq Nat
  /\ C!Days = 1..CycleDays
BY InstancesAssumption DEF C!CycleAssumption, C!Days

LEMMA LayersAre == C!Layers = {"future", "appropriation", "current", "history"}
BY DEF C!Layers

LEMMA CycleMin ==
  ASSUME NEW T, T \subseteq Nat, T # {}
  PROVE  C!Min(T) \in T
BY Least DEF C!Min

LEMMA NoCycleFacts ==
  /\ C!NoCycle \in Cycles /\ C!NoCycle.date = 0 /\ ~C!NoCycle.drained /\ ~C!NoCycle.failed
  /\ C!NoCycle.budget = "WAITING_KEY" /\ C!NoCycle.smart = "NOT_STARTED"
  /\ \A l \in C!Layers : C!NoCycle.st[l] = "NOT_STARTED"
<1>1. C!NoCycle.st = [l \in C!Layers |-> "NOT_STARTED"]
  BY DEF C!NoCycle
<1>2. 0 \in Nat /\ 0 \in 0..CycleDays
  BY CycleConstants
<1>3. C!NoCycle.st \in [C!Layers -> LayerStates]
  BY <1>1 DEF LayerStates
<1>4. C!NoCycle \in Cycles
  BY <1>2, <1>3 DEF C!NoCycle, Cycles
<1>5. QED
  BY <1>1, <1>4 DEF C!NoCycle

(* A cycle that is not under way.                                          *)
LEMMA IdleFacts ==
  ASSUME c_pc = "idle", c_c = C!NoCycle
  PROVE  Started /\ Read
<1>1. \A l \in C!Layers : c_c.st[l] = "NOT_STARTED"
  BY NoCycleFacts
<1>2. c_c.budget = "WAITING_KEY" /\ ~c_c.drained
  BY NoCycleFacts
<1>3. Started
  BY <1>2 DEF Started, BeforeCurrent
<1>4. Read
  BY <1>1, <1>2, LayersAre DEF Read, Fresh, SnapshotRead
<1>5. QED
  BY <1>3, <1>4

LEMMA CycleStarts == C!Init => CycleInv
<1> SUFFICES ASSUME C!Init PROVE CycleInv
  OBVIOUS
<1>1. /\ c_today = 2 /\ c_used = 0 /\ c_current = 0 /\ c_pool = 0 /\ c_upsets = 0 /\ c_pc = "idle"
      /\ c_c = C!NoCycle /\ c_runState = "IDLE" /\ c_shopState = "IDLE"
      /\ c_nation = [d \in C!Days |-> "ABSENT"] /\ c_history = [d \in C!Days |-> "ABSENT"]
      /\ c_region = [d \in C!Days |-> [r \in Regions |-> "ABSENT"]]
      /\ c_aidfa = [k \in {"future", "appropriation"} |-> 0]
  BY DEF C!Init
<1>2. c_today \in C!Days /\ c_used \in Nat /\ c_current \in 0..CycleDays /\ c_pool \in 0..MaxPool
      /\ c_upsets \in 0..MaxUpsets
  BY <1>1, CycleConstants
<1>3. c_aidfa \in [{"future", "appropriation"} -> 0..CycleDays]
  BY <1>1, <1>2
<1>4. "ABSENT" \in C!ScopeStates
  BY DEF C!ScopeStates
<1>5. /\ c_nation \in [C!Days -> C!ScopeStates] /\ c_history \in [C!Days -> C!ScopeStates]
      /\ c_region \in [C!Days -> [Regions -> C!ScopeStates]]
  BY <1>1, <1>4
<1>6. CycleTyped
  BY <1>1, <1>2, <1>3, <1>5, NoCycleFacts DEF CycleTyped, C!TypeOK
<1>7. Started /\ Read
  BY <1>1, IdleFacts
<1>8. Spends /\ Calendar
  BY <1>1, CycleConstants DEF Spends, Calendar
<1>9. QED
  BY <1>6, <1>7, <1>8 DEF CycleInv

-----------------------------------------------------------------------------
(* What a call of the collector can answer.                                *)
LEMMA CallFacts ==
  ASSUME NEW s \in C!ScopeStates, NEW p \in Nat, NEW o \in BOOLEAN, NEW call \in C!Calls(s, p, o)
  PROVE  /\ call.n \in 0..p /\ call.to \in C!ScopeStates
         /\ call.answer \in {"COMPLETE", "EXHAUSTED", "RUNNING", "INCOMPLETE", "RAISED"}
         /\ call.answer = "COMPLETE" => call.to = "COMPLETE"
         /\ call.n = 0 /\ call.answer = "COMPLETE" => s = "COMPLETE"
         /\ s = "COMPLETE" => call.to = "COMPLETE"
<1>1. C!Resumed(s) \in C!ScopeStates /\ {"COMPLETE", "EXHAUSTED", "OVERLAP"} \subseteq C!ScopeStates
  BY DEF C!Resumed, C!ScopeStates, C!Active, C!Finished
<1>2. 0 \in 0..p
  OBVIOUS
<1>3. CASE s = "COMPLETE"
  <2>1. call = C!Answer(s, 0, "COMPLETE")
    BY <1>3 DEF C!Calls
  <2>2. call.to = s /\ call.n = 0 /\ call.answer = "COMPLETE"
    BY <2>1 DEF C!Answer
  <2>3. QED
    BY <1>2, <1>3, <2>2
<1>4. CASE s = "EXHAUSTED"
  <2>1. call = C!Answer(s, 0, "EXHAUSTED")
    BY <1>4 DEF C!Calls
  <2>2. call.to = s /\ call.n = 0 /\ call.answer = "EXHAUSTED"
    BY <2>1 DEF C!Answer
  <2>3. QED
    BY <1>2, <1>4, <2>2
<1>5. CASE s # "COMPLETE" /\ s # "EXHAUSTED"
  <2>1. PICK n \in 1..p :
          call \in {C!Answer(C!Resumed(s), n, a) : a \in {"RUNNING", "INCOMPLETE", "RAISED"}}
            \cup (IF ~o THEN {C!Answer("COMPLETE", n, "COMPLETE")}
                  ELSE IF C!Resumed(s) = "OPEN" THEN {C!Answer("OVERLAP", n, "INCOMPLETE")}
                  ELSE {C!Answer("EXHAUSTED", n, "EXHAUSTED")})
    BY <1>5 DEF C!Calls
  <2>2. \/ \E a \in {"RUNNING", "INCOMPLETE", "RAISED"} : call = C!Answer(C!Resumed(s), n, a)
        \/ call = C!Answer("COMPLETE", n, "COMPLETE")
        \/ call = C!Answer("OVERLAP", n, "INCOMPLETE")
        \/ call = C!Answer("EXHAUSTED", n, "EXHAUSTED")
    BY <2>1
  <2>3. call.n = n
    BY <2>2 DEF C!Answer
  <2>4. /\ call.to \in C!ScopeStates
        /\ call.answer \in {"COMPLETE", "EXHAUSTED", "RUNNING", "INCOMPLETE", "RAISED"}
        /\ call.answer = "COMPLETE" => call.to = "COMPLETE"
    BY <1>1, <2>2 DEF C!Answer
  <2>5. call.n \in 0..p /\ call.n # 0
    BY <2>3
  <2>6. QED
    BY <1>5, <2>4, <2>5
<1>6. QED
  BY <1>3, <1>4, <1>5

(* What a call costs.                                                      *)
LEMMA ChargeFacts ==
  ASSUME C!TypeOK, NEW p \in Nat, NEW call, call.n \in 0..p, p <= Quota - c_used, C!Charge(call)
  PROVE  /\ c_used' \in Nat /\ c_used' <= Quota
         /\ c_pool' \in 0..MaxPool /\ c_upsets' \in 0..MaxUpsets
<1>1. c_used \in Nat /\ c_pool \in 0..MaxPool /\ c_upsets \in 0..MaxUpsets
  BY DEF C!TypeOK
<1>2. c_used' = c_used + call.n /\ c_pool' = IF call.n > 0 THEN C!Smaller(MaxPool, c_pool + 1) ELSE c_pool
  BY DEF C!Charge
<1>3. c_upsets' = c_upsets \/ (c_upsets < MaxUpsets /\ c_upsets' = c_upsets + 1)
  BY DEF C!Charge
<1>4. c_used' \in Nat /\ c_used' <= Quota
  BY <1>1, <1>2, CycleConstants
<1>5. c_pool' \in 0..MaxPool
  BY <1>1, <1>2, CycleConstants DEF C!Smaller
<1>6. c_upsets' \in 0..MaxUpsets
  BY <1>1, <1>3, CycleConstants
<1>7. QED
  BY <1>4, <1>5, <1>6

LEMMA SettleFacts ==
  ASSUME c_c \in Cycles, NEW layer \in C!Layers, NEW call,
         call.answer \in {"COMPLETE", "EXHAUSTED", "RUNNING", "INCOMPLETE", "RAISED"}
  PROVE  LET s == C!Settle(layer, call)
         IN  /\ s \in Cycles
             /\ s.date = c_c.date /\ s.drained = c_c.drained /\ s.snap = c_c.snap /\ s.days = c_c.days
             /\ s.permits = c_c.permits /\ s.budget = c_c.budget /\ s.smart = c_c.smart
             /\ s.hold = c_c.hold
             /\ s.st[layer] = "COMPLETE" => call.answer = "COMPLETE"
             /\ \A l \in C!Layers : l # layer => s.st[l] = c_c.st[l]
<1>1. PICK bad : bad = (call.answer \in {"RAISED", "EXHAUSTED"})
  OBVIOUS
<1>2. PICK v : v = IF bad THEN "FAILED" ELSE call.answer
  OBVIOUS
<1>3. PICK got : got = (c_c.got \/ call.answer # "RAISED")
  OBVIOUS
<1>4. PICK failed : failed = (c_c.failed \/ bad)
  OBVIOUS
<1>5. PICK st : st = [c_c.st EXCEPT ![layer] = v]
  OBVIOUS
<1>6. C!Settle(layer, call) = [c_c EXCEPT !.st = st, !.failed = failed, !.got = got]
  BY <1>1, <1>2, <1>3, <1>4, <1>5 DEF C!Settle, Cycles
<1>7. v \in LayerStates /\ failed \in BOOLEAN /\ got \in BOOLEAN
  BY <1>1, <1>2, <1>3, <1>4 DEF LayerStates, Cycles
<1>8. v = "COMPLETE" => call.answer = "COMPLETE"
  BY <1>2
<1>9. c_c.st \in [C!Layers -> LayerStates]
  BY DEF Cycles
<1>10. st \in [C!Layers -> LayerStates] /\ st[layer] = v /\ \A l \in C!Layers : l # layer => st[l] = c_c.st[l]
  BY <1>5, <1>7, <1>9
<1>11. PICK s : s = C!Settle(layer, call)
  OBVIOUS
<1>12. /\ s \in Cycles /\ s.st = st
       /\ s.date = c_c.date /\ s.drained = c_c.drained /\ s.snap = c_c.snap /\ s.days = c_c.days
       /\ s.permits = c_c.permits /\ s.budget = c_c.budget /\ s.smart = c_c.smart /\ s.hold = c_c.hold
  BY <1>6, <1>7, <1>10, <1>11 DEF Cycles
<1>13. QED
  BY <1>8, <1>10, <1>11, <1>12

LEMMA CycleTypes ==
  ASSUME CycleInv
  PROVE  /\ c_today \in 1..CycleDays /\ c_used \in Nat /\ c_used <= Quota
         /\ c_nation \in [C!Days -> C!ScopeStates] /\ c_history \in [C!Days -> C!ScopeStates]
         /\ c_region \in [C!Days -> [Regions -> C!ScopeStates]]
         /\ c_aidfa \in [{"future", "appropriation"} -> 0..CycleDays]
         /\ c_current \in 0..CycleDays /\ c_pool \in 0..MaxPool /\ c_upsets \in 0..MaxUpsets
         /\ c_c \in Cycles /\ c_c.st \in [C!Layers -> LayerStates]
         /\ c_c.date \in 0..CycleDays /\ c_c.snap \in 0..CycleDays /\ c_c.permits \in Nat /\ c_c.days \in Nat
BY CycleConstants DEF CycleInv, CycleTyped, C!TypeOK, Cycles, Spends

LEMMA CycleNumbers ==
  ASSUME CycleInv
  PROVE  /\ c_today \in Nat /\ 1 <= c_today /\ c_today <= CycleDays /\ CycleDays \in Nat
         /\ c_used \in Nat /\ c_used <= Quota /\ Quota \in Nat /\ SyncMax \in Nat
         /\ c_pool \in Nat /\ c_pool <= MaxPool /\ MaxPool \in Nat /\ Batch \in Nat
         /\ c_upsets \in Nat /\ c_upsets <= MaxUpsets /\ MaxUpsets \in Nat
         /\ c_current \in Nat /\ c_c.date \in Nat /\ c_c.date <= CycleDays
<1>1. c_today \in 1..CycleDays /\ c_pool \in 0..MaxPool /\ c_upsets \in 0..MaxUpsets
  BY CycleTypes
<1>2. CycleDays \in Nat /\ MaxPool \in Nat /\ MaxUpsets \in Nat
  BY CycleConstants
<1>3. /\ c_today \in Nat /\ 1 <= c_today /\ c_today <= CycleDays
      /\ c_pool \in Nat /\ c_pool <= MaxPool /\ c_upsets \in Nat /\ c_upsets <= MaxUpsets
  BY <1>1, <1>2
<1>4. c_used \in Nat /\ c_used <= Quota
  BY CycleTypes
<1>5. c_current \in 0..CycleDays /\ c_c.date \in 0..CycleDays
  BY CycleTypes
<1>6. c_current \in Nat /\ c_c.date \in Nat /\ c_c.date <= CycleDays
  BY <1>2, <1>5
<1>7. QED
  BY <1>2, <1>3, <1>4, <1>6, CycleConstants

LEMMA UpsetTyped ==
  ASSUME CycleInv, c_upsets' = c_upsets \/ (c_upsets < MaxUpsets /\ c_upsets' = c_upsets + 1)
  PROVE  c_upsets' \in 0..MaxUpsets
BY CycleNumbers

-----------------------------------------------------------------------------
(* Steps outside a cycle, and its end.                                     *)
LEMMA MidnightKeepsCycle ==
  ASSUME CycleInv, C!Midnight
  PROVE  CycleInv'
<1>1. /\ c_today < CycleDays /\ c_today' = c_today + 1 /\ c_used' = 0
      /\ UNCHANGED <<c_nation, c_region, c_history, c_aidfa, c_current, c_pool, c_pc, c_c, c_runState,
                     c_shopState, c_upsets>>
  BY DEF C!Midnight, C!scopes, C!shown
<1>2. c_today' \in C!Days /\ c_used' \in Nat
  <2>1. c_today \in Int /\ 1 <= c_today /\ CycleDays \in Int /\ C!Days = 1..CycleDays
    BY CycleNumbers, CycleConstants
  <2>2. c_today' \in Int /\ 1 <= c_today' /\ c_today' <= CycleDays
    BY <1>1, <2>1
  <2>3. QED
    BY <1>1, <2>1, <2>2
<1>3. CycleTyped'
  BY <1>1, <1>2 DEF CycleInv, CycleTyped, C!TypeOK
<1>4. Spends'
  <2>1. Quota \in Nat /\ 0 < Quota /\ c_used \in Nat /\ c_c.permits \in Nat
    BY CycleNumbers, CycleConstants, CycleTypes
  <2>2. c_pc = "current" => c_c.permits <= Quota - c_used
    BY DEF CycleInv, Spends
  <2>3. c_pc = "current" => c_c.permits <= Quota - 0
    BY <2>1, <2>2
  <2>4. QED
    BY <1>1, <2>1, <2>3 DEF Spends
<1>5. Calendar'
  BY <1>1, CycleNumbers DEF CycleInv, Calendar
<1>6. Started' /\ Read'
  BY <1>1 DEF CycleInv, Started, Unstarted, Read, Fresh, SnapshotRead, AllRead, C!WindowDays, C!LatestDay
<1>7. QED
  BY <1>3, <1>4, <1>5, <1>6 DEF CycleInv

LEMMA RefusedKeepsCycle ==
  ASSUME CycleInv, C!Refused
  PROVE  CycleInv'
<1>1. UNCHANGED <<c_today, c_used, c_nation, c_region, c_history, c_aidfa, c_current, c_pool, c_pc, c_c>>
  BY DEF C!Refused, C!scopes
<1>2. c_upsets < MaxUpsets /\ c_upsets' = c_upsets + 1
  BY DEF C!Refused
<1>3. c_upsets' \in 0..MaxUpsets
  BY <1>2, UpsetTyped
<1>4. {c_runState', c_shopState'} \subseteq
        {c_runState, c_shopState, "WAITING_MEMORY", "WAITING_STORAGE", "LEASE_HELD"}
  BY DEF C!Refused
<1>5. CycleTyped'
  BY <1>1, <1>3, <1>4 DEF CycleInv, CycleTyped, C!TypeOK
<1>6. Spends' /\ Calendar'
  BY <1>1 DEF CycleInv, Spends, Calendar
<1>7. Started' /\ Read'
  BY <1>1 DEF CycleInv, Started, Unstarted, Read, Fresh, SnapshotRead, AllRead, C!WindowDays, C!LatestDay
<1>8. QED
  BY <1>5, <1>6, <1>7 DEF CycleInv

LEMMA BeginKeepsCycle ==
  ASSUME CycleInv, C!Begin
  PROVE  CycleInv'
<1>1. /\ c_pc' \in {"classify", "shop"} /\ c_c' = [C!NoCycle EXCEPT !.date = c_today]
      /\ UNCHANGED <<c_today, c_used, c_nation, c_region, c_history, c_aidfa, c_current, c_pool, c_upsets>>
  BY DEF C!Begin, C!scopes
<1>2. {c_runState', c_shopState'} \subseteq {c_runState, c_shopState, "RUNNING"}
  BY DEF C!Begin
<1>3. c_today \in 0..CycleDays
  BY CycleNumbers
<1>4. /\ c_c' \in Cycles /\ c_c'.date = c_today /\ c_c'.drained = C!NoCycle.drained
      /\ c_c'.st = C!NoCycle.st /\ c_c'.budget = C!NoCycle.budget /\ c_c'.smart = C!NoCycle.smart
  BY <1>1, <1>3, NoCycleFacts DEF Cycles
<1>5. Unstarted' /\ ~c_c'.drained /\ c_c'.budget # "COMPLETE" /\ c_c'.smart = "NOT_STARTED"
  BY <1>4, NoCycleFacts DEF Unstarted
<1>6. CycleTyped'
  BY <1>1, <1>2, <1>4 DEF CycleInv, CycleTyped, C!TypeOK
<1>7. Spends'
  BY <1>1 DEF CycleInv, Spends
<1>8. Calendar'
  BY <1>1, <1>4, CycleNumbers DEF CycleInv, Calendar
<1>9. Started'
  BY <1>1, <1>5, LayersAre DEF Started, Unstarted
<1>10. Read'
  BY <1>5, LayersAre DEF Read, Fresh, SnapshotRead, Unstarted
<1>11. QED
  BY <1>6, <1>7, <1>8, <1>9, <1>10 DEF CycleInv

LEMMA EndKeepsCycle ==
  ASSUME CycleInv, C!ShoppingEnd \/ C!Finish \/ C!Stop
  PROVE  CycleInv'
<1>1. /\ c_pc' = "idle" /\ c_c' = C!NoCycle
      /\ UNCHANGED <<c_today, c_used, c_nation, c_region, c_history, c_aidfa, c_current, c_pool>>
  BY DEF C!ShoppingEnd, C!Finish, C!Stop, C!scopes
<1>2. c_upsets' = c_upsets \/ (c_upsets < MaxUpsets /\ c_upsets' = c_upsets + 1)
  BY DEF C!ShoppingEnd, C!Finish, C!Stop
<1>3. c_upsets' \in 0..MaxUpsets
  BY <1>2, UpsetTyped
<1>4. c_c.shop \in {"WAITING_KEY", "WAITING_QUOTA", "WAITING_MEMORY", "PARTIAL", "FAILED", "COMPLETE"}
  BY CycleTypes DEF Cycles
<1>5. \A v, f : C!ComponentState(v, f) \in
         {"FAILED", "COMPLETE", "WAITING_QUOTA", "WAITING_STORAGE", "WAITING_KEYS", "PARTIAL"}
  BY DEF C!ComponentState
<1>6. {c_runState', c_shopState'} \subseteq
        {"IDLE", "RUNNING", "FAILED", "COMPLETE", "PARTIAL", "LEASE_HELD", "WAITING_QUOTA",
         "WAITING_KEYS", "WAITING_STORAGE", "WAITING_MEMORY"}
  <2>1. CASE C!ShoppingEnd
    BY <1>4, <2>1 DEF C!ShoppingEnd, CycleInv, CycleTyped, C!TypeOK
  <2>2. CASE C!Finish
    BY <1>5, <2>2 DEF C!Finish, CycleInv, CycleTyped, C!TypeOK
  <2>3. CASE C!Stop
    BY <2>3 DEF C!Stop, CycleInv, CycleTyped, C!TypeOK
  <2>4. QED
    BY <2>1, <2>2, <2>3
<1>7. CycleTyped'
  BY <1>1, <1>3, <1>6, NoCycleFacts DEF CycleInv, CycleTyped, C!TypeOK
<1>8. Spends' /\ Calendar'
  BY <1>1 DEF CycleInv, Spends, Calendar
<1>9. Started' /\ Read'
  <2>1. \A l \in C!Layers : c_c'.st[l] = "NOT_STARTED"
    BY <1>1, NoCycleFacts
  <2>2. c_c'.budget # "COMPLETE" /\ ~c_c'.drained
    BY <1>1, NoCycleFacts
  <2>3. Started'
    BY <1>1, <2>1, <2>2 DEF Started, Unstarted, BeforeCurrent
  <2>4. Read'
    BY <2>1, <2>2, LayersAre DEF Read, Fresh, SnapshotRead
  <2>5. QED
    BY <2>3, <2>4
<1>10. QED
  BY <1>7, <1>8, <1>9 DEF CycleInv

(* The shopping cycle.                                                     *)
LEMMA ShoppingKeepsCycle ==
  ASSUME CycleInv, C!Shopping \/ C!SmartReplay \/ C!Retention
  PROVE  CycleInv'
<1>1. /\ c_pc \in {"shop", "smart", "retention"} /\ c_pc' \in {"smart", "retention", "shopend"}
      /\ UNCHANGED <<c_today, c_used, c_nation, c_region, c_history, c_aidfa, c_current, c_pool,
                     c_runState, c_shopState>>
  BY DEF C!Shopping, C!SmartReplay, C!Retention, C!scopes, C!shown
<1>2. c_upsets' = c_upsets \/ (c_upsets < MaxUpsets /\ c_upsets' = c_upsets + 1)
  BY DEF C!Shopping, C!SmartReplay, C!Retention
<1>3. c_upsets' \in 0..MaxUpsets
  BY <1>2, UpsetTyped
<1>4. \/ \E a \in {"COMPLETE", "PARTIAL", "WAITING_QUOTA"} :
           c_c' = [c_c EXCEPT !.shop = a, !.smart = "RUNNING"]
      \/ \E a \in {"COMPLETE", "PARTIAL"} : c_c' = [c_c EXCEPT !.smart = a]
      \/ c_c' \in {c_c, [c_c EXCEPT !.shop = "FAILED", !.failed = TRUE],
                  [c_c EXCEPT !.shop = "WAITING_MEMORY", !.hold = TRUE],
                  [c_c EXCEPT !.smart = "UNVERIFIED"],
                  [c_c EXCEPT !.smart = "WAITING_MEMORY", !.hold = TRUE],
                  [c_c EXCEPT !.failed = TRUE]}
  BY DEF C!Shopping, C!SmartReplay, C!Retention
<1>5. /\ c_c' \in Cycles /\ c_c'.date = c_c.date /\ c_c'.st = c_c.st /\ c_c'.snap = c_c.snap
      /\ c_c'.drained = c_c.drained /\ c_c'.budget = c_c.budget
  <2>0. c_c \in Cycles
    BY CycleTypes
  <2>1. CASE \E a \in {"COMPLETE", "PARTIAL", "WAITING_QUOTA"} :
               c_c' = [c_c EXCEPT !.shop = a, !.smart = "RUNNING"]
    BY <2>0, <2>1 DEF Cycles
  <2>2. CASE \E a \in {"COMPLETE", "PARTIAL"} : c_c' = [c_c EXCEPT !.smart = a]
    BY <2>0, <2>2 DEF Cycles
  <2>3. CASE c_c' \in {c_c, [c_c EXCEPT !.shop = "FAILED", !.failed = TRUE]}
    BY <2>0, <2>3 DEF Cycles
  <2>4. CASE c_c' \in {[c_c EXCEPT !.shop = "WAITING_MEMORY", !.hold = TRUE],
                      [c_c EXCEPT !.smart = "UNVERIFIED"]}
    BY <2>0, <2>4 DEF Cycles
  <2>5. CASE c_c' \in {[c_c EXCEPT !.smart = "WAITING_MEMORY", !.hold = TRUE],
                      [c_c EXCEPT !.failed = TRUE]}
    BY <2>0, <2>5 DEF Cycles
  <2>6. QED
    BY <1>4, <2>1, <2>2, <2>3, <2>4, <2>5
<1>6. CycleTyped'
  BY <1>1, <1>3, <1>5 DEF CycleInv, CycleTyped, C!TypeOK
<1>7. Spends' /\ Calendar'
  BY <1>1, <1>5 DEF CycleInv, Spends, Calendar
<1>8. c_pc' \in {"retention", "shopend"} =>
        c_c'.smart # "RUNNING" /\ (c_c'.smart = "WAITING_MEMORY" => c_c'.hold)
  <2>1. CASE C!Shopping
    <3> SUFFICES ASSUME c_pc' \in {"retention", "shopend"}
                 PROVE  c_c'.smart = "NOT_STARTED"
      OBVIOUS
    <3>1. c_c' \in {c_c, [c_c EXCEPT !.shop = "FAILED", !.failed = TRUE],
                      [c_c EXCEPT !.shop = "WAITING_MEMORY", !.hold = TRUE]}
      BY <2>1 DEF C!Shopping
    <3>2. c_c'.smart = c_c.smart
      BY <3>1, CycleTypes DEF Cycles
    <3>3. c_c.smart = "NOT_STARTED"
      BY <2>1 DEF CycleInv, Started, C!Shopping
    <3>4. QED
      BY <3>2, <3>3
  <2>2. CASE C!SmartReplay
    <3>1. \/ \E answer \in {"COMPLETE", "PARTIAL"} : c_c' = [c_c EXCEPT !.smart = answer]
          \/ c_c' \in {[c_c EXCEPT !.smart = "UNVERIFIED"],
                         [c_c EXCEPT !.smart = "WAITING_MEMORY", !.hold = TRUE]}
      BY <2>2 DEF C!SmartReplay
    <3>2. QED
      BY <3>1, CycleTypes DEF Cycles
  <2>3. CASE C!Retention
    <3>1. c_c' = c_c \/ c_c' = [c_c EXCEPT !.failed = TRUE]
      BY <2>3 DEF C!Retention
    <3>2. c_c'.smart = c_c.smart /\ c_c'.hold = c_c.hold
      BY <3>1, CycleTypes DEF Cycles
    <3>3. c_pc = "retention"
      BY <2>3 DEF C!Retention
    <3>4. QED
      BY <3>2, <3>3 DEF CycleInv, Started
  <2>4. QED
    BY <2>1, <2>2, <2>3
<1>9. Started'
  BY <1>1, <1>5, <1>8 DEF CycleInv, Started, Unstarted, Last, BeforeCurrent
<1>10. Read'
  BY <1>1, <1>5 DEF CycleInv, Read, Fresh, SnapshotRead, AllRead, C!WindowDays, C!LatestDay
<1>11. QED
  BY <1>6, <1>7, <1>9, <1>10 DEF CycleInv

-----------------------------------------------------------------------------
(* A step of a budget cycle that reads and changes no scope.               *)
LEMMA LocalKeepsCycle ==
  ASSUME CycleInv, c_pc \in BeforeCurrent \cup {"history"} \cup Last,
         c_pc' \in BeforeCurrent \cup {"history"} \cup Last,
         UNCHANGED <<c_today, c_used, c_nation, c_region, c_history, c_aidfa, c_current, c_runState,
                     c_shopState>>,
         c_pool' \in 0..MaxPool, c_upsets' \in 0..MaxUpsets,
         c_c' \in Cycles, c_c'.date = c_c.date, Spends', Started', Read'
  PROVE  CycleInv'
<1>1. c_pc # "idle" /\ c_pc' # "idle"
  BY DEF BeforeCurrent, Last
<1>2. c_pc' \in {"classify", "admit", "future", "appropriation", "reserve", "current", "history", "maintain",
                 "finish"}
  BY DEF BeforeCurrent, Last
<1>3. CycleTyped'
  BY <1>2 DEF CycleInv, CycleTyped, C!TypeOK
<1>4. Calendar'
  BY <1>1 DEF CycleInv, Calendar
<1>5. QED
  BY <1>3, <1>4 DEF CycleInv

LEMMA ClassifyKeepsCycle ==
  ASSUME CycleInv, C!NotReady \/ C!Precheck \/ C!Admit
  PROVE  CycleInv'
<1>1. /\ c_pc \in {"classify", "admit"} /\ c_pc' \in {"admit", "future", "maintain", "finish"}
      /\ UNCHANGED <<c_today, c_used, c_nation, c_region, c_history, c_aidfa, c_current, c_runState,
                     c_shopState>>
  BY DEF C!NotReady, C!Precheck, C!Admit, C!scopes, C!shown
<1>2. c_upsets' \in 0..MaxUpsets
  <2>1. c_upsets' = c_upsets \/ (c_upsets < MaxUpsets /\ c_upsets' = c_upsets + 1)
    BY DEF C!NotReady, C!Precheck, C!Admit
  <2>2. QED
    BY <2>1, UpsetTyped
<1>3. c_pool' \in 0..MaxPool
  <2>1. c_pool' = c_pool \/ c_pool' = c_pool - C!Smaller(c_pool, Batch)
    BY DEF C!NotReady, C!Precheck, C!Admit
  <2>2. QED
    BY <2>1, CycleNumbers DEF C!Smaller
<1>4. \/ \E raised \in BOOLEAN : c_c' = [c_c EXCEPT !.budget = "WAITING_POSTGRES", !.failed = raised]
      \/ c_c' \in {c_c, [c_c EXCEPT !.drained = TRUE, !.budget = "PARTIAL"],
                  [c_c EXCEPT !.budget = "WAITING_QUOTA"], [c_c EXCEPT !.budget = "WAITING_KEY"]}
  BY DEF C!NotReady, C!Precheck, C!Admit
<1>5. /\ c_c' \in Cycles /\ c_c'.date = c_c.date /\ c_c'.st = c_c.st
      /\ c_c'.budget \in {c_c.budget, "WAITING_POSTGRES", "PARTIAL", "WAITING_QUOTA", "WAITING_KEY"}
  BY <1>4, CycleTypes DEF Cycles
<1>6. c_c'.drained => c_pc' \in Last
  <2>1. ~c_c.drained
    BY <1>1 DEF CycleInv, Started, Last
  <2>2. CASE C!Precheck
    <3>1. c_pool > 0 => c_pc' = "maintain"
      BY <2>2 DEF C!Precheck, C!Drains
    <3>2. ~(c_pool > 0) => c_c' = c_c
      BY <2>2 DEF C!Precheck
    <3>3. QED
      BY <2>1, <3>1, <3>2 DEF Last
  <2>3. CASE C!NotReady
    BY <2>3 DEF C!NotReady, Last
  <2>4. CASE C!Admit
    <3>1. c_c' \in {c_c, [c_c EXCEPT !.budget = "WAITING_QUOTA"], [c_c EXCEPT !.budget = "WAITING_KEY"]}
      BY <2>4 DEF C!Admit
    <3>2. c_c'.drained = c_c.drained
      BY <3>1, CycleTypes DEF Cycles
    <3>3. QED
      BY <2>1, <3>2
  <2>5. QED
    BY <2>2, <2>3, <2>4
<1>7. Unstarted' /\ c_c'.budget # "COMPLETE"
  <2>1. Unstarted /\ c_c.budget # "COMPLETE"
    BY <1>1 DEF CycleInv, Started, Last
  <2>2. QED
    BY <1>5, <2>1 DEF Unstarted
<1>8. Started'
  BY <1>1, <1>6, <1>7, LayersAre DEF Started, Unstarted
<1>9. Read'
  BY <1>7, LayersAre DEF Read, Fresh, SnapshotRead, Unstarted
<1>10. Spends'
  <2>1. c_pc' = "future" => c_used < Quota
    <3>1. c_pc' = "future" => Quota - c_used > 0
      BY <1>1 DEF C!NotReady, C!Precheck, C!Admit, C!Left
    <3>2. QED
      BY <3>1, CycleNumbers
  <2>2. c_pc' # "current"
    BY <1>1
  <2>3. QED
    BY <1>1, <2>1, <2>2 DEF CycleInv, Spends
<1>11. QED
  BY <1>1, <1>2, <1>3, <1>5, <1>8, <1>9, <1>10, LocalKeepsCycle DEF BeforeCurrent, Last

LEMMA ReserveKeepsCycle ==
  ASSUME CycleInv, C!ReservePermits
  PROVE  CycleInv'
<1>1. PICK remaining : remaining = C!Larger(0, C!Smaller(SyncMax, Quota - c_used))
  OBVIOUS
<1>2. PICK kept : kept = IF remaining > 1 /\ C!Missing(c_c.date) # {} /\ HistoryReserve > 0
              THEN C!Smaller(C!Smaller(HistoryReserve, C!Larger(1, remaining \div 4)), remaining - 1)
              ELSE 0
  OBVIOUS
<1>3. /\ c_pc = "reserve" /\ c_pc' = "current" /\ c_c' = [c_c EXCEPT !.permits = remaining - kept]
      /\ UNCHANGED <<c_today, c_used, c_nation, c_region, c_history, c_aidfa, c_current, c_pool, c_runState,
                     c_shopState, c_upsets>>
  BY <1>1, <1>2 DEF C!ReservePermits, C!Left, C!scopes, C!shown
<1>4. remaining \in Nat /\ remaining <= Quota - c_used
  <2>1. PICK left : left = Quota - c_used
    OBVIOUS
  <2>2. left \in Nat
    BY <2>1, CycleNumbers
  <2>3. remaining = C!Larger(0, C!Smaller(SyncMax, left))
    BY <1>1, <2>1
  <2>4. remaining \in Nat /\ remaining <= left
    BY <2>2, <2>3, CycleConstants DEF C!Larger, C!Smaller
  <2>5. QED
    BY <2>1, <2>4
<1>5. kept \in Nat /\ kept <= remaining
  <2>1. CASE remaining > 1 /\ C!Missing(c_c.date) # {} /\ HistoryReserve > 0
    <3>1. PICK q : q = remaining \div 4
      OBVIOUS
    <3>2. q \in Nat
      BY <1>4, <3>1
    <3>3. kept = C!Smaller(C!Smaller(HistoryReserve, C!Larger(1, q)), remaining - 1)
      BY <1>2, <2>1, <3>1
    <3>4. QED
      BY <1>4, <2>1, <3>2, <3>3, CycleConstants DEF C!Larger, C!Smaller
  <2>2. CASE ~(remaining > 1 /\ C!Missing(c_c.date) # {} /\ HistoryReserve > 0)
    BY <1>2, <1>4, <2>2
  <2>3. QED
    BY <2>1, <2>2
<1>6. remaining - kept \in Nat /\ remaining - kept <= Quota - c_used
  BY <1>4, <1>5, CycleNumbers
<1>7. /\ c_c' \in Cycles /\ c_c'.permits = remaining - kept /\ c_c'.date = c_c.date /\ c_c'.st = c_c.st
      /\ c_c'.snap = c_c.snap /\ c_c'.drained = c_c.drained /\ c_c'.budget = c_c.budget
      /\ c_c'.smart = c_c.smart /\ c_c'.hold = c_c.hold
  BY <1>3, <1>6, CycleTypes DEF Cycles
<1>8. Spends'
  BY <1>3, <1>6, <1>7 DEF CycleInv, Spends
<1>9. Started'
  BY <1>3, <1>7 DEF CycleInv, Started, Unstarted, Last, BeforeCurrent
<1>10. Read'
  BY <1>3, <1>7 DEF CycleInv, Read, Fresh, SnapshotRead, AllRead, C!WindowDays, C!LatestDay
<1>11. c_upsets' \in 0..MaxUpsets /\ c_pool' \in 0..MaxPool
  BY <1>3, CycleTypes
<1>12. QED
  BY <1>3, <1>7, <1>8, <1>9, <1>10, <1>11, LocalKeepsCycle DEF BeforeCurrent, Last

(* No layer reads: one of them gets a status that is not COMPLETE.         *)
LEMMA StatusKeepsCycle ==
  ASSUME CycleInv, NEW layer \in {"appropriation", "current"}, NEW v \in LayerStates, v # "COMPLETE",
         NEW snap \in 0..CycleDays, NEW failed \in BOOLEAN,
         c_c' = [c_c EXCEPT !.st = [c_c.st EXCEPT ![layer] = v], !.snap = snap, !.failed = failed],
         layer = "appropriation" => c_pc = "appropriation" /\ c_pc' = "reserve" /\ snap = c_c.snap,
         layer = "current" => c_pc = "current" /\ c_pc' = "history",
         UNCHANGED <<c_today, c_used, c_nation, c_region, c_history, c_aidfa, c_current, c_pool, c_runState,
                     c_shopState>>,
         c_upsets' \in 0..MaxUpsets
  PROVE  CycleInv'
<1>1. PICK st : st = [c_c.st EXCEPT ![layer] = v]
  OBVIOUS
<1>2. layer \in C!Layers /\ c_c.st \in [C!Layers -> LayerStates]
  BY LayersAre, CycleTypes
<1>3. /\ st \in [C!Layers -> LayerStates] /\ st[layer] = v
      /\ \A l \in C!Layers : l # layer => st[l] = c_c.st[l]
  BY <1>1, <1>2
<1>4. /\ c_c' \in Cycles /\ c_c'.date = c_c.date /\ c_c'.st = st /\ c_c'.snap = snap
      /\ c_c'.drained = c_c.drained /\ c_c'.budget = c_c.budget
  BY <1>1, <1>3, CycleTypes DEF Cycles
<1>5. c_pc \in {"appropriation", "current"} /\ c_pc' \in {"reserve", "history"}
  OBVIOUS
<1>6. Spends'
  BY <1>5 DEF CycleInv, Spends
<1>7. ~c_c.drained /\ c_c.budget # "COMPLETE" /\ c_c.st["current"] # "COMPLETE"
  BY <1>5 DEF CycleInv, Started, Last, BeforeCurrent
<1>8. c_c'.st["current"] # "COMPLETE"
  BY <1>3, <1>4, <1>7, LayersAre
<1>9. Started'
  BY <1>4, <1>5, <1>7, <1>8 DEF Started
<1>10. Fresh'
  <2> SUFFICES ASSUME NEW k \in {"future", "appropriation"}, c_c'.st[k] = "COMPLETE"
               PROVE  c_aidfa[k] >= c_c.date
    BY <1>4 DEF Fresh
  <2>1. k # layer
    BY <1>3, <1>4
  <2>2. c_c.st[k] = "COMPLETE"
    BY <1>3, <1>4, <2>1, LayersAre
  <2>3. QED
    BY <2>2 DEF CycleInv, Read, Fresh
<1>11. Read'
  BY <1>4, <1>7, <1>8, <1>10 DEF Read, SnapshotRead
<1>12. c_pool' \in 0..MaxPool
  BY CycleTypes
<1>13. c_pc \in BeforeCurrent \cup {"history"} \cup Last /\ c_pc' \in BeforeCurrent \cup {"history"} \cup Last
  BY <1>5 DEF BeforeCurrent
<1>14. QED
  BY <1>4, <1>6, <1>9, <1>11, <1>12, <1>13, LocalKeepsCycle

(* The snapshot a cycle asks for: a day over before it began and never one *)
(* before the last it reconciled.                                          *)
LEMMA SnapshotFacts ==
  ASSUME CycleInv, c_pc # "idle"
  PROVE  LET snap == C!Snapshot(c_c.date)
         IN  snap \in C!Days /\ snap # 0 /\ snap < c_c.date /\ c_current <= snap
<1>1. PICK date : date = c_c.date
  OBVIOUS
<1>2. date \in 2..CycleDays /\ c_current \in 0..CycleDays /\ c_current < date
      /\ (c_current # 0 => c_nation[c_current] = "COMPLETE")
  BY <1>1, CycleNumbers DEF CycleInv, Calendar
<1>3. PICK latest : latest = date - 1
  OBVIOUS
<1>4. latest \in Nat /\ latest >= 1 /\ latest < date /\ latest \in C!Days /\ c_current <= latest
  BY <1>2, <1>3, CycleConstants
<1>5. PICK pending : pending = C!PendingDays(date)
  OBVIOUS
<1>6. PICK snap : snap = C!Snapshot(date)
  OBVIOUS
<1>7. snap = IF pending = {} THEN latest ELSE C!Min(pending)
  BY <1>3, <1>5, <1>6 DEF C!Snapshot, C!LatestDay
<1>8. pending \subseteq 1..latest
  BY <1>3, <1>5 DEF C!PendingDays, C!LatestDay
<1>9. CASE pending = {}
  BY <1>1, <1>4, <1>6, <1>7, <1>9
<1>10. CASE pending # {}
  <2>1. pending \subseteq Nat
    BY <1>8
  <2>2. snap \in pending
    BY <1>7, <1>10, <2>1, CycleMin
  <2>3. snap \in 1..latest
    BY <1>8, <2>2
  <2>4. \A e \in snap..latest : c_nation[e] \notin C!Finished
    BY <1>3, <1>5, <2>2 DEF C!PendingDays, C!LatestDay
  <2>5. c_current <= snap
    <3> SUFFICES ASSUME c_current > snap PROVE FALSE
      BY <1>2, <2>3, <1>4, CycleConstants
    <3>1. c_current \in snap..latest /\ c_current # 0
      BY <1>2, <1>4, <2>3, CycleConstants
    <3>2. "COMPLETE" \in C!Finished
      BY DEF C!Finished
    <3>3. c_nation[c_current] \in C!Finished
      BY <1>2, <3>1, <3>2
    <3>4. QED
      BY <2>4, <3>1, <3>3
  <2>6. snap \in C!Days /\ snap # 0 /\ snap < date
    BY <1>2, <1>4, <2>3, CycleConstants
  <2>7. QED
    BY <1>1, <1>6, <2>5, <2>6
<1>11. QED
  BY <1>9, <1>10

LEMMA WaitingKeepsCycle ==
  ASSUME CycleInv, C!NoPermits \/ C!PlanNotReady
  PROVE  CycleInv'
<1>1. /\ c_pc = "current" /\ c_pc' = "history"
      /\ UNCHANGED <<c_today, c_used, c_nation, c_region, c_history, c_aidfa, c_current, c_pool, c_runState,
                     c_shopState>>
  BY DEF C!NoPermits, C!PlanNotReady, C!Fallback, C!scopes, C!shown
<1>2. c_upsets' \in 0..MaxUpsets
  <2>1. c_upsets' = c_upsets \/ (c_upsets < MaxUpsets /\ c_upsets' = c_upsets + 1)
    BY DEF C!NoPermits, C!PlanNotReady
  <2>2. QED
    BY <2>1, UpsetTyped
<1>3. "current" \in C!Layers
  BY LayersAre
<1>4. {"WAITING_QUOTA", "FAILED"} \subseteq LayerStates
  BY DEF LayerStates
<1>5. CASE C!NoPermits
  <2>1. c_c' = [c_c EXCEPT !.st = [c_c.st EXCEPT !["current"] = "WAITING_QUOTA"], !.snap = c_c.snap,
                           !.failed = c_c.failed]
    BY <1>5, CycleTypes DEF C!NoPermits, Cycles
  <2>2. c_c.snap \in 0..CycleDays /\ c_c.failed \in BOOLEAN
    BY CycleTypes DEF Cycles
  <2>3. QED
    BY <1>1, <1>2, <1>4, <2>1, <2>2, StatusKeepsCycle
<1>6. CASE C!PlanNotReady
  <2>1. PICK snap : snap = C!Snapshot(c_c.date)
    OBVIOUS
  <2>2. c_c' = [c_c EXCEPT !.st = [c_c.st EXCEPT !["current"] = "FAILED"], !.snap = snap, !.failed = TRUE]
    BY <1>6, <2>1, CycleTypes DEF C!PlanNotReady, C!Begun, Cycles
  <2>3. snap \in 0..CycleDays
    BY <1>1, <2>1, SnapshotFacts, CycleConstants
  <2>4. QED
    BY <1>1, <1>2, <1>4, <2>2, <2>3, StatusKeepsCycle
<1>7. QED
  BY <1>5, <1>6

LEMMA HistoryEndKeepsCycle ==
  ASSUME CycleInv, C!HistoryEnd
  PROVE  CycleInv'
<1>1. PICK v : v = C!HistoryStatus
  OBVIOUS
<1>2. PICK st : st = [c_c.st EXCEPT !["history"] = v]
  OBVIOUS
<1>3. PICK b : b = C!Combined({st[l] : l \in C!Layers})
  OBVIOUS
<1>4. /\ c_pc = "history" /\ c_pc' = "maintain" /\ c_c' = [c_c EXCEPT !.st = st, !.budget = b]
      /\ UNCHANGED <<c_today, c_used, c_nation, c_region, c_history, c_aidfa, c_current, c_pool, c_runState,
                     c_shopState, c_upsets>>
  BY <1>1, <1>2, <1>3 DEF C!HistoryEnd, C!scopes, C!shown
<1>5. c_c.st \in [C!Layers -> LayerStates] /\ "history" \in C!Layers
  BY CycleTypes, LayersAre
<1>6. v \in LayerStates /\ (v = "COMPLETE" /\ c_c.st["current"] = "COMPLETE" => C!Missing(c_c.date) = {})
  <2>1. c_c.st["current"] \in LayerStates /\ c_c.st["history"] \in LayerStates
    BY <1>5, LayersAre
  <2>2. CASE c_c.st["current"] \in {"FAILED", "WAITING_QUOTA"}
    BY <1>1, <2>1, <2>2 DEF C!HistoryStatus
  <2>3. CASE c_c.st["current"] \in {"PARTIAL", "RUNNING", "INCOMPLETE"}
    BY <1>1, <2>1, <2>3 DEF C!HistoryStatus, LayerStates
  <2>4. CASE c_c.st["current"] \notin {"FAILED", "WAITING_QUOTA", "PARTIAL", "RUNNING", "INCOMPLETE"}
    <3>1. v = IF c_c.st["history"] = "FAILED" THEN "FAILED"
              ELSE IF C!Missing(c_c.date) = {} THEN "COMPLETE"
              ELSE IF C!Continues /\ C!HistoryPermits <= 0 THEN "WAITING_QUOTA"
              ELSE IF c_c.st["history"] = "COMPLETE" THEN "PARTIAL"
              ELSE c_c.st["history"]
      BY <1>1, <2>4 DEF C!HistoryStatus
    <3>2. QED
      BY <2>1, <3>1 DEF LayerStates
  <2>5. QED
    BY <2>2, <2>3, <2>4
<1>7. /\ st \in [C!Layers -> LayerStates] /\ st["history"] = v
      /\ \A l \in C!Layers : l # "history" => st[l] = c_c.st[l]
  BY <1>2, <1>5, <1>6
<1>8. /\ b \in {"FAILED", "WAITING_QUOTA", "PARTIAL", "COMPLETE"}
      /\ b = "COMPLETE" => \A l \in C!Layers : st[l] = "COMPLETE"
  <2>1. PICK states : states = {st[l] : l \in C!Layers}
    OBVIOUS
  <2>2. b = C!Combined(states)
    BY <1>3, <2>1
  <2>3. b = "COMPLETE" => states = {"COMPLETE"}
    BY <2>2 DEF C!Combined
  <2>4. b = "COMPLETE" => \A l \in C!Layers : st[l] = "COMPLETE"
    BY <2>1, <2>3
  <2>5. b \in {"FAILED", "WAITING_QUOTA", "PARTIAL", "COMPLETE"}
    BY <2>2 DEF C!Combined
  <2>6. QED
    BY <2>4, <2>5
<1>9. /\ c_c' \in Cycles /\ c_c'.date = c_c.date /\ c_c'.st = st /\ c_c'.snap = c_c.snap
      /\ c_c'.drained = c_c.drained /\ c_c'.budget = b
  BY <1>4, <1>7, <1>8, CycleTypes DEF Cycles
<1>10. Spends'
  BY <1>4 DEF CycleInv, Spends
<1>11. ~c_c.drained /\ c_pc' \in Last
  BY <1>4 DEF CycleInv, Started, Last
<1>12. Started'
  BY <1>4, <1>9, <1>11 DEF Started, BeforeCurrent
<1>13. \A l \in {"future", "appropriation", "current"} : st[l] = c_c.st[l]
  BY <1>7, LayersAre
<1>14. Fresh' /\ SnapshotRead'
  BY <1>4, <1>9, <1>13 DEF CycleInv, Read, Fresh, SnapshotRead
<1>15. b = "COMPLETE" => AllRead'
  <2> SUFFICES ASSUME b = "COMPLETE" PROVE AllRead'
    OBVIOUS
  <2>1. \A l \in {"future", "appropriation", "current"} : st[l] = "COMPLETE"
    BY <1>8, LayersAre
  <2>2. v = "COMPLETE" /\ c_c.st["current"] = "COMPLETE"
    BY <1>5, <1>7, <1>8, <1>13, <2>1
  <2>3. C!Missing(c_c.date) = {}
    BY <1>6, <2>2
  <2>4. \A d \in C!WindowDays(c_c.date) : c_nation[d] = "COMPLETE" \/ c_history[d] = "COMPLETE"
    BY <2>3 DEF C!Missing
  <2>5. C!WindowDays(c_c.date)' = C!WindowDays(c_c.date)
    BY <1>9 DEF C!WindowDays, C!LatestDay
  <2>6. QED
    BY <1>4, <1>9, <2>1, <2>4, <2>5 DEF AllRead
<1>16. Read'
  BY <1>9, <1>14, <1>15 DEF Read
<1>17. c_pool' \in 0..MaxPool /\ c_upsets' \in 0..MaxUpsets
  BY <1>4, CycleTypes
<1>18. QED
  BY <1>4, <1>9, <1>10, <1>12, <1>16, <1>17, LocalKeepsCycle DEF BeforeCurrent, Last

LEMMA MaintainKeepsCycle ==
  ASSUME CycleInv, C!Maintain
  PROVE  CycleInv'
<1>1. /\ c_pc = "maintain" /\ c_pc' = "finish" /\ c_c' = c_c
      /\ UNCHANGED <<c_today, c_used, c_nation, c_region, c_history, c_aidfa, c_current, c_runState,
                     c_shopState, c_upsets>>
      /\ (c_pool' = c_pool \/ c_pool' = c_pool - C!Smaller(c_pool, Batch))
  BY DEF C!Maintain, C!scopes, C!shown
<1>2. c_pool' \in 0..MaxPool /\ c_upsets' \in 0..MaxUpsets
  BY <1>1, CycleNumbers DEF C!Smaller
<1>3. Spends'
  BY <1>1 DEF CycleInv, Spends
<1>4. Started' /\ Read'
  BY <1>1 DEF CycleInv, Started, Unstarted, Last, BeforeCurrent, Read, Fresh, SnapshotRead, AllRead,
     C!WindowDays, C!LatestDay
<1>5. c_c' \in Cycles /\ c_c'.date = c_c.date
  BY <1>1, CycleTypes
<1>6. QED
  BY <1>1, <1>2, <1>3, <1>4, <1>5, LocalKeepsCycle DEF BeforeCurrent, Last

-----------------------------------------------------------------------------
(* Steps that ask the source.                                              *)
LEMMA AskingKeepsCycle ==
  ASSUME CycleInv, c_pc \in BeforeCurrent \cup {"history"}, c_pc' \in BeforeCurrent \cup {"history"},
         UNCHANGED <<c_today, c_runState, c_shopState>>,
         c_used' \in Nat, c_used' <= Quota, c_pool' \in 0..MaxPool, c_upsets' \in 0..MaxUpsets,
         c_nation' \in [C!Days -> C!ScopeStates], c_history' \in [C!Days -> C!ScopeStates],
         c_region' \in [C!Days -> [Regions -> C!ScopeStates]],
         c_aidfa' \in [{"future", "appropriation"} -> 0..CycleDays], c_current' \in 0..CycleDays,
         c_current' < c_c.date, c_current' # 0 => c_nation'[c_current'] = "COMPLETE",
         c_c' \in Cycles, c_c'.date = c_c.date, c_c'.drained = c_c.drained, c_c'.budget = c_c.budget,
         c_pc' \in {"appropriation", "reserve", "history"},
         c_pc' # "history" => c_c'.st["current"] # "COMPLETE", Fresh', SnapshotRead'
  PROVE  CycleInv'
<1>1. c_pc # "idle" /\ c_pc' # "idle" /\ c_pc \notin Last
  BY DEF BeforeCurrent, Last
<1>2. CycleTyped'
  BY DEF CycleInv, CycleTyped, C!TypeOK
<1>3. ~c_c'.drained /\ c_c'.budget # "COMPLETE"
  BY <1>1 DEF CycleInv, Started
<1>4. Started'
  BY <1>3 DEF Started, BeforeCurrent
<1>5. Read'
  BY <1>3 DEF Read
<1>6. Spends'
  BY DEF Spends
<1>7. Calendar'
  <2>1. 2 <= c_today /\ 2 <= c_c.date /\ c_c.date <= c_today
    BY <1>1 DEF CycleInv, Calendar
  <2>2. c_current' < c_today
    <3>1. 0..CycleDays \subseteq Int /\ 1..CycleDays \subseteq Int
      BY CycleConstants
    <3>2. c_current' \in Int /\ c_c.date \in Int /\ c_today \in Int
      BY <3>1, CycleTypes
    <3>3. QED
      BY <2>1, <3>2
  <2>3. QED
    BY <2>1, <2>2 DEF Calendar
<1>8. QED
  BY <1>2, <1>4, <1>5, <1>6, <1>7 DEF CycleInv

(* An appropriation scope: one of the two kinds.                           *)
LEMMA AppropriationKeepsCycle ==
  ASSUME CycleInv, NEW kind \in {"future", "appropriation"}, c_pc = kind,
         NEW p \in Nat, p <= Quota - c_used, C!Appropriation(kind, p),
         c_pc' = IF kind = "future" THEN "appropriation" ELSE "reserve"
  PROVE  CycleInv'
<1>1. kind \in C!Layers /\ kind # "current" /\ c_pc \in BeforeCurrent
  BY LayersAre DEF BeforeCurrent
<1>2. C!Refreshed(kind) \in {"COMPLETE", "OPEN"} /\ {"COMPLETE", "OPEN"} \subseteq C!ScopeStates
  BY DEF C!Refreshed, C!ScopeStates, C!Active, C!Finished
<1>3. PICK call \in C!Calls(C!Refreshed(kind), p, FALSE) :
        /\ C!Charge(call) /\ c_c' = C!Settle(kind, call)
        /\ c_aidfa' = [c_aidfa EXCEPT ![kind] = IF call.n = 0 THEN c_aidfa[kind]
                                            ELSE IF call.answer = "COMPLETE" THEN c_today ELSE 0]
        /\ UNCHANGED <<c_today, c_nation, c_region, c_history, c_current, c_runState, c_shopState>>
  BY DEF C!Appropriation, C!shown
<1>4. PICK s : s = C!Refreshed(kind)
  OBVIOUS
<1>5. s \in C!ScopeStates /\ call \in C!Calls(s, p, FALSE) /\ FALSE \in BOOLEAN
  BY <1>2, <1>3, <1>4
<1>6. /\ call.n \in 0..p
      /\ call.answer \in {"COMPLETE", "EXHAUSTED", "RUNNING", "INCOMPLETE", "RAISED"}
      /\ call.n = 0 /\ call.answer = "COMPLETE" => s = "COMPLETE"
  BY <1>5, CallFacts
<1>7. /\ c_used' \in Nat /\ c_used' <= Quota
      /\ c_pool' \in 0..MaxPool /\ c_upsets' \in 0..MaxUpsets
  BY <1>3, <1>6, ChargeFacts DEF CycleInv, CycleTyped
<1>8. /\ c_c' \in Cycles /\ c_c'.date = c_c.date /\ c_c'.drained = c_c.drained /\ c_c'.snap = c_c.snap
      /\ c_c'.budget = c_c.budget
      /\ c_c'.st[kind] = "COMPLETE" => call.answer = "COMPLETE"
      /\ \A l \in C!Layers : l # kind => c_c'.st[l] = c_c.st[l]
  BY <1>1, <1>3, <1>6, CycleTypes, SettleFacts
<1>9. PICK date : date = IF call.n = 0 THEN c_aidfa[kind]
                         ELSE IF call.answer = "COMPLETE" THEN c_today ELSE 0
  OBVIOUS
<1>10. date \in 0..CycleDays
  <2>1. c_aidfa[kind] \in 0..CycleDays
    BY <1>1, CycleTypes
  <2>2. c_today \in 0..CycleDays /\ 0 \in 0..CycleDays
    BY CycleNumbers
  <2>3. QED
    BY <1>9, <2>1, <2>2
<1>11. /\ c_aidfa' \in [{"future", "appropriation"} -> 0..CycleDays] /\ c_aidfa'[kind] = date
       /\ \A k \in {"future", "appropriation"} : k # kind => c_aidfa'[k] = c_aidfa[k]
  BY <1>3, <1>9, <1>10, CycleTypes
<1>12. c_c.date <= c_today /\ c_current < c_c.date /\ (c_current # 0 => c_nation[c_current] = "COMPLETE")
  BY DEF CycleInv, Calendar
<1>13. call.answer = "COMPLETE" => date >= c_c.date
  <2>1. CASE call.n = 0
    <3>1. call.answer = "COMPLETE" => s = "COMPLETE"
      BY <1>6, <2>1
    <3>2. s = "COMPLETE" => c_aidfa[kind] >= c_c.date
      BY <1>4 DEF C!Refreshed
    <3>3. QED
      BY <1>9, <2>1, <3>1, <3>2
  <2>2. CASE call.n # 0
    <3>1. c_today >= c_c.date
      BY <1>12, CycleNumbers
    <3>2. QED
      BY <1>9, <2>2, <3>1
  <2>3. QED
    BY <2>1, <2>2
<1>14. Fresh'
  <2> SUFFICES ASSUME NEW k \in {"future", "appropriation"}, c_c'.st[k] = "COMPLETE"
               PROVE  c_aidfa'[k] >= c_c.date
    BY <1>8 DEF Fresh
  <2>1. CASE k = kind
    BY <1>8, <1>11, <1>13, <2>1
  <2>2. CASE k # kind
    BY <1>8, <1>11, <2>2, LayersAre DEF CycleInv, Read, Fresh
  <2>3. QED
    BY <2>1, <2>2
<1>15. c_c'.st["current"] = c_c.st["current"] /\ c_c.st["current"] # "COMPLETE"
  BY <1>1, <1>8, LayersAre DEF CycleInv, Started
<1>16. SnapshotRead'
  BY <1>15 DEF SnapshotRead
<1>17. c_pc' \in BeforeCurrent /\ c_pc' \in {"appropriation", "reserve", "history"}
  BY DEF BeforeCurrent
<1>18. /\ c_nation' \in [C!Days -> C!ScopeStates] /\ c_history' \in [C!Days -> C!ScopeStates]
       /\ c_region' \in [C!Days -> [Regions -> C!ScopeStates]] /\ c_current' \in 0..CycleDays
       /\ c_current' < c_c.date /\ (c_current' # 0 => c_nation'[c_current'] = "COMPLETE")
  BY <1>3, <1>12, CycleTypes
<1>19. QED
  BY <1>1, <1>3, <1>7, <1>8, <1>11, <1>14, <1>15, <1>16, <1>17, <1>18, AskingKeepsCycle

LEMMA AppropriationsKeepCycle ==
  ASSUME CycleInv, C!Future \/ C!CurrentYear
  PROVE  CycleInv'
<1>1. CASE C!Future
  <2>1. PICK p : p = C!Larger(1, C!Smaller(FutureMax, C!Smaller(SyncMax, Quota - c_used)))
    OBVIOUS
  <2>2. c_pc = "future" /\ c_pc' = "appropriation" /\ C!Appropriation("future", p)
    BY <1>1, <2>1 DEF C!Future, C!Left
  <2>3. c_used < Quota
    BY <2>2 DEF CycleInv, Spends
  <2>4. p \in Nat /\ p <= Quota - c_used
    <3>1. PICK left : left = Quota - c_used
      OBVIOUS
    <3>2. left \in Nat /\ left > 0
      <4>1. c_used \in Nat /\ Quota \in Nat
        BY CycleTypes, CycleConstants
      <4>2. QED
        BY <2>3, <3>1, <4>1
    <3>3. p = C!Larger(1, C!Smaller(FutureMax, C!Smaller(SyncMax, left)))
      BY <2>1, <3>1
    <3>4. p \in Nat /\ p <= left
      BY <3>2, <3>3, CycleConstants DEF C!Larger, C!Smaller
    <3>5. QED
      BY <3>1, <3>4
  <2>5. QED
    BY <2>2, <2>4, AppropriationKeepsCycle
<1>2. CASE C!CurrentYear /\ C!Smaller(CurrentMax, C!Left) <= 0
  <2>1. /\ c_pc = "appropriation" /\ c_pc' = "reserve"
        /\ c_c' = [c_c EXCEPT !.st = [c_c.st EXCEPT !["appropriation"] = "WAITING_QUOTA"],
                              !.snap = c_c.snap, !.failed = c_c.failed]
        /\ UNCHANGED <<c_today, c_used, c_nation, c_region, c_history, c_aidfa, c_current, c_pool, c_runState,
                       c_shopState, c_upsets>>
    BY <1>2, CycleTypes DEF C!CurrentYear, C!scopes, C!shown, Cycles
  <2>2. c_c.snap \in 0..CycleDays /\ c_c.failed \in BOOLEAN /\ c_upsets' \in 0..MaxUpsets
    BY <2>1, CycleTypes DEF Cycles
  <2>3. "WAITING_QUOTA" \in LayerStates
    BY DEF LayerStates
  <2>4. QED
    BY <2>1, <2>2, <2>3, StatusKeepsCycle
<1>3. CASE C!CurrentYear /\ ~(C!Smaller(CurrentMax, C!Left) <= 0)
  <2>1. PICK p : p = C!Smaller(CurrentMax, Quota - c_used)
    OBVIOUS
  <2>2. c_pc = "appropriation" /\ c_pc' = "reserve" /\ C!Appropriation("appropriation", p) /\ ~(p <= 0)
    BY <1>3, <2>1 DEF C!CurrentYear, C!Left
  <2>3. p \in Nat /\ p <= Quota - c_used
    <3>1. PICK left : left = Quota - c_used
      OBVIOUS
    <3>2. left \in Int
      BY <3>1, CycleNumbers
    <3>3. p = C!Smaller(CurrentMax, left)
      BY <2>1, <3>1
    <3>4. p \in Nat /\ p <= left
      BY <2>2, <3>2, <3>3, CycleConstants DEF C!Smaller
    <3>5. QED
      BY <3>1, <3>4
  <2>4. QED
    BY <2>2, <2>3, AppropriationKeepsCycle
<1>4. QED
  BY <1>1, <1>2, <1>3

LEMMA SupersededFacts ==
  ASSUME NEW f \in [C!Days -> C!ScopeStates], NEW snap
  PROVE  /\ C!Superseded(f, snap) \in [C!Days -> C!ScopeStates]
         /\ \A d \in C!Days : f[d] \in C!Finished => C!Superseded(f, snap)[d] = f[d]
<1>1. "SUPERSEDED" \in C!ScopeStates
  BY DEF C!ScopeStates
<1>2. \A s : s \in C!Finished => s \notin C!Active
  BY DEF C!Finished, C!Active
<1>3. QED
  BY <1>1, <1>2 DEF C!Superseded

LEMMA NationwideKeepsCycle ==
  ASSUME CycleInv, C!Nationwide
  PROVE  CycleInv' /\ c_current' >= c_current
<1>1. PICK snap : snap = C!Snapshot(c_c.date)
  OBVIOUS
<1>2. c_pc = "current" /\ c_pc' = "history" /\ c_c.permits > 0
      /\ UNCHANGED <<c_today, c_history, c_aidfa, c_runState, c_shopState>>
  BY DEF C!Nationwide, C!shown
<1>3. PICK call \in C!Calls(c_nation[snap], c_c.permits, snap \in Overlapping) :
        /\ C!Charge(call) /\ c_c' = [C!Settle("current", call) EXCEPT !.snap = snap]
        /\ LET moved == [c_nation EXCEPT ![snap] = call.to]
           IN  IF call.answer = "COMPLETE"
               THEN /\ c_nation' = C!Superseded(moved, snap) /\ c_current' = snap
                    /\ c_region' = [d \in C!Days |-> [r \in Regions |->
                          C!Superseded([e \in C!Days |-> c_region[e][r]], snap)[d]]]
               ELSE c_nation' = moved /\ UNCHANGED <<c_region, c_current>>
  BY <1>1 DEF C!Nationwide
<1>4. snap \in C!Days /\ snap # 0 /\ snap < c_c.date /\ c_current <= snap
  BY <1>1, <1>2, SnapshotFacts
<1>5. PICK s : s = c_nation[snap]
  OBVIOUS
<1>6. PICK o : o = (snap \in Overlapping)
  OBVIOUS
<1>7. s \in C!ScopeStates /\ o \in BOOLEAN /\ c_c.permits \in Nat /\ call \in C!Calls(s, c_c.permits, o)
  BY <1>3, <1>4, <1>5, <1>6, CycleTypes
<1>8. /\ call.n \in 0..c_c.permits /\ call.to \in C!ScopeStates
      /\ call.answer \in {"COMPLETE", "EXHAUSTED", "RUNNING", "INCOMPLETE", "RAISED"}
      /\ call.answer = "COMPLETE" => call.to = "COMPLETE"
      /\ s = "COMPLETE" => call.to = "COMPLETE"
  BY <1>7, CallFacts
<1>9. c_c.permits <= Quota - c_used
  BY <1>2 DEF CycleInv, Spends
<1>10. /\ c_used' \in Nat /\ c_used' <= Quota /\ c_pool' \in 0..MaxPool /\ c_upsets' \in 0..MaxUpsets
  BY <1>3, <1>7, <1>8, <1>9, ChargeFacts DEF CycleInv, CycleTyped
<1>11. PICK t : t = C!Settle("current", call)
  OBVIOUS
<1>12. /\ t \in Cycles /\ t.date = c_c.date /\ t.drained = c_c.drained /\ t.budget = c_c.budget
       /\ t.st["current"] = "COMPLETE" => call.answer = "COMPLETE"
       /\ \A l \in C!Layers : l # "current" => t.st[l] = c_c.st[l]
  BY <1>8, <1>11, CycleTypes, SettleFacts, LayersAre
<1>13. snap \in 0..CycleDays
  BY <1>4, CycleConstants
<1>14. /\ c_c' \in Cycles /\ c_c'.snap = snap /\ c_c'.date = c_c.date /\ c_c'.drained = c_c.drained
       /\ c_c'.budget = c_c.budget /\ c_c'.st = t.st
  BY <1>3, <1>11, <1>12, <1>13 DEF Cycles
<1>15. PICK moved : moved = [c_nation EXCEPT ![snap] = call.to]
  OBVIOUS
<1>16. /\ moved \in [C!Days -> C!ScopeStates] /\ moved[snap] = call.to
       /\ \A d \in C!Days : d # snap => moved[d] = c_nation[d]
  BY <1>4, <1>8, <1>15, CycleTypes
<1>17. c_current < c_c.date /\ (c_current # 0 => c_nation[c_current] = "COMPLETE")
  BY <1>2 DEF CycleInv, Calendar
<1>18. Fresh'
  BY <1>2, <1>12, <1>14, LayersAre DEF CycleInv, Read, Fresh
<1>19. "COMPLETE" \in C!Finished
  BY DEF C!Finished
<1>20. CASE call.answer = "COMPLETE"
  <2>1. /\ c_nation' = C!Superseded(moved, snap) /\ c_current' = snap
        /\ c_region' = [d \in C!Days |-> [r \in Regions |->
                          C!Superseded([e \in C!Days |-> c_region[e][r]], snap)[d]]]
    BY <1>3, <1>15, <1>20
  <2>2. c_nation' \in [C!Days -> C!ScopeStates] /\ c_nation'[snap] = "COMPLETE"
    BY <1>4, <1>8, <1>16, <1>19, <1>20, <2>1, SupersededFacts
  <2>3. c_region' \in [C!Days -> [Regions -> C!ScopeStates]]
    <3>1. ASSUME NEW d \in C!Days, NEW r \in Regions
          PROVE  C!Superseded([e \in C!Days |-> c_region[e][r]], snap)[d] \in C!ScopeStates
      <4>1. PICK f : f = [e \in C!Days |-> c_region[e][r]]
        OBVIOUS
      <4>2. f \in [C!Days -> C!ScopeStates]
        BY <4>1, CycleTypes
      <4>3. C!Superseded(f, snap)[d] \in C!ScopeStates
        BY <4>2, SupersededFacts
      <4>4. QED
        BY <4>1, <4>3
    <3>2. QED
      BY <2>1, <3>1
  <2>4. SnapshotRead'
    BY <1>4, <1>14, <1>19, <2>2 DEF SnapshotRead
  <2>5. c_current' < c_c.date /\ c_nation'[c_current'] = "COMPLETE" /\ c_current' \in 0..CycleDays
    BY <1>4, <1>13, <1>19, <2>1, <2>2
  <2>6. c_current' >= c_current
    BY <1>4, <1>13, <2>1, CycleTypes, CycleConstants
  <2>7. CycleInv'
    BY <1>2, <1>10, <1>14, <1>18, <2>2, <2>3, <2>4, <2>5, CycleTypes, AskingKeepsCycle DEF BeforeCurrent
  <2>8. QED
    BY <2>6, <2>7
<1>21. CASE call.answer # "COMPLETE"
  <2>1. c_nation' = moved /\ c_region' = c_region /\ c_current' = c_current
    BY <1>3, <1>15, <1>21
  <2>2. c_c'.st["current"] # "COMPLETE"
    BY <1>12, <1>14, <1>21
  <2>3. c_current # 0 => c_nation'[c_current] = "COMPLETE"
    <3> SUFFICES ASSUME c_current # 0 PROVE c_nation'[c_current] = "COMPLETE"
      OBVIOUS
    <3>1. c_current \in C!Days
      BY CycleTypes, CycleConstants
    <3>2. CASE c_current # snap
      BY <1>16, <1>17, <2>1, <3>1, <3>2
    <3>3. CASE c_current = snap
      BY <1>5, <1>8, <1>16, <1>17, <2>1, <3>3
    <3>4. QED
      BY <3>2, <3>3
  <2>4. SnapshotRead'
    BY <2>2 DEF SnapshotRead
  <2>5. c_current' >= c_current
    BY <2>1, CycleNumbers
  <2>6. c_current' < c_c.date /\ (c_current' # 0 => c_nation'[c_current'] = "COMPLETE")
        /\ c_nation' \in [C!Days -> C!ScopeStates] /\ c_region' \in [C!Days -> [Regions -> C!ScopeStates]]
        /\ c_current' \in 0..CycleDays
    BY <1>16, <1>17, <2>1, <2>3, CycleTypes
  <2>7. CycleInv'
    BY <1>2, <1>10, <1>14, <1>18, <2>4, <2>6, CycleTypes, AskingKeepsCycle DEF BeforeCurrent
  <2>8. QED
    BY <2>5, <2>7
<1>22. QED
  BY <1>20, <1>21

LEMMA NextRegionKeepsCycle ==
  ASSUME CycleInv, C!NextRegion
  PROVE  CycleInv'
<1>1. PICK d : d = C!Snapshot(c_c.date)
  OBVIOUS
<1>2. PICK r : r = C!Min(C!OpenRegions)
  OBVIOUS
<1>3. /\ c_pc = "current" /\ c_pc' = "history" /\ C!OpenRegions # {}
      /\ UNCHANGED <<c_today, c_nation, c_history, c_aidfa, c_current, c_runState, c_shopState>>
  BY DEF C!NextRegion, C!Fallback, C!shown
<1>4a. PICK o \in BOOLEAN : \E call \in C!Calls(c_region[d][r], c_c.permits, o) :
        /\ C!Charge(call)
        /\ c_c' = [C!Begun EXCEPT !.st["current"] = IF call.answer \in {"RAISED", "EXHAUSTED"} THEN "FAILED"
                                                                                           ELSE "PARTIAL",
                     !.failed = C!Begun.failed \/ call.answer \in {"RAISED", "EXHAUSTED"},
                     !.got = C!Begun.got \/ ~(call.answer \in {"RAISED", "EXHAUSTED"})]
        /\ c_region' = [c_region EXCEPT ![d][r] = call.to]
  BY <1>1, <1>2 DEF C!NextRegion
<1>4b. PICK call \in C!Calls(c_region[d][r], c_c.permits, o) :
        /\ C!Charge(call)
        /\ c_c' = [C!Begun EXCEPT !.st["current"] = IF call.answer \in {"RAISED", "EXHAUSTED"} THEN "FAILED"
                                                                                           ELSE "PARTIAL",
                     !.failed = C!Begun.failed \/ call.answer \in {"RAISED", "EXHAUSTED"},
                     !.got = C!Begun.got \/ ~(call.answer \in {"RAISED", "EXHAUSTED"})]
        /\ c_region' = [c_region EXCEPT ![d][r] = call.to]
  BY <1>4a
<1>4c. PICK bad : bad = (call.answer \in {"RAISED", "EXHAUSTED"})
  OBVIOUS
<1>4. /\ C!Charge(call)
      /\ c_c' = [C!Begun EXCEPT !.st["current"] = IF bad THEN "FAILED" ELSE "PARTIAL",
                               !.failed = C!Begun.failed \/ bad, !.got = C!Begun.got \/ ~bad]
      /\ c_region' = [c_region EXCEPT ![d][r] = call.to]
  BY <1>4b, <1>4c
<1>5. d \in C!Days /\ d # 0
  BY <1>1, <1>3, SnapshotFacts
<1>6. r \in Regions
  <2>1. C!OpenRegions \subseteq Regions /\ C!OpenRegions \subseteq Nat
    BY CycleConstants DEF C!OpenRegions
  <2>2. QED
    BY <1>2, <1>3, <2>1, CycleMin
<1>7. PICK s : s = c_region[d][r]
  OBVIOUS
<1>8. s \in C!ScopeStates /\ c_c.permits \in Nat /\ call \in C!Calls(s, c_c.permits, o)
  BY <1>4, <1>5, <1>6, <1>7, CycleTypes
<1>9. call.n \in 0..c_c.permits /\ call.to \in C!ScopeStates
  BY <1>8, CallFacts
<1>10. c_c.permits <= Quota - c_used
  BY <1>3 DEF CycleInv, Spends
<1>11. /\ c_used' \in Nat /\ c_used' <= Quota /\ c_pool' \in 0..MaxPool /\ c_upsets' \in 0..MaxUpsets
  BY <1>4, <1>8, <1>9, <1>10, ChargeFacts DEF CycleInv, CycleTyped
<1>12. PICK v : v = IF bad THEN "FAILED" ELSE "PARTIAL"
  OBVIOUS
<1>13. PICK st : st = [c_c.st EXCEPT !["current"] = v]
  OBVIOUS
<1>14. PICK failed, got : failed = (c_c.failed \/ bad) /\ got = (c_c.got \/ ~bad)
  OBVIOUS
<1>15. d \in 0..CycleDays
  BY <1>5, CycleConstants
<1>16. PICK begun : begun = C!Begun
  OBVIOUS
<1>17. begun = [c_c EXCEPT !.snap = d]
  BY <1>1, <1>16 DEF C!Begun
<1>18. begun.st = c_c.st /\ begun.failed = c_c.failed /\ begun.got = c_c.got /\ begun \in Cycles
       /\ begun.snap = d /\ begun.date = c_c.date /\ begun.drained = c_c.drained
       /\ begun.budget = c_c.budget
  BY <1>15, <1>17, CycleTypes DEF Cycles
<1>19. c_c' = [begun EXCEPT !.st = st, !.failed = failed, !.got = got]
  BY <1>4, <1>12, <1>13, <1>14, <1>16, <1>18 DEF Cycles
<1>20. /\ st \in [C!Layers -> LayerStates] /\ st["current"] = v /\ v # "COMPLETE"
       /\ \A l \in C!Layers : l # "current" => st[l] = c_c.st[l]
  <2>1. v \in LayerStates /\ v # "COMPLETE"
    BY <1>12 DEF LayerStates
  <2>2. QED
    BY <1>13, <2>1, CycleTypes, LayersAre
<1>21. failed \in BOOLEAN /\ got \in BOOLEAN
  BY <1>14, CycleTypes DEF Cycles
<1>22. /\ c_c' \in Cycles /\ c_c'.st = st /\ c_c'.date = c_c.date /\ c_c'.drained = c_c.drained
       /\ c_c'.budget = c_c.budget
  BY <1>18, <1>19, <1>20, <1>21 DEF Cycles
<1>23. c_region' \in [C!Days -> [Regions -> C!ScopeStates]]
  BY <1>4, <1>5, <1>6, <1>9, CycleTypes
<1>24. Fresh'
  BY <1>3, <1>20, <1>22, LayersAre DEF CycleInv, Read, Fresh
<1>25. c_c'.st["current"] # "COMPLETE" /\ SnapshotRead'
  BY <1>20, <1>22 DEF SnapshotRead
<1>26. /\ c_current' < c_c.date /\ (c_current' # 0 => c_nation'[c_current'] = "COMPLETE")
       /\ c_current' \in 0..CycleDays
  BY <1>3, CycleTypes DEF CycleInv, Calendar
<1>27. QED
  BY <1>3, <1>11, <1>22, <1>23, <1>24, <1>25, <1>26, CycleTypes, AskingKeepsCycle DEF BeforeCurrent

LEMMA PartitionKeepsCycle ==
  ASSUME CycleInv, C!PartitionComplete
  PROVE  CycleInv'
<1>1. PICK snap : snap = C!Snapshot(c_c.date)
  OBVIOUS
<1>2. PICK st : st = [c_c.st EXCEPT !["current"] = "COMPLETE"]
  OBVIOUS
<1>3. /\ c_pc = "current" /\ c_pc' = "history" /\ c_nation[snap] = "EXHAUSTED"
      /\ c_nation' = [c_nation EXCEPT ![snap] = "PARTITION"]
      /\ c_c' = [c_c EXCEPT !.snap = snap, !.st = st]
      /\ UNCHANGED <<c_today, c_used, c_region, c_history, c_aidfa, c_current, c_pool, c_runState,
                     c_shopState, c_upsets>>
  BY <1>1, <1>2, CycleTypes DEF C!PartitionComplete, C!Fallback, C!shown, C!Begun, Cycles
<1>4. snap \in C!Days /\ snap # 0
  BY <1>1, <1>3, SnapshotFacts
<1>5. snap \in 0..CycleDays
  BY <1>4, CycleConstants
<1>6. st \in [C!Layers -> LayerStates] /\ \A l \in C!Layers : l # "current" => st[l] = c_c.st[l]
  <2>1. "COMPLETE" \in LayerStates
    BY DEF LayerStates
  <2>2. QED
    BY <1>2, <2>1, CycleTypes, LayersAre
<1>7. /\ c_c' \in Cycles /\ c_c'.st = st /\ c_c'.snap = snap /\ c_c'.date = c_c.date
      /\ c_c'.drained = c_c.drained /\ c_c'.budget = c_c.budget
  BY <1>3, <1>5, <1>6, CycleTypes DEF Cycles
<1>8. "PARTITION" \in C!Finished /\ "PARTITION" \in C!ScopeStates
  BY DEF C!Finished, C!ScopeStates
<1>9. /\ c_nation' \in [C!Days -> C!ScopeStates] /\ c_nation'[snap] = "PARTITION"
      /\ \A d \in C!Days : d # snap => c_nation'[d] = c_nation[d]
  BY <1>3, <1>4, <1>8, CycleTypes
<1>10. c_current < c_c.date /\ (c_current # 0 => c_nation[c_current] = "COMPLETE")
  BY <1>3 DEF CycleInv, Calendar
<1>11. c_current # 0 => c_nation'[c_current] = "COMPLETE"
  <2> SUFFICES ASSUME c_current # 0 PROVE c_nation'[c_current] = "COMPLETE"
    OBVIOUS
  <2>1. c_current \in C!Days
    BY CycleTypes, CycleConstants
  <2>2. c_current # snap
    BY <1>3, <1>10
  <2>3. QED
    BY <1>9, <1>10, <2>1, <2>2
<1>12. Fresh'
  BY <1>3, <1>6, <1>7, LayersAre DEF CycleInv, Read, Fresh
<1>13. SnapshotRead'
  BY <1>4, <1>7, <1>8, <1>9 DEF SnapshotRead
<1>14. c_used' \in Nat /\ c_used' <= Quota /\ c_pool' \in 0..MaxPool /\ c_upsets' \in 0..MaxUpsets
  BY <1>3, CycleTypes
<1>15. /\ c_current' < c_c.date /\ (c_current' # 0 => c_nation'[c_current'] = "COMPLETE")
       /\ c_current' \in 0..CycleDays
  BY <1>3, <1>10, <1>11, CycleTypes
<1>16. QED
  BY <1>3, <1>7, <1>9, <1>12, <1>13, <1>14, <1>15, CycleTypes, AskingKeepsCycle DEF BeforeCurrent

LEMMA HistoryDayKeepsCycle ==
  ASSUME CycleInv, C!HistoryDay
  PROVE  CycleInv'
<1>1. PICK d : d = C!Min(C!Missing(c_c.date))
  OBVIOUS
<1>2. PICK p : p = C!HistoryPermits
  OBVIOUS
<1>3. /\ c_pc = "history" /\ c_pc' = "history" /\ p > 0 /\ C!Missing(c_c.date) # {}
      /\ UNCHANGED <<c_today, c_nation, c_region, c_aidfa, c_runState, c_shopState>>
  BY <1>2 DEF C!HistoryDay, C!MayCollect, C!Goes, C!shown
<1>4. PICK call \in C!Calls(c_history[d], p, d \in Overlapping) :
        /\ C!Charge(call) /\ c_history' = [c_history EXCEPT ![d] = call.to]
        /\ c_current' = c_current
        /\ c_c' = [C!Settle("history", call) EXCEPT !.days = C!Settle("history", call).days + 1]
  BY <1>1, <1>2 DEF C!HistoryDay, C!CurrentAfter
<1>5. d \in C!Days
  <2>1. c_c.date \in 2..CycleDays
    BY <1>3, CycleNumbers DEF CycleInv, Calendar
  <2>2. C!WindowDays(c_c.date) \subseteq C!Days
    BY <2>1, CycleConstants DEF C!WindowDays, C!LatestDay, C!Larger
  <2>3. C!Missing(c_c.date) \subseteq C!Days /\ C!Days \subseteq Nat
    BY <2>2, CycleConstants DEF C!Missing
  <2>4. QED
    BY <1>1, <1>3, <2>3, CycleMin
<1>6. p \in Nat /\ p <= Quota - c_used
  <2>1. PICK left : left = Quota - c_used
    OBVIOUS
  <2>2. left \in Nat
    BY <2>1, CycleNumbers
  <2>3. p = C!Larger(0, C!Smaller(SyncMax, left))
    BY <1>2, <2>1 DEF C!HistoryPermits, C!Left
  <2>4. p \in Nat /\ p <= left
    BY <2>2, <2>3, CycleConstants DEF C!Larger, C!Smaller
  <2>5. QED
    BY <2>1, <2>4
<1>7. PICK s : s = c_history[d]
  OBVIOUS
<1>8. PICK o : o = (d \in Overlapping)
  OBVIOUS
<1>9. s \in C!ScopeStates /\ o \in BOOLEAN /\ call \in C!Calls(s, p, o)
  BY <1>4, <1>5, <1>7, <1>8, CycleTypes
<1>10. /\ call.n \in 0..p /\ call.to \in C!ScopeStates
       /\ call.answer \in {"COMPLETE", "EXHAUSTED", "RUNNING", "INCOMPLETE", "RAISED"}
  BY <1>6, <1>9, CallFacts
<1>11. /\ c_used' \in Nat /\ c_used' <= Quota /\ c_pool' \in 0..MaxPool /\ c_upsets' \in 0..MaxUpsets
  BY <1>4, <1>6, <1>10, ChargeFacts DEF CycleInv, CycleTyped
<1>12. PICK t : t = C!Settle("history", call)
  OBVIOUS
<1>13. /\ t \in Cycles /\ t.date = c_c.date /\ t.drained = c_c.drained /\ t.budget = c_c.budget
       /\ t.snap = c_c.snap /\ t.days = c_c.days
       /\ \A l \in C!Layers : l # "history" => t.st[l] = c_c.st[l]
  BY <1>10, <1>12, CycleTypes, SettleFacts, LayersAre
<1>14. t.days + 1 \in Nat
  BY <1>13, CycleTypes
<1>15. /\ c_c' \in Cycles /\ c_c'.st = t.st /\ c_c'.snap = c_c.snap /\ c_c'.date = c_c.date
       /\ c_c'.drained = c_c.drained /\ c_c'.budget = c_c.budget
  BY <1>4, <1>12, <1>13, <1>14 DEF Cycles
<1>16. c_history' \in [C!Days -> C!ScopeStates]
  BY <1>4, <1>5, <1>10, CycleTypes
<1>17. \A l \in {"future", "appropriation", "current"} : c_c'.st[l] = c_c.st[l]
  BY <1>13, <1>15, LayersAre
<1>18. Fresh' /\ SnapshotRead'
  BY <1>3, <1>15, <1>17 DEF CycleInv, Read, Fresh, SnapshotRead
<1>19. /\ c_current' < c_c.date /\ (c_current' # 0 => c_nation'[c_current'] = "COMPLETE")
       /\ c_current' \in 0..CycleDays
  BY <1>3, <1>4, CycleTypes DEF CycleInv, Calendar
<1>20. QED
  BY <1>3, <1>11, <1>15, <1>16, <1>18, <1>19, CycleTypes, AskingKeepsCycle

LEMMA CycleStep ==
  ASSUME CycleInv, [C!Next]_cycleVars
  PROVE  CycleInv'
<1>1. CASE UNCHANGED cycleVars
  BY <1>1 DEF cycleVars, CycleInv, CycleTyped, C!TypeOK, Spends, Calendar, Started, Unstarted, Read, Fresh,
     SnapshotRead, AllRead, C!WindowDays, C!LatestDay
<1>2. CASE C!Midnight
  BY <1>2, MidnightKeepsCycle
<1>3. CASE C!Refused
  BY <1>3, RefusedKeepsCycle
<1>4. CASE C!Begin
  BY <1>4, BeginKeepsCycle
<1>5. CASE C!Shopping \/ C!SmartReplay \/ C!Retention
  BY <1>5, ShoppingKeepsCycle
<1>6. CASE C!ShoppingEnd \/ C!Finish \/ C!Stop
  BY <1>6, EndKeepsCycle
<1>7. CASE C!NotReady \/ C!Precheck \/ C!Admit
  BY <1>7, ClassifyKeepsCycle
<1>8. CASE C!Future \/ C!CurrentYear
  BY <1>8, AppropriationsKeepCycle
<1>9. CASE C!ReservePermits
  BY <1>9, ReserveKeepsCycle
<1>10. CASE C!NoPermits \/ C!PlanNotReady
  BY <1>10, WaitingKeepsCycle
<1>11. CASE C!Nationwide
  BY <1>11, NationwideKeepsCycle
<1>12. CASE C!NextRegion
  BY <1>12, NextRegionKeepsCycle
<1>13. CASE C!PartitionComplete
  BY <1>13, PartitionKeepsCycle
<1>14. CASE C!HistoryDay
  BY <1>14, HistoryDayKeepsCycle
<1>15. CASE C!HistoryEnd
  BY <1>15, HistoryEndKeepsCycle
<1>16. CASE C!Maintain
  BY <1>16, MaintainKeepsCycle
<1>17. QED
  BY <1>1, <1>2, <1>3, <1>4, <1>5, <1>6, <1>7, <1>8, <1>9, <1>10, <1>11, <1>12, <1>13, <1>14, <1>15,
     <1>16 DEF C!Next

LEMMA CycleMeans ==
  ASSUME CycleInv
  PROVE  C!RequestsAreCovered
BY DEF CycleInv, CycleTyped, Spends, Started, Unstarted, C!RequestsAreCovered

(* Only a complete nationwide snapshot moves the current rows.             *)
LEMMA CurrentMovesOn ==
  ASSUME CycleInv, [C!Next]_cycleVars
  PROVE  c_current' >= c_current
<1>1. CASE C!Nationwide
  BY <1>1, NationwideKeepsCycle
<1>2. CASE ~C!Nationwide
  <2>1. c_current' = c_current
    BY <1>2 DEF C!Next, cycleVars, C!Midnight, C!Refused, C!Begin, C!Shopping, C!SmartReplay, C!Retention,
       C!ShoppingEnd, C!NotReady, C!Precheck, C!Admit, C!Future, C!CurrentYear, C!Appropriation,
       C!ReservePermits, C!NoPermits, C!PlanNotReady, C!NextRegion, C!PartitionComplete, C!HistoryDay,
       C!CurrentAfter, C!HistoryEnd, C!Maintain, C!Finish, C!Stop, C!scopes
  <2>2. QED
    BY <2>1, CycleNumbers
<1>3. QED
  BY <1>1, <1>2

(* Who publishes COMPLETE has read whole.                                  *)
LEMMA CompleteWasRead ==
  ASSUME CycleInv, [C!Next]_cycleVars
  PROVE  /\ c_runState' = "COMPLETE" /\ c_runState # "COMPLETE" =>
              /\ c_c.snap # 0 /\ c_nation[c_c.snap] \in C!Finished
              /\ \A k \in DOMAIN c_aidfa : c_aidfa[k] >= c_c.date
              /\ \A d \in C!WindowDays(c_c.date) : "COMPLETE" \in {c_nation[d], c_history[d]}
         /\ c_shopState' = "COMPLETE" /\ c_shopState # "COMPLETE" =>
              c_c.shop = "COMPLETE" /\ c_c.smart \notin {"RUNNING", "WAITING_MEMORY"}
<1>1. /\ c_runState' = "COMPLETE" /\ c_runState # "COMPLETE" => C!Finish
      /\ c_shopState' = "COMPLETE" /\ c_shopState # "COMPLETE" => C!ShoppingEnd
  BY DEF C!Next, cycleVars, C!Midnight, C!Refused, C!Begin, C!Shopping, C!SmartReplay, C!Retention,
     C!NotReady, C!Precheck, C!Admit, C!Future, C!CurrentYear, C!Appropriation, C!Nationwide,
     C!ReservePermits, C!NoPermits, C!PlanNotReady, C!NextRegion, C!PartitionComplete, C!HistoryDay,
     C!HistoryEnd, C!Maintain, C!ShoppingEnd, C!Finish, C!Stop, C!shown
<1>2. ASSUME C!Finish, c_runState' = "COMPLETE"
      PROVE  /\ c_c.snap # 0 /\ c_nation[c_c.snap] \in C!Finished
             /\ \A k \in DOMAIN c_aidfa : c_aidfa[k] >= c_c.date
             /\ \A d \in C!WindowDays(c_c.date) : "COMPLETE" \in {c_nation[d], c_history[d]}
  <2>1. c_c.budget = "COMPLETE"
    BY <1>2 DEF C!Finish, C!ComponentState
  <2>2. AllRead /\ Fresh /\ SnapshotRead
    BY <2>1 DEF CycleInv, Read
  <2>3. DOMAIN c_aidfa = {"future", "appropriation"}
    BY CycleTypes
  <2>4. QED
    BY <2>2, <2>3 DEF AllRead, Fresh, SnapshotRead
<1>3. ASSUME C!ShoppingEnd, c_shopState' = "COMPLETE"
      PROVE  c_c.shop = "COMPLETE" /\ c_c.smart \notin {"RUNNING", "WAITING_MEMORY"}
  <2>1. c_pc = "shopend" /\ ~c_c.hold /\ c_c.shop = "COMPLETE"
    <3>1. c_c.failed \in BOOLEAN /\ c_c.hold \in BOOLEAN
      BY CycleTypes DEF Cycles
    <3>2. QED
      BY <1>3, <3>1 DEF C!ShoppingEnd
  <2>2. QED
    BY <2>1 DEF CycleInv, Started
<1>4. QED
  BY <1>1, <1>2, <1>3

-----------------------------------------------------------------------------
OperationInv == BootInv /\ ForwardInv /\ CycleInv

(* What is true of the three parts in every state.                         *)
THEOREM OperationHolds ==
  Spec => []OperationInv
<1>1. Init => OperationInv
  BY BootStarts, ForwardStarts, CycleStarts DEF Init, OperationInv
<1>2. OperationInv /\ [Next]_vars => OperationInv'
  <2>1. [Next]_vars => [B!Next]_bootVars /\ [F!Next]_forwardVars /\ [C!Next]_cycleVars
    BY DEF Next, vars
  <2>2. QED
    BY <2>1, BootStep, ForwardStep, CycleStep DEF OperationInv
<1>3. QED
  BY <1>1, <1>2, PTL DEF Spec

(* A database that was empty never ends without its marker, which would    *)
(* lock every later boot out, whatever dies; whoever says it is ready      *)
(* finds every table and a valid index; and requests that meet a starting  *)
(* process never start a second initialiser.                               *)
THEOREM BootLeavesStorageUsableHolds ==
  Spec => []BootLeavesStorageUsable
<1>1. OperationInv => BootLeavesStorageUsable
  BY BootMeans DEF OperationInv, BootLeavesStorageUsable
<1>2. QED
  BY <1>1, OperationHolds, PTL

(* No initialiser, of however many processes, changes storage that another *)
(* program made.                                                           *)
THEOREM OldStorageUntouchedHolds ==
  Spec => OldStorageUntouched
<1> DEFINE Untouched == b_born = "OLD" => UNCHANGED b_db
<1>1. OperationInv /\ [Next]_vars => [Untouched]_(B!vars)
  BY OldStays DEF OperationInv, Next, vars, bootVars, B!vars
<1>2. QED
  BY <1>1, OperationHolds, PTL DEF Spec, OldStorageUntouched, B!OldStorageUntouched

(* A day remembered as re-read was completed under the date of the run,    *)
(* the rotation remembers no more days than it may re-read, and no day     *)
(* costs two re-reads under one date, wherever a run is cut short.         *)
THEOREM RereadsAreEarnedHolds ==
  Spec => []RereadsAreEarned
<1>1. OperationInv => RereadsAreEarned
  BY ForwardMeans DEF OperationInv, RereadsAreEarned
<1>2. QED
  BY <1>1, OperationHolds, PTL

(* A run that reports COMPLETE has every day of its window complete, and   *)
(* the newest days completed under its own date, whatever was remembered   *)
(* from runs that crashed.                                                 *)
THEOREM CompleteIsCurrentHolds ==
  Spec => CompleteIsCurrent
<1> DEFINE Whole ==
      f_status' = "COMPLETE" /\ f_status # "COMPLETE" /\ f_pc = "finish" =>
        /\ f_run.start..f_run.latest \subseteq f_done
        /\ F!Newest(f_run.start, f_run.latest, RecheckDays) \subseteq f_seen.dates
<1>1. OperationInv /\ [Next]_vars => [Whole]_(F!vars)
  <2>1. OperationInv /\ [Next]_vars => Whole
    BY ForwardCompletes DEF OperationInv, Next, vars, forwardVars
  <2>2. QED
    BY <2>1
<1>2. QED
  BY <1>1, OperationHolds, PTL DEF Spec, CompleteIsCurrent, F!CompleteIsCurrent

(* The contexts of a cycle never add up to more requests than a day has,   *)
(* and a cycle that drains classifications asks the source for nothing.    *)
THEOREM RequestsAreCoveredHolds ==
  Spec => []RequestsAreCovered
<1>1. OperationInv => RequestsAreCovered
  BY CycleMeans DEF OperationInv, RequestsAreCovered
<1>2. QED
  BY <1>1, OperationHolds, PTL

(* The current rows are only ever reconciled with a later snapshot; the    *)
(* budget publishes COMPLETE only over a finished snapshot, appropriations *)
(* of the cycle's own date and a window without a missing day; shopping    *)
(* only when memory cut neither its collection nor the replay short.       *)
THEOREM CycleIsTrueHolds ==
  Spec => CycleIsTrue
<1> DEFINE Onwards == c_current' >= c_current
           Whole ==
             /\ c_runState' = "COMPLETE" /\ c_runState # "COMPLETE" =>
                  /\ c_c.snap # 0 /\ c_nation[c_c.snap] \in C!Finished
                  /\ \A k \in DOMAIN c_aidfa : c_aidfa[k] >= c_c.date
                  /\ \A d \in C!WindowDays(c_c.date) : "COMPLETE" \in {c_nation[d], c_history[d]}
             /\ c_shopState' = "COMPLETE" /\ c_shopState # "COMPLETE" =>
                  c_c.shop = "COMPLETE" /\ c_c.smart \notin {"RUNNING", "WAITING_MEMORY"}
<1>1. OperationInv /\ [Next]_vars => CycleInv /\ [C!Next]_cycleVars
  BY DEF OperationInv, Next, vars, cycleVars
<1>2. OperationInv /\ [Next]_vars => [Onwards]_(C!vars)
  BY <1>1, CurrentMovesOn
<1>3. OperationInv /\ [Next]_vars => [Whole]_(C!vars)
  BY <1>1, CompleteWasRead
<1>4. QED
  BY <1>2, <1>3, OperationHolds, PTL DEF Spec, CycleIsTrue, C!CurrentNeverBackwards, C!CompleteIsWhole

=============================================================================
