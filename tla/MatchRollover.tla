--------------------------- MODULE MatchRollover ---------------------------
(***************************************************************************)
(* The match rollover: for the previous and the current fiscal year it     *)
(* reads the stored budget projects and delivery requests page by page,    *)
(* gives every request to one project, stores the evidence of the year in  *)
(* one transaction, may collect the missing days of the legacy year and    *)
(* match it again, and publishes the outcome.                              *)
(*                                                                         *)
(* It holds the match lease and the heavy slot for the whole cycle, so the *)
(* stored rows change only between cycles and by its own legacy backfill.  *)
(* It may fail at every read and die at every step; what is stored stays.  *)
(***************************************************************************)
EXTENDS Integers, FiniteSets, SequencesExt, FiniteSetsExt

CONSTANTS
  BudgetRows,   \* rows of the budget store: current rows, and revisions of the legacy year
  Details,      \* rows of shopping_records
  LegacyDays,   \* days of the legacy year
  PageRows,         \* page size of a full read
  MaxRows,      \* MAX_FULL_*: more than that is no population
  Sample,       \* rows of a read that is not full
  PerProject,   \* candidates_per_project
  MinProjects, MinHigh,  \* evidence enough: MIN_PROJECT_SAMPLE, MIN_HIGH_MATCHED_PROJECTS
  MaxChanges,   \* changes of the stored rows between cycles: a bound
  MaxCycles     \* cycles: a bound

Legacy == 1      \* the previous year, 2025
Current == 2
Years == {Legacy, Current}
AmountOf(ds) == MapThenSumSet(LAMBDA d : d.amount, ds)

MatchAssumption ==
  /\ IsFiniteSet(BudgetRows) /\ IsFiniteSet(Details)
  /\ {PageRows, MaxRows, Sample, PerProject} \subseteq Nat \ {0}
  /\ {LegacyDays, MinProjects, MinHigh, MaxChanges, MaxCycles} \subseteq Nat
  /\ \A b \in BudgetRows :
       /\ b.year \in Years /\ {b.rank, b.project, b.amount, b.day} \subseteq Int
       /\ IsFiniteSet(b.signals) /\ IsFiniteSet(b.places) /\ IsFiniteSet(b.stems)
       /\ \A c \in BudgetRows : b.year = c.year /\ b.rank = c.rank => b = c
  /\ \A d \in Details :
       /\ d.year \in Years /\ (d.year = Legacy => d.day \in 1..LegacyDays)
       /\ {d.day, d.request, d.order, d.amount} \subseteq Int
  /\ \A ds \in SUBSET Details : AmountOf(ds) \in Int

VARIABLES
  budget,    \* stored budget rows
  shopping,  \* stored delivery details
  covered,   \* the current year is collected completely: its days, and its snapshot
  legacy,    \* checkpoints of the legacy year: its complete days, and its snapshot
  runs,      \* the stored run of each year
  pc, todo, year, full, scan, kept, found,  \* the cycle: see Start
  complete,  \* years whose population this cycle read completely
  result,    \* how the legacy backfill of this cycle ended
  enough,    \* the current year has evidence enough
  state,     \* the published state
  patterns,  \* organization_patterns, as last published
  changes, cycles

source == <<budget, shopping, covered, legacy>>
cycle == <<todo, year, full, scan, kept, found, complete, result, enough>>
vars == <<source, runs, pc, cycle, state, patterns, changes, cycles>>

-----------------------------------------------------------------------------
(* A pair is scored by what its two sides share.                           *)
Least(a, b) == IF a < b THEN a ELSE b
Share(n, first, more, most) == IF n = 0 THEN 0 ELSE Least(most, first + more * (n - 1))
OrgPoints(b, r) ==
  CASE b.org = r.org -> 48
    [] b.org # r.org /\ b.alias = r.alias -> 42
    [] b.alias # r.alias /\ b.heir = r.heir -> 38
    [] OTHER -> 0
DatePoints(b, r) == IF r.day >= b.day THEN 8 ELSE 4          \* of one year
AmountPoints(b, r) ==
  CASE b.amount <= 0 \/ r.amount <= 0 -> 0
    [] b.amount > 0 /\ 10 * r.amount <= 11 * b.amount -> 7
    [] b.amount > 0 /\ 10 * r.amount > 11 * b.amount /\ 2 * r.amount <= 3 * b.amount -> 4
    [] OTHER -> 0
(* Names of a place that agree only in a stem: _shared_identity_forms.     *)
SharedStems(b, r) == ((b.places \cup b.stems) \cap (r.places \cup r.stems)) \ (b.places \cap r.places)
Points(b, r) ==
  OrgPoints(b, r) + (IF b.category \in r.categories THEN 20 ELSE 10)
    + Share(Cardinality(b.signals \cap r.signals), 10, 5, 20)
    + Share(Cardinality(b.places \cap r.places), 12, 5, 22)
    + Share(Cardinality(SharedStems(b, r)), 4, 2, 8)
    + DatePoints(b, r) + AmountPoints(b, r)
(* Without a place in common a pair is never HIGH.                         *)
Score(b, r) ==
  LET raw == Least(100, Points(b, r)) IN
  IF b.places \cap r.places = {} THEN Least(raw, 79) ELSE raw
Pairs(b, r) ==
  /\ OrgPoints(b, r) > 0 /\ (b.places \cap r.places) \cup (b.signals \cap r.signals) # {}
  /\ Score(b, r) >= 65
Level(score) == IF score >= 80 THEN "HIGH" ELSE "CANDIDATE"

(* One row per delivery request: the latest change of each of its details, *)
(* and none when they disagree on who ordered or delivered, or on the      *)
(* contract of those that name one (0: none).                              *)
Latest(rows) ==
  {d \in rows : \A e \in rows : e.request = d.request /\ e.seq = d.seq => e.order <= d.order}
RequestOf(ds) ==
  LET last == CHOOSE d \in ds : \A e \in ds : e.order <= d.order
  IN  [request |-> last.request, org |-> last.org, alias |-> last.alias, heir |-> last.heir,
       valid |-> Cardinality({d.org : d \in ds}) = 1 /\ Cardinality({d.vendor : d \in ds}) = 1
                  /\ Cardinality({d.contract : d \in ds} \ {0}) <= 1,
       categories |-> {d.category : d \in ds},
       places |-> UNION {d.places : d \in ds}, stems |-> UNION {d.stems : d \in ds},
       signals |-> UNION {d.signals : d \in ds},
       amount |-> AmountOf(ds), day |-> Min({d.day : d \in ds})]
Requests(rows) ==
  {RequestOf({d \in Latest(rows) : d.request = q}) : q \in {d.request : d \in rows}}

(* Every request goes to the project that ranks first, whoever comes first *)
(* in the pages; a project keeps its best few.  A pair without two amounts *)
(* comes behind every one with them (a gap of 10^30 in the code).          *)
Exact(b, r) == IF b.org = r.org THEN 0 ELSE 1
Distance(x, y) == IF x >= y THEN x - y ELSE y - x
Unpriced(b, r) == IF b.amount > 0 /\ r.amount > 0 THEN 0 ELSE 1
Gap(b, r) == IF b.amount > 0 /\ r.amount > 0 THEN Distance(b.amount, r.amount) ELSE 0
Rank(b, r) ==
  << -Score(b, r), Exact(b, r), -Cardinality(b.signals \cap r.signals),
     -Cardinality(b.places \cap r.places), Unpriced(b, r), Gap(b, r),
     IF r.day >= b.day THEN 0 ELSE 1, Distance(b.day, r.day), b.project >>
Before(s, t) == \E i \in DOMAIN s : s[i] < t[i] /\ \A j \in 1..(i - 1) : s[j] = t[j]
ShoppingKey_Bug(m) == <<m.r.request, m.b.project>>            \* the pair
ShoppingKey(m) == m.r.request
Winners(ms) ==
  {m \in ms : ~\E o \in ms : ShoppingKey(o) = ShoppingKey(m) /\ Before(Rank(o.b, o.r), Rank(m.b, m.r))}
Better(m, o) == Before(<<-Score(m.b, m.r), -m.r.amount, -m.r.day, m.r.request>>,
                       <<-Score(o.b, o.r), -o.r.amount, -o.r.day, o.r.request>>)
BestOfProject(ms) ==
  {m \in ms : Cardinality({o \in ms : o.b.project = m.b.project /\ Better(o, m)}) < PerProject}
Assigned(bs, rs) ==
  BestOfProject(Winners({m \in [b : bs, r : {r \in rs : r.valid}] : Pairs(m.b, m.r)}))

-----------------------------------------------------------------------------
(* The rows of a year in reading order; the current rows of a year have    *)
(* one row per project, its revisions the newest first.                    *)
Target(row) == row.category \in {"LIGHTING", "POLE"}
RowsOf(y) == {b \in budget : b.year = y}
BudgetOf(y) ==
  CHOOSE s \in [1..Cardinality(RowsOf(y)) -> RowsOf(y)] :
    \A i, j \in DOMAIN s : i < j => s[i].rank < s[j].rank
DetailsOf(y) == {d \in shopping : d.year = y /\ Target(d)}
RequestsOf(y) == {d.request : d \in DetailsOf(y)}
KeysOf(y) ==
  CHOOSE s \in [1..Cardinality(RequestsOf(y)) -> RequestsOf(y)] :
    \A i, j \in DOMAIN s : i < j => s[i] < s[j]

(* source_population_coverage.                                             *)
Covered(y) ==
  IF y = Legacy THEN legacy.snapshot /\ legacy.days = 1..LegacyDays
                ELSE covered.snapshot /\ covered.days

Nothing == [offset |-> 0, done |-> FALSE, budget |-> FALSE]
NoRun == [exists |-> FALSE, verified |-> FALSE, projects |-> {}, evidence |-> {}]
Init ==
  /\ budget \in {{}, BudgetRows} /\ legacy \in [snapshot : {FALSE}, days : {{}, 1..LegacyDays}]
  /\ shopping = {d \in Details : d.year = Current \/ d.day \in legacy.days}
  /\ covered \in [snapshot : BOOLEAN, days : BOOLEAN]
  /\ runs = [y \in Years |-> NoRun] /\ pc = "idle" /\ todo = <<>> /\ year = 0
  /\ full = FALSE /\ scan = Nothing /\ kept = {} /\ found = {} /\ complete = {} /\ result = ""
  /\ enough = FALSE /\ state = "IDLE" /\ patterns = {} /\ changes = 0 /\ cycles = 0

(* Collectors change the rows of the current year between cycles, and the  *)
(* retention takes the legacy rows away: see ShoppingStore.                *)
Collect ==
  /\ pc = "idle" /\ changes < MaxChanges /\ changes' = changes + 1
  /\ \/ \E b \in BudgetRows : budget' = SymDiff(budget, {b}) /\ UNCHANGED shopping
     \/ \E d \in {x \in Details : x.year = Current} : shopping' = SymDiff(shopping, {d}) /\ UNCHANGED budget
     \/ shopping' = {d \in shopping : d.year = Current} /\ UNCHANGED budget
  /\ covered' \in [snapshot : BOOLEAN, days : BOOLEAN]
  /\ UNCHANGED <<legacy, runs, pc, cycle, state, patterns, cycles>>

(* _match_backfill_worker: the lease, memory and the heavy slot come first.*)
Start ==
  /\ pc = "idle" /\ cycles < MaxCycles /\ cycles' = cycles + 1
  /\ \/ /\ state' = "RUNNING" /\ pc' = "cover" /\ todo' = <<Current, Legacy>>
        /\ complete' = {} /\ result' = "" /\ enough' = FALSE
     \/ /\ state' \in {"LEASE_HELD", "WAITING_STORAGE", "WAITING_MEMORY"}
        /\ UNCHANGED <<pc, todo, complete, result, enough>>
  /\ UNCHANGED <<source, runs, year, full, scan, kept, found, patterns, changes>>

(* historical_match_rows: a covered year is read whole, another is sampled.*)
Cover ==
  /\ pc = "cover" /\ todo # <<>>
  /\ year' = Head(todo) /\ todo' = Tail(todo) /\ full' = Covered(Head(todo))
  /\ scan' = Nothing /\ kept' = {} /\ found' = {} /\ pc' = "budget"
  /\ UNCHANGED <<source, runs, complete, result, enough, state, patterns, changes, cycles>>

Chunk(s, offset, size) == SubSeq(s, offset + 1, Least(offset + size, Len(s)))
Size == IF full THEN Least(PageRows, MaxRows - scan.offset) ELSE Sample
(* The first row of a project that is a target counts.                     *)
FirstOf(rows, seen) ==
  {rows[i] : i \in {i \in DOMAIN rows :
     /\ Target(rows[i]) /\ rows[i].project \notin {b.project : b \in seen}
     /\ \A j \in 1..(i - 1) : Target(rows[j]) => rows[j].project # rows[i].project}}
(* A page that is not full is the last one.                                *)
IsLast_Bug(page, used) == used < Size                    \* counts what it kept
IsLast(page, used) == Len(page) < Size
Over == scan.done \/ scan.offset >= MaxRows
Read(page, used) ==
  /\ scan' = [scan EXCEPT !.offset = @ + Len(page), !.done = ~full \/ IsLast(page, used)]
  /\ UNCHANGED <<source, runs, pc, todo, year, full, complete, result, enough, state, patterns, changes, cycles>>

ReadBudget ==
  /\ pc = "budget" /\ ~Over
  /\ LET page == Chunk(BudgetOf(year), scan.offset, Size)
         new == FirstOf(page, kept)
     IN  kept' = kept \cup new /\ Read(page, Cardinality(new))
  /\ UNCHANGED found
(* A scan that reached its limit is no population.                         *)
TurnToShopping ==
  /\ pc = "budget" /\ Over /\ pc' = "shopping" /\ scan' = [Nothing EXCEPT !.budget = scan.done]
  /\ UNCHANGED <<source, runs, todo, year, full, kept, found, complete, result, enough, state, patterns,
                 changes, cycles>>
(* Pages are pages of requests, each with all its details.                 *)
ReadShopping ==
  /\ pc = "shopping" /\ ~Over
  /\ LET page == Chunk(KeysOf(year), scan.offset, Size) IN
       /\ found' = found \cup Requests({d \in DetailsOf(year) : d.request \in ToSet(page)})
       /\ Read(page, Len(page))
  /\ UNCHANGED kept

-----------------------------------------------------------------------------
(* save_match_summary: one transaction.  A verified population is never    *)
(* replaced by a sample.                                                   *)
Best(ms, p) == Max({0} \cup {Score(m.b, m.r) : m \in {m \in ms : m.b.project = p}})
Evidence(ms) == {[project |-> m.b.project, org |-> m.b.org, heir |-> m.b.heir, request |-> m.r.request,
                  amount |-> m.r.amount, score |-> Score(m.b, m.r)] : m \in ms}
NewRun(population) ==
  LET ms == Winners(Assigned(kept, found)) IN
  [exists |-> TRUE, verified |-> population, evidence |-> Evidence(ms),
   projects |-> IF population
                  THEN {[project |-> b.project, org |-> b.org, heir |-> b.heir,
                         best |-> Best(ms, b.project)] : b \in kept}
                  ELSE {}]
Replaces_Bug(old, population) == TRUE
Replaces(old, population) == population \/ old.projects = {}
Enough(ms) == Cardinality(kept) >= MinProjects
                /\ Cardinality({m.project : m \in {m \in ms : Level(m.score) = "HIGH"}}) >= MinHigh
Save ==
  LET population == full /\ scan.budget /\ scan.done IN
  /\ pc = "shopping" /\ Over
  /\ runs' = IF Replaces(runs[year], population)
               THEN [runs EXCEPT ![year] = NewRun(population)] ELSE runs
  /\ complete' = IF population THEN complete \cup {year} ELSE complete
  /\ enough' = IF year = Current THEN Enough(NewRun(population).evidence) ELSE enough
  /\ pc' = IF todo # <<>> THEN "cover" ELSE IF result = "" THEN "legacy" ELSE "publish"
  /\ UNCHANGED <<source, todo, year, full, scan, kept, found, result, state, patterns, changes, cycles>>

(* An explicit run may collect the legacy year: its snapshot, then its     *)
(* days.  The last page of a day raises, its reconciliation refuses a date *)
(* of that year (ShoppingStore): complete days are those of an earlier     *)
(* release, all or none; a day cut by its page limit leaves its rows and   *)
(* stays incomplete.                                                       *)
NextDays == {d \in Details : d.year = Legacy /\ d.day \notin legacy.days
                               /\ \A e \in 1..(d.day - 1) : e \in legacy.days}
RunDays(rows) ==
  /\ ~enough /\ rows \subseteq NextDays /\ shopping' = shopping \cup rows
  /\ \E s \in {TRUE, legacy.snapshot} : legacy' = [legacy EXCEPT !.snapshot = s]
  /\ UNCHANGED <<budget, covered>>
Backfill ==
  /\ pc = "legacy"
  /\ \/ result' = "none" /\ pc' = "publish" /\ UNCHANGED <<source, todo>>
     \/ /\ \/ /\ result' = IF enough THEN "SKIPPED_EVIDENCE_SUFFICIENT" ELSE "LEASE_HELD"
              /\ UNCHANGED source
           \/ /\ \E rows \in SUBSET NextDays : RunDays(rows)
              /\ result' = IF legacy'.snapshot /\ legacy'.days = 1..LegacyDays THEN "COMPLETE" ELSE "PARTIAL"
        /\ IF legacy'.snapshot /\ legacy'.days # {}
             THEN todo' = <<Legacy>> /\ pc' = "cover" ELSE pc' = "publish" /\ UNCHANGED todo
  /\ UNCHANGED <<runs, year, full, scan, kept, found, complete, enough, state, patterns, changes, cycles>>
BackfillRaises ==
  /\ pc = "legacy" /\ legacy.days # 1..LegacyDays /\ pc' = "idle" /\ state' = "FAILED"
  /\ \E rows \in SUBSET NextDays : RunDays(rows)
  /\ UNCHANGED <<runs, cycle, patterns, changes, cycles>>

(* organization_patterns: a group is the organization that today stands    *)
(* for the one of the row; a rate needs its population.                    *)
Population(heir) == {yp \in UNION {{y} \X runs[y].projects : y \in Years} : yp[2].heir = heir}
Matched(heir) == {ym \in UNION {{y} \X runs[y].evidence : y \in Years} : ym[2].heir = heir}
Heirs == {p.heir : p \in UNION {runs[y].projects : y \in Years}}
           \cup {m.heir : m \in UNION {runs[y].evidence : y \in Years}}
Once_Bug(heir) == Cardinality({<<yp[1], yp[2].org, yp[2].best>> : yp \in Population(heir)})
Once(heir) == Cardinality({<<yp[1], yp[2].project>> : yp \in Population(heir)})
Pattern(heir) ==
  [heir |-> heir, total |-> Once(heir),
   high |-> IF Population(heir) # {}
              THEN Cardinality({<<yp[1], yp[2].project>> : yp \in {x \in Population(heir) : x[2].best >= 80}})
              ELSE Cardinality({<<ym[1], ym[2].project>> : ym \in {x \in Matched(heir) : x[2].score >= 80}})]

Status_Bug ==                          \* forgets that a year was only sampled
  IF result = "PARTIAL" THEN "PARTIAL" ELSE "COMPLETE"
Status ==
  IF result = "PARTIAL" \/ complete # Years THEN "PARTIAL" ELSE "COMPLETE"
Publish ==
  /\ pc = "publish" /\ pc' = "idle"
  /\ state' = Status /\ patterns' = {Pattern(h) : h \in Heirs}
  /\ UNCHANGED <<source, runs, cycle, changes, cycles>>
(* A read, a write or the memory guard raises; a quota ends the backfill.  *)
Fail ==
  /\ pc # "idle" /\ pc' = "idle"
  /\ state' \in {"FAILED"} \cup (IF pc = "legacy" THEN {"WAITING_QUOTA"} ELSE {})
  /\ UNCHANGED <<source, runs, cycle, patterns, changes, cycles>>
(* The process dies: only what is stored is left.                          *)
Crash ==
  /\ pc # "idle" /\ pc' = "idle" /\ state' = "IDLE" /\ patterns' = {}
  /\ UNCHANGED <<source, runs, cycle, changes, cycles>>

Next ==
  \/ Collect \/ Start \/ Cover \/ ReadBudget \/ TurnToShopping \/ ReadShopping
  \/ Save \/ Backfill \/ BackfillRaises \/ Publish \/ Fail \/ Crash
Spec == Init /\ [][Next]_vars

-----------------------------------------------------------------------------
TypeOK ==
  /\ pc \in {"idle", "cover", "budget", "shopping", "legacy", "publish"} /\ year \in {0} \cup Years
  /\ complete \subseteq Years /\ legacy.days \subseteq 1..LegacyDays /\ scan.offset \in 0..MaxRows + Sample
  /\ state \in {"IDLE", "RUNNING", "LEASE_HELD", "WAITING_STORAGE", "WAITING_MEMORY", "WAITING_QUOTA",
                "FAILED", "PARTIAL", "COMPLETE"}

(* In what is stored a delivery request is evidence for one project, a     *)
(* project has at most its few, evidence belongs to the population of its  *)
(* run, and a published rate is a share: money is never counted twice.     *)
CountedOnce ==
  /\ TypeOK
  /\ \A y \in Years :
       /\ \A m, n \in runs[y].evidence : m.request = n.request => m = n
       /\ \A m \in runs[y].evidence :
            /\ Cardinality({n \in runs[y].evidence : n.project = m.project}) <= PerProject
            /\ runs[y].verified => \E p \in runs[y].projects : p.project = m.project /\ p.best >= m.score
  /\ \A g \in patterns : g.total > 0 => g.high <= g.total

(* A run that is stored as the population of its year holds every target   *)
(* project of the year once and no other, and gives a request to no        *)
(* project that another fits better, however the pages fell.               *)
PopulationIsExact ==
  [][\A y \in Years : runs'[y] # runs[y] /\ runs'[y].verified =>
       /\ {p.project : p \in runs'[y].projects} = {b.project : b \in {b \in budget : b.year = y /\ Target(b)}}
       /\ Cardinality(runs'[y].projects) = Cardinality({p.project : p \in runs'[y].projects})
       /\ \A m \in runs'[y].evidence, r \in Requests(DetailsOf(y)), b \in kept :
            r.request = m.request /\ Pairs(b, r) => Score(b, r) <= m.score]_vars

(* A stored population is replaced by another population only: a cycle     *)
(* that sampled, failed or died half way leaves the rates as they were.    *)
VerifiedIsKept ==
  [][\A y \in Years : runs[y].projects # {} /\ runs'[y] # runs[y] => runs'[y].verified]_vars

(* COMPLETE is published only when what is stored for both years is what   *)
(* matching all the rows stored at that moment would give: no page, day or *)
(* year of this cycle is missing from the rates.                           *)
CompleteIsEarned ==
  [][pc = "publish" /\ state' = "COMPLETE" =>
       \A y \in Years :
         /\ runs[y].verified
         /\ runs[y].evidence = Evidence(Assigned(FirstOf(BudgetOf(y), {}), Requests(DetailsOf(y))))]_vars

=============================================================================
