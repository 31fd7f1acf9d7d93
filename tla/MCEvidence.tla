----------------------------- MODULE MCEvidence -----------------------------
(***************************************************************************)
(* What is stored of the two sources and what is derived from it, for TLC: *)
(* the budget rows with their repairs, classifications and purges, the     *)
(* delivery rows with their scans and their retention (ShoppingStore), and *)
(* the matching of one against the other.                                  *)
(*                                                                         *)
(* MatchRollover takes stored rows as it finds them, so TLC explores the   *)
(* parts one at a time: a behaviour runs one of Parts while the others     *)
(* keep an initial state.  StoredBudget and MatchRollover have their       *)
(* variables here, under a prefix.                                         *)
(***************************************************************************)
EXTENDS ShoppingStore, Sequences, TLC

CONSTANTS
  Parts,          \* the components a run explores
  BudgetKeys, OrgOf, Future, Payloads, Daily,   \* of StoredBudget, as are the next
  BudgetWindow, ReceiptWindow, LastBudgetDay, MaxEvents, MaxVersion,
  BudgetRows, Details, LegacyDays, PageRows, MaxRows, Sample, PerProject,   \* of MatchRollover
  MinProjects, MinHigh, MaxChanges, MaxCycles

ASSUME PartsAssumption == Parts \subseteq {"store", "match", "shop"}

VARIABLES
  part,   \* the component this behaviour runs
  s_now, s_obs, s_cur, s_rows, s_classes, s_compat, s_cps, s_receipts, s_version, s_pc,
  s_todo, s_cursor, s_read, s_expired, s_began, s_events,
  m_budget, m_shopping, m_covered, m_legacy, m_runs, m_pc, m_todo, m_year, m_full,
  m_scan, m_kept, m_found, m_complete, m_result, m_enough, m_state, m_patterns,
  m_changes, m_cycles

storeVars ==
  <<s_now, s_obs, s_cur, s_rows, s_classes, s_compat, s_cps, s_receipts, s_version,
    s_pc, s_todo, s_cursor, s_read, s_expired, s_began, s_events>>
matchVars ==
  <<m_budget, m_shopping, m_covered, m_legacy, m_runs, m_pc, m_todo, m_year, m_full,
    m_scan, m_kept, m_found, m_complete, m_result, m_enough, m_state, m_patterns,
    m_changes, m_cycles>>
evidenceVars == <<part, vars, storeVars, matchVars>>

-----------------------------------------------------------------------------
(* Budget rows of two offices that use the same department code; one of    *)
(* them sends a row without its department's name.                         *)
Payload(org, cat, code, name, spent, left) ==
  [org |-> org, cat |-> cat, code |-> code, name |-> name, spent |-> spent, left |-> left]
BudgetPayloads == {
  Payload(1, "LIGHTING", "B", "", 0, 5), Payload(1, "OTHER", "B", "roads", 5, 0),
  Payload(2, "POLE", "B", "parks", 2, 3)}
Offices == <<1, 2>>

(* Rows of the two sources to match.                                       *)
Before == 1   \* the legacy year
Now == 2      \* the current year
BudgetRow(yr, rank, project, org, category, places, amount) ==
  [year |-> yr, rank |-> rank, project |-> project, org |-> org, alias |-> 1, heir |-> 1,
   category |-> category, signals |-> {"LED"}, places |-> places, stems |-> {"east"},
   amount |-> amount, day |-> 2]
CityBudget == {
  BudgetRow(Now, 1, 1, 1, "LIGHTING", {"dong"}, 10),
  BudgetRow(Now, 2, 2, 2, "LIGHTING", {"dong", "road"}, 10),
  BudgetRow(Now, 3, 3, 1, "POLE", {}, 0),
  BudgetRow(Before, 4, 1, 1, "OTHER", {"dong"}, 10),
  BudgetRow(Before, 5, 1, 1, "LIGHTING", {"dong"}, 9),
  BudgetRow(Before, 6, 2, 2, "POLE", {"road"}, 9)}

Detail(yr, day, request, seq, order, org, contract, category, places, amount) ==
  [year |-> yr, day |-> day, request |-> request, seq |-> seq, order |-> order, org |-> org,
   alias |-> 1, heir |-> 1, vendor |-> 1, contract |-> contract, category |-> category,
   signals |-> {"LED"}, places |-> places, stems |-> IF places = {} THEN {"east"} ELSE {},
   amount |-> amount]
CityDetails == {
  Detail(Now, 3, 1, 1, 0, 1, 1, "LIGHTING", {"dong"}, 20),
  Detail(Now, 3, 1, 1, 1, 1, 1, "LIGHTING", {"dong"}, 8),
  Detail(Now, 3, 2, 1, 0, 2, 1, "POLE", {"road"}, 9),
  Detail(Now, 3, 2, 2, 0, 2, 2, "POLE", {}, 1),
  Detail(Now, 3, 3, 1, 0, 1, 0, "LIGHTING", {"dong"}, 5),
  Detail(Now, 3, 3, 2, 1, 2, 1, "LIGHTING", {"dong"}, 5),
  Detail(Before, 1, 4, 1, 0, 1, 1, "LIGHTING", {"dong"}, 9),
  Detail(Before, 2, 5, 1, 0, 1, 1, "LIGHTING", {}, 9)}

-----------------------------------------------------------------------------
(* The budget rows; the constants named as above keep their names.         *)
S == INSTANCE StoredBudget WITH
  Keys <- BudgetKeys, Window <- BudgetWindow, LastDay <- LastBudgetDay, now <- s_now,
  obs <- s_obs, cur <- s_cur, rows <- s_rows,
  classes <- s_classes, compat <- s_compat, cps <- s_cps, receipts <- s_receipts,
  version <- s_version, pc <- s_pc, todo <- s_todo, cursor <- s_cursor, read <- s_read,
  expired <- s_expired, began <- s_began, events <- s_events

(* The budget projects and the delivery requests to match.                 *)
M == INSTANCE MatchRollover WITH
  budget <- m_budget, shopping <- m_shopping,
  covered <- m_covered, legacy <- m_legacy, runs <- m_runs, pc <- m_pc, todo <- m_todo,
  year <- m_year, full <- m_full, scan <- m_scan, kept <- m_kept, found <- m_found,
  complete <- m_complete, result <- m_result, enough <- m_enough, state <- m_state,
  patterns <- m_patterns, changes <- m_changes, cycles <- m_cycles

ASSUME InstancesAssumption ==
  S!StoreAssumption /\ M!MatchAssumption

Symmetry == Permutations(Keys)

EvidenceInit ==
  /\ part \in Parts
  /\ Init /\ (part # "shop" => \A k \in Keys : rows[k] = NoRow)
  /\ S!Init
  /\ M!Init /\ (part # "match" =>
                 /\ m_budget = {} /\ m_legacy.days = {}
                 /\ m_covered = [snapshot |-> TRUE, days |-> TRUE])

EvidenceNext ==
  /\ \/ part = "shop"  /\ Next /\ UNCHANGED <<storeVars, matchVars>>
     \/ part = "store" /\ S!Next /\ UNCHANGED <<vars, matchVars>>
     \/ part = "match" /\ M!Next /\ UNCHANGED <<vars, storeVars>>
  /\ UNCHANGED part

EvidenceSpec == EvidenceInit /\ [][EvidenceNext]_evidenceVars

-----------------------------------------------------------------------------
(* A current budget row is whole whatever the purge deletes, and a page    *)
(* never shows a row under a category its own text does not have, nor a    *)
(* department name of another organization.                                *)
StoredRowsAreTrue ==
  part = "store" => S!CurrentIsWhole /\ S!ShownCategoryIsTrue /\ S!NameIsOfOrg

(* What is classified stays so until its payload or the rules change, and  *)
(* a purge keeps what the collection of a day needs to go on.              *)
NothingIsLost == S!StaysClassified /\ S!PurgeKeepsProgress

(* Nothing is counted twice: a page counts the rows it lists, however many *)
(* rules they were classified under, and in the stored matches a request   *)
(* is evidence for one project.                                            *)
CountedOnce ==
  /\ part = "store" => S!SummaryIsOfRows
  /\ part = "match" => M!CountedOnce

(* And the money a page sums up is the money of the rows it lists.         *)
MoneyIsOfRows == part = "store" => S!MoneyIsOfRows

(* A stored population is exact, is replaced by another population only,   *)
(* and COMPLETE means that both years are what all stored rows give.       *)
PopulationIsTrue == M!PopulationIsExact /\ M!VerifiedIsKept /\ M!CompleteIsEarned

(* A day whose scans are complete shows what they listed and nothing else, *)
(* and nothing the retention took away comes back.                         *)
DeliveriesAreListed ==
  part = "shop" => ActiveIsListed /\ ListedIsActive /\ NothingComesBack

=============================================================================
