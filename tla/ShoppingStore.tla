---------------------------- MODULE ShoppingStore ----------------------------
(***************************************************************************)
(* The stored delivery requests: what the pages of a day store, what the   *)
(* last page of the day makes inactive, and what the retention deletes.    *)
(* PageCollection says how the pages of one scope follow each other; here  *)
(* a day may be covered by two scopes, the day itself and its smart-LED    *)
(* replay, and a day of the year before the bootstrap by its backfill.     *)
(*                                                                         *)
(* The operational lease lets one of them run at a time, and the retention *)
(* follows the collection in the same cycle; any of them may die between   *)
(* two transactions, and midnight comes whenever it comes.                 *)
(***************************************************************************)
EXTENDS Integers, FiniteSets, FiniteSetsExt

CONSTANTS
  Keys,        \* source identities of delivery details
  LastDay,     \* bound on the calendar; days are 1..LastDay
  Boot,        \* START_DATE; the days before it can only be backfilled
  SmartFrom,   \* first day of the smart-LED replay
  Window,      \* days the retention keeps
  Batch,       \* rows one retention transaction deletes
  MaxScans,    \* scans of a day, a bound
  OldRows       \* rows that may have been stored before source dates were validated

ASSUME StoreAssumption ==
  /\ IsFiniteSet(Keys) /\ {LastDay, Boot, SmartFrom, Window, Batch, MaxScans} \subseteq Nat \ {0}
  /\ Boot <= SmartFrom /\ SmartFrom <= LastDay /\ Boot < LastDay

VARIABLES
  today,
  rows,    \* shopping_records: the row of a key, or NoRow
  cps,     \* checkpoint and item receipt of every scope
  actor,   \* who holds the operational lease: nobody, a scope, or the retention
  purge,   \* the retention's position: phase, cutoff, what it listed
  kept,    \* cutoff of the last retention that ran to its end
  scans

vars == <<today, rows, cps, actor, purge, kept, scans>>

Days == 1..LastDay
Malformed == 0           \* a source_date that is no date
Dates == Days \cup {Malformed}
Categories == {"TARGET", "SMART_CONTROL"}
NoRow == [date |-> Malformed, category |-> "TARGET", active |-> FALSE, exists |-> FALSE]
Row(d, c) == [date |-> d, category |-> c, active |-> TRUE, exists |-> TRUE]
Stored == {k \in Keys : rows[k].exists}

Scopes == ({"day"} \X (Boot..LastDay)) \cup ({"smart"} \X (SmartFrom..LastDay)) \cup ({"backfill"} \X (1..(Boot - 1)))
Kind(s) == s[1]
Day(s) == s[2]
NoScan == [status |-> "ABSENT", seen |-> {}, stored |-> {}]

(* retention_cutoff_date: the oldest day that is kept.                     *)
Cutoff(date) == date - Window

(* _validated_source_date.                                                 *)
Valid(date, backfill) == date # Malformed /\ (date >= Boot \/ backfill)

(* should_store, should_store_smartled_replay.                             *)
Eligible(s, c) == c = "TARGET" \/ (c = "SMART_CONTROL" /\ Kind(s) = "smart")

-----------------------------------------------------------------------------
NoPurge == [phase |-> "none", cutoff |-> 0, todo |-> {}]
Nobody == <<"nobody", 0>>
Retention == <<"retention", 0>>

Init ==
  /\ today = Boot + 1
  /\ rows \in {[k \in Keys |-> IF k \in old THEN Row(Malformed, "TARGET") ELSE NoRow] : old \in SUBSET OldRows}
  /\ cps = [s \in Scopes |-> NoScan] /\ actor = Nobody /\ purge = NoPurge
  /\ kept = 0 /\ scans = 0

Midnight ==
  /\ today < LastDay /\ today' = today + 1
  /\ UNCHANGED <<rows, cps, actor, purge, kept, scans>>

-----------------------------------------------------------------------------
(* collect_all, collect_match_backfill_day: a scan starts, starts over or  *)
(* goes on where it stopped.                                               *)
MayScan_Bug(s) ==                     \* forgets the retention floor
  Day(s) < today /\ (Kind(s) = "backfill" => cps[s].status # "COMPLETE")
MayScan(s) ==
  /\ Day(s) < today
  /\ Kind(s) = "backfill" \/ Day(s) >= Cutoff(today)
  /\ Kind(s) = "backfill" => cps[s].status # "COMPLETE"
Scan(s) ==
  /\ actor = Nobody /\ MayScan(s) /\ actor' = s
  /\ \/ /\ cps[s].status \in {"ABSENT", "COMPLETE"} /\ scans < MaxScans /\ scans' = scans + 1
        /\ cps' = [cps EXCEPT ![s] = [NoScan EXCEPT !.status = "RUNNING"]]
     \/ /\ cps[s].status \in {"RUNNING", "FAILED"}
        /\ cps' = [cps EXCEPT ![s].status = "RUNNING"] /\ UNCHANGED scans
  /\ UNCHANGED <<today, rows, purge, kept>>

(* preserve_record: the row is replaced whole and is active again.  A page *)
(* gives each of its identities a category, "" when it is no target.       *)
Preserved(s, page) ==
  [k \in Keys |-> IF k \in DOMAIN page /\ Eligible(s, page[k]) THEN Row(Day(s), page[k]) ELSE rows[k]]
Received(s, page) ==
  [cps[s] EXCEPT !.seen = @ \cup DOMAIN page,
                 !.stored = @ \cup {k \in DOMAIN page : Eligible(s, page[k])}]
Pages(s) == UNION {[ks -> Categories \cup {""}] : ks \in SUBSET (Keys \ cps[s].seen)}

Page(s) ==
  /\ actor = s
  /\ \E page \in Pages(s) :
       /\ DOMAIN page # {}
       /\ rows' = Preserved(s, page) /\ cps' = [cps EXCEPT ![s] = Received(s, page)]
  /\ UNCHANGED <<today, actor, purge, kept, scans>>

(* reconcile_complete_scope, in the transaction of the last page: an empty *)
(* scan proves nothing; a day scan leaves the smart rows to their replay.  *)
Covers_Bug(s, row) == row.date = Day(s)
Covers(s, row) == row.date = Day(s) /\ (row.category # "SMART_CONTROL" \/ Kind(s) = "smart")
Missing_Bug(s, k, receipt) == k \in receipt.seen /\ k \notin receipt.stored     \* seen as no target
Missing(s, k, receipt) == k \notin receipt.stored
Reconciled(s, rs, receipt) ==
  [k \in Keys |-> IF receipt.seen # {} /\ rs[k].active /\ Covers(s, rs[k]) /\ Missing(s, k, receipt)
                    THEN [rs[k] EXCEPT !.active = FALSE] ELSE rs[k]]
(* The reconciliation refuses a date the store does not accept: the page   *)
(* rolls back and the scope has failed.                                    *)
LastPage(s) ==
  /\ actor = s /\ actor' = Nobody
  /\ \E page \in Pages(s) :
       \/ /\ Valid(Day(s), FALSE)
          /\ rows' = Reconciled(s, Preserved(s, page), Received(s, page))
          /\ cps' = [cps EXCEPT ![s] = [Received(s, page) EXCEPT !.status = "COMPLETE"]]
       \/ /\ ~Valid(Day(s), FALSE)
          /\ cps' = [cps EXCEPT ![s].status = "FAILED"] /\ UNCHANGED rows
  /\ UNCHANGED <<today, purge, kept, scans>>

-----------------------------------------------------------------------------
(* purge_history: the cutoff is that of the start of the cycle, before or  *)
(* after the last midnight, the dates that are no dates are listed first;  *)
(* then one transaction a batch, a scope, a batch.                         *)
StartPurge ==
  /\ actor = Nobody /\ actor' = Retention
  /\ \E now \in {today - 1, today} :
       purge' = [phase |-> "dates", cutoff |-> Cutoff(now),
                 todo |-> {rows[k].date : k \in {k \in Stored : ~Valid(rows[k].date, FALSE)}}]
  /\ UNCHANGED <<today, rows, cps, kept, scans>>

Without(ks) == [k \in Keys |-> IF k \in ks THEN NoRow ELSE rows[k]]
Batches(ks) == {b \in SUBSET ks : Cardinality(b) = Min({Batch, Cardinality(ks)})}
(* One batch; a batch that is not full was the last of its kind.           *)
EndsAfter(batch) == Cardinality(batch) < Batch

PurgeDate ==
  /\ purge.phase = "dates"
  /\ \E d \in purge.todo : \E b \in Batches({k \in Stored : rows[k].date = d}) :
       /\ rows' = Without(b)
       /\ purge' = IF EndsAfter(b) THEN [purge EXCEPT !.todo = @ \ {d}] ELSE purge
  /\ UNCHANGED <<today, cps, actor, kept, scans>>
ListScopes ==
  /\ purge.phase = "dates" /\ purge.todo = {}
  /\ purge' = [purge EXCEPT !.phase = "scopes",
                            !.todo = {s \in Scopes : cps[s].status # "ABSENT" /\ Day(s) < purge.cutoff}]
  /\ UNCHANGED <<today, rows, cps, actor, kept, scans>>
PurgeScope ==
  /\ purge.phase = "scopes"
  /\ \E s \in purge.todo :
       /\ cps' = [cps EXCEPT ![s] = NoScan] /\ purge' = [purge EXCEPT !.todo = @ \ {s}]
  /\ UNCHANGED <<today, rows, actor, kept, scans>>
PurgeRows ==
  /\ purge.phase \in {"scopes", "rows"} /\ purge.todo = {}
  /\ \E b \in Batches({k \in Stored : rows[k].date # Malformed /\ rows[k].date < purge.cutoff}) :
       /\ rows' = Without(b)
       /\ IF EndsAfter(b)
            THEN actor' = Nobody /\ purge' = NoPurge /\ kept' = purge.cutoff
            ELSE purge' = [purge EXCEPT !.phase = "rows"] /\ UNCHANGED <<actor, kept>>
  /\ UNCHANGED <<today, cps, scans>>

-----------------------------------------------------------------------------
(* The process dies or a statement fails: the transactions stay.           *)
Stop ==
  /\ actor # Nobody /\ actor' = Nobody /\ purge' = NoPurge
  /\ UNCHANGED <<today, rows, cps, kept, scans>>

Next ==
  \/ Midnight \/ StartPurge \/ PurgeDate \/ ListScopes \/ PurgeScope \/ PurgeRows \/ Stop
  \/ \E s \in Scopes : Scan(s) \/ Page(s) \/ LastPage(s)
Spec == Init /\ [][Next]_vars

(* An operator who keeps asking for the backfill, scans that keep reaching *)
(* their last page, and a retention that does not stand still.             *)
Backfills == {s \in Scopes : Kind(s) = "backfill"}
Persistent ==
  /\ \A s \in Backfills : SF_vars(Scan(s))
  /\ \A s \in Scopes : SF_vars(LastPage(s))
  /\ WF_vars(PurgeDate \/ ListScopes \/ PurgeScope \/ PurgeRows)
FairSpec == Spec /\ Persistent

-----------------------------------------------------------------------------
TypeOK ==
  /\ today \in Days /\ scans \in 0..MaxScans /\ actor \in {Nobody, Retention} \cup Scopes
  /\ purge.phase \in {"none", "dates", "scopes", "rows"} /\ (purge.phase # "none" <=> actor = Retention)
  /\ \A k \in Keys : rows[k].date \in Dates /\ rows[k].category \in Categories
  /\ \A s \in Scopes : /\ cps[s].status \in {"ABSENT", "RUNNING", "FAILED", "COMPLETE"}
                       /\ cps[s].stored \subseteq cps[s].seen /\ cps[s].seen \subseteq Keys

(* The scopes of a day the retention still keeps, when all were read.      *)
ReadScopes(d) == {s \in Scopes \ Backfills : Day(s) = d /\ cps[s].status # "ABSENT"}
WholeDays ==
  {d \in Boot..LastDay : /\ d >= Cutoff(today) /\ ReadScopes(d) # {}
                         /\ \A s \in ReadScopes(d) : cps[s].status = "COMPLETE"}
RowsOf(d) == {k \in Stored : rows[k].date = d}

(* On a day whose scans are all complete and none empty, an active row is  *)
(* one that a scan of the day listed: what the source withdrew or moved    *)
(* out of the target categories is not shown as an opportunity, whatever   *)
(* was collected again, replayed, purged or cut short before.              *)
ActiveIsListed ==
  /\ TypeOK
  /\ \A d \in WholeDays : (\A s \in ReadScopes(d) : cps[s].seen # {}) =>
       \A k \in RowsOf(d) : rows[k].active => \E s \in ReadScopes(d) : k \in cps[s].stored

(* And what the scans agree on is active: one scan of a day takes nothing  *)
(* away that the other one vouches for, a day scan no smart control row,   *)
(* an empty scan nothing at all.                                           *)
ListedIsActive ==
  \A d \in WholeDays : \A k \in RowsOf(d) :
    \/ \A s \in ReadScopes(d) : k \in cps[s].stored
    \/ rows[k].category = "SMART_CONTROL" /\ \E s \in ReadScopes(d) : Kind(s) = "smart" /\ k \in cps[s].stored
    => rows[k].active

(* Once a retention has run to its end, no row or checkpoint of the        *)
(* collected years is older than what it kept, and none comes back: the    *)
(* collector never fetches a purged day again, whatever stopped half way.  *)
NothingComesBack ==
  kept > 0 =>
    /\ \A k \in Stored : rows[k].date # Malformed /\ (rows[k].date >= Boot => rows[k].date >= kept)
    /\ \A s \in Scopes \ Backfills : cps[s].status # "ABSENT" => Day(s) >= kept

(* A day of the backfill that was started is completed sooner or later, if *)
(* the operator keeps asking: completed days and the next day to resume    *)
(* are what its progress is made of.                                       *)
BackfillCompletes ==
  \A s \in Backfills : cps[s].status = "RUNNING" ~> (cps[s].status = "COMPLETE" \/ Day(s) < Cutoff(today))

=============================================================================
