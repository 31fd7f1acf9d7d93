---------------------------- MODULE StoredBudget ----------------------------
(***************************************************************************)
(* The budget rows after collection: every accepted source row becomes an  *)
(* observation, a revision, the current state of its key and a project     *)
(* row; the cycle then repairs blank departments, classifies what changed, *)
(* purges what is old and prunes the read model; the pages join the        *)
(* current rows with their classification.                                 *)
(*                                                                         *)
(* One step is one transaction.  A collector may store rows at any step:   *)
(* the lease excludes it, but a lease that was lost does not.  Not         *)
(* modelled are two races inside such a pair of transactions, which only   *)
(* the lease excludes: an observation deleted between its lookup and the   *)
(* write of the state that points at it (there is no foreign key), and an  *)
(* orphan delete that re-checks a row against its older snapshot.          *)
(***************************************************************************)
EXTENDS Integers, FiniteSets, FiniteSetsExt

CONSTANTS
  Keys,      \* record keys 1..n, in key order
  OrgOf,     \* the organization of a key: part of the key
  Future,    \* keys of a fiscal year after this one
  Payloads,  \* what the source may say: records with org, cat, code, name, spent, left
  Daily,     \* nationwide daily scopes, named by their day
  Window,    \* retention in days
  ReceiptWindow,  \* retention of receipts in days
  LastDay, MaxEvents, MaxVersion   \* bounds

StoreAssumption ==
  /\ IsFiniteSet(Keys) /\ Keys = 1..Cardinality(Keys) /\ Future \subseteq Keys /\ Daily \subseteq 1..LastDay
  /\ {Window, ReceiptWindow, MaxEvents} \subseteq Nat /\ {LastDay, MaxVersion} \subseteq Nat \ {0}
  /\ IsFiniteSet(Payloads) /\ \A p \in Payloads : {p.spent, p.left} \subseteq Int

Scopes == Daily \cup {0}      \* 0 is a scope of another dataset
NoState == [seen |-> 0]
NoRow == [dept |-> "none"]
NoCp == [status |-> "ABSENT", updated |-> 0, gen |-> 0]
Gens == 1..2

VARIABLES
  now,       \* the day
  obs,       \* observations: key, payload, source date, day observed; revised: its revision exists
  cur,       \* current state of every key: payload, source date, last seen
  rows,      \* project row of every key: payload, department name and code
  classes,   \* budget classifications: key, version, payload, cat
  compat,    \* the same in the application tables
  cps, receipts,   \* checkpoint of every scope, generations with receipts
  version,   \* classifier version
  pc, todo, cursor, read, expired,   \* the cycle
  began,     \* the day its purge began: its cutoffs are of that day
  events

stored == <<obs, cur, rows>>
labels == <<classes, compat>>
scopes == <<cps, receipts>>
cycle == <<pc, todo, cursor, read, expired, began>>
vars == <<now, stored, labels, scopes, version, cycle, events>>

-----------------------------------------------------------------------------
IsCurrent(k) == cur[k] # NoState
Cutoff == began - Window
ReceiptCutoff == began - ReceiptWindow
Active(c) == c.status \in {"RUNNING", "FAILED", "INCOMPLETE"}

Init ==
  /\ now = 1 /\ obs = {} /\ cur = [k \in Keys |-> NoState] /\ rows = [k \in Keys |-> NoRow]
  /\ classes = {} /\ compat = {} /\ cps = [s \in Scopes |-> NoCp] /\ receipts = [s \in Scopes |-> {}]
  /\ version = 1 /\ pc = "collect" /\ todo = {} /\ cursor = 0 /\ read = [key |-> 0] /\ expired = FALSE /\ began = 0
  /\ events = 0

(* preserve_observation: an observation is stored once; a row of a history *)
(* scope does not become current.  A blank department is stored as blank.  *)
Observation(k, p, day) == [key |-> k, payload |-> p, day |-> day, seen |-> now, revised |-> TRUE]
Observed(k, p) == {o \in obs : o.key = k /\ o.payload = p}
Preserve ==
  /\ events < MaxEvents /\ events' = events + 1
  /\ \E k \in Keys, p \in Payloads, current \in BOOLEAN :
       LET day == IF current THEN now ELSE now - 1 IN
       /\ p.org = OrgOf[k]
       /\ obs' = IF Observed(k, p) = {} THEN obs \cup {Observation(k, p, day)} ELSE obs
       /\ IF current
            THEN /\ cur' = [cur EXCEPT ![k] = [payload |-> p, day |-> day, seen |-> now]]
                 /\ rows' = [rows EXCEPT ![k] = [payload |-> p, dept |-> p.name, code |-> p.code]]
            ELSE UNCHANGED <<cur, rows>>
  /\ UNCHANGED <<now, labels, scopes, version, cycle>>

(* What collection does to a checkpoint, in outline.                       *)
Scope ==
  /\ events < MaxEvents /\ events' = events + 1
  /\ \E s \in Scopes :
       /\ s <= now
       /\ \/ /\ cps[s].status # "COMPLETE" /\ cps[s].gen < 2
             /\ cps' = [cps EXCEPT ![s] = [status |-> "RUNNING", updated |-> now, gen |-> @.gen + 1]]
             /\ receipts' = [receipts EXCEPT ![s] = @ \cup {cps[s].gen + 1}]
          \/ /\ cps[s].status = "RUNNING"
             /\ \E end \in {"COMPLETE", "FAILED", "INCOMPLETE"} :
                  cps' = [cps EXCEPT ![s].status = end, ![s].updated = now]
             /\ UNCHANGED receipts
  /\ UNCHANGED <<now, stored, labels, version, cycle>>

Tomorrow ==
  /\ now < LastDay /\ now' = now + 1
  /\ UNCHANGED <<stored, labels, scopes, version, cycle, events>>
(* A release with new classification rules.                                *)
Upgrade ==
  /\ pc = "collect" /\ version < MaxVersion /\ version' = version + 1
  /\ UNCHANGED <<now, stored, labels, scopes, cycle, events>>

-----------------------------------------------------------------------------
(* Repair.  Only blank names are filled: from the latest revision of the   *)
(* same key that names one, then from rows of the same organization and    *)
(* department code when they agree on one name.                            *)
Blank(k) == rows[k] # NoRow /\ rows[k].dept = ""
Named(k) == {o \in obs : o.key = k /\ o.revised /\ o.payload.name # ""}
RepairSame ==
  /\ pc = "collect" /\ pc' \in {"evidence", "classify"}      \* a failed repair is a warning
  /\ \E last \in Keys \cup {0} :                             \* the batches that were committed
       \E f \in [{k \in 1..last : Blank(k) /\ Named(k) # {}} -> obs] :
         /\ \A k \in DOMAIN f : f[k] \in Named(k) /\ \A o \in Named(k) : o.seen <= f[k].seen
         /\ rows' = [k \in Keys |->
              IF k \notin DOMAIN f THEN rows[k]
              ELSE [rows[k] EXCEPT !.dept = f[k].payload.name,
                                   !.code = IF @ = "" THEN f[k].payload.code ELSE @]]
  /\ UNCHANGED <<now, obs, cur, labels, scopes, version, todo, cursor, read, expired, began, events>>

SameOrg_Bug(k, j) == TRUE
SameOrg(k, j) == OrgOf[k] = OrgOf[j]
Names(k) ==
  ({rows[j].dept : j \in {j \in Keys : SameOrg(k, j) /\ rows[j] # NoRow
                                       /\ rows[j].code = rows[k].code}}
    \cup {o.payload.name : o \in {o \in obs : SameOrg(k, o.key) /\ o.revised
                                              /\ o.payload.code = rows[k].code}}) \ {""}
Agreed(k) == Blank(k) /\ rows[k].code # "" /\ Cardinality(Names(k)) = 1
RepairByCode ==
  /\ pc = "evidence" /\ pc' = "classify"
  /\ \E last \in Keys \cup {0} :
       \E f \in [{k \in 1..last : Agreed(k)} -> {p.name : p \in Payloads}] :
         /\ \A k \in DOMAIN f : f[k] \in Names(k)
         /\ rows' = [k \in Keys |->
              IF k \in DOMAIN f THEN [rows[k] EXCEPT !.dept = f[k]] ELSE rows[k]]
  /\ UNCHANGED <<now, obs, cur, labels, scopes, version, todo, cursor, read, expired, began, events>>

-----------------------------------------------------------------------------
(* classify_dataset: pending keys in key order, one row per transaction.   *)
(* What a key is classified from may change until its rows are locked.     *)
Pending(k) ==
  IsCurrent(k) /\ ~\E c \in classes : c.key = k /\ c.version = version /\ c.payload = cur[k].payload
Rest == {k \in Keys : k > cursor /\ Pending(k)}
ClassifyRead ==
  /\ pc = "classify" /\ Rest # {}
  /\ cursor' = Min(Rest) /\ pc' = "save"
  /\ read' = [key |-> cursor', payload |-> rows[cursor'].payload]
  /\ UNCHANGED <<now, stored, labels, scopes, version, todo, expired, began, events>>
SourceIsCurrent_Bug(r) == TRUE
SourceIsCurrent(r) == IsCurrent(r.key) /\ cur[r.key].payload = r.payload /\ rows[r.key].payload = r.payload
Labelled(r) == [key |-> r.key, version |-> version, payload |-> r.payload, cat |-> r.payload.cat]
SaveClassification ==
  /\ pc = "save" /\ pc' = "classify" /\ read' = [key |-> 0]
  /\ LET put(t) == {c \in t : <<c.key, c.version>> # <<read.key, version>>} \cup {Labelled(read)} IN
     IF SourceIsCurrent(read) THEN classes' = put(classes) /\ compat' = put(compat)
                              ELSE UNCHANGED labels
  /\ UNCHANGED <<now, stored, scopes, version, todo, cursor, expired, began, events>>
(* Nothing pending, or the limit of rows of one cycle.                     *)
ClassifyEnd ==
  /\ pc = "classify" /\ pc' = "scopes"
  /\ todo' = {s \in Scopes : cps[s] # NoCp} /\ cursor' = 0 /\ began' = now
  /\ UNCHANGED <<now, stored, labels, scopes, version, read, expired, events>>

-----------------------------------------------------------------------------
(* purge_history, first part: one checkpoint per transaction.              *)
DailyComplete_Bug(s) == FALSE
DailyComplete(s) == s \in Daily /\ cps[s].status = "COMPLETE"
Expires(s) ==
  cps[s].updated < (IF Active(cps[s]) \/ DailyComplete(s) THEN Cutoff ELSE ReceiptCutoff)
Resumable(s) == Active(cps[s]) /\ cps[s].updated >= Cutoff
Outlived(s) == DailyComplete(s) /\ s < Cutoff
Compacted(s) == DailyComplete(s) /\ ~Outlived(s) /\ cps[s].updated < ReceiptCutoff
Forgotten(s) == ~Resumable(s) /\ (Outlived(s) \/ (~Compacted(s) /\ Expires(s)))
PurgeScope ==
  /\ pc = "scopes" /\ todo # {}
  /\ LET s == Min(todo) IN
       /\ todo' = todo \ {s}
       /\ receipts' = [receipts EXCEPT ![s] = IF Forgotten(s) \/ Compacted(s) THEN {} ELSE @ \cap {cps[s].gen}]
       /\ cps' = [cps EXCEPT ![s] = IF Forgotten(s) THEN NoCp ELSE @]
  /\ UNCHANGED <<now, stored, labels, version, pc, cursor, read, expired, began, events>>

(* Current rows not seen for the window, except those of a future year.    *)
Stale(k) == IsCurrent(k) /\ cur[k].seen < Cutoff /\ k \notin Future
Expire ==
  /\ pc = "scopes" /\ todo = {}
  /\ \/ \E k \in Keys : Stale(k) /\ cur' = [cur EXCEPT ![k] = NoState] /\ expired' = TRUE /\ UNCHANGED pc
     \/ (\A k \in Keys : ~Stale(k)) /\ pc' = "orphans" /\ UNCHANGED <<cur, expired>>
  /\ UNCHANGED <<now, obs, rows, labels, scopes, version, todo, cursor, read, began, events>>
Orphans ==
  /\ pc = "orphans" /\ pc' = "history" /\ todo' = {}
  /\ rows' = [k \in Keys |-> IF IsCurrent(k) THEN rows[k] ELSE NoRow]
  /\ classes' = {c \in classes : IsCurrent(c.key)}
  /\ UNCHANGED <<now, obs, cur, compat, scopes, version, cursor, read, expired, began, events>>

(* Observations: selected by source date, and their revisions with them;   *)
(* deleted when they were also observed before the cutoff.                 *)
PointedAt_Bug(o) == FALSE
PointedAt(o) == IsCurrent(o.key) /\ cur[o.key].payload = o.payload
Selected == {o \in obs : o.day < Cutoff /\ ~PointedAt(o)}
SelectHistory ==
  /\ pc = "history" /\ todo = {}
  /\ IF Selected = {} THEN pc' = "prune" ELSE UNCHANGED pc
  /\ todo' = {[key |-> o.key, payload |-> o.payload] : o \in Selected}
  /\ UNCHANGED <<now, stored, labels, scopes, version, cursor, read, expired, began, events>>
DeleteHistory ==
  /\ pc = "history" /\ todo # {} /\ todo' = {}
  /\ LET chosen == {o \in obs : [key |-> o.key, payload |-> o.payload] \in todo}
         gone == {o \in chosen : o.seen < Cutoff /\ ~PointedAt(o)}
     IN  /\ obs' = (obs \ chosen) \cup {[o EXCEPT !.revised = FALSE] : o \in chosen \ gone}
         /\ pc' = IF gone = {} THEN "prune" ELSE "history"
  /\ UNCHANGED <<now, cur, rows, labels, scopes, version, cursor, read, expired, began, events>>
(* prune_stale_budget_read_model, only after rows expired.                 *)
Prune ==
  /\ pc = "prune" /\ pc' = "collect" /\ cursor' = 0 /\ read' = [key |-> 0] /\ expired' = FALSE /\ began' = 0
  /\ compat' = IF expired THEN {c \in compat : IsCurrent(c.key) /\ cur[c.key].payload = c.payload}
                          ELSE compat
  /\ UNCHANGED <<now, stored, classes, scopes, version, todo, events>>
(* An error ends the cycle anywhere, as does the death of the process.     *)
Stop ==
  /\ pc # "collect" /\ pc' = "collect" /\ todo' = {} /\ read' = [key |-> 0]
  /\ cursor' = 0 /\ expired' = FALSE /\ began' = 0
  /\ UNCHANGED <<now, stored, labels, scopes, version, events>>

Next ==
  \/ Preserve \/ Scope \/ Tomorrow \/ Upgrade
  \/ RepairSame \/ RepairByCode \/ ClassifyRead \/ SaveClassification \/ ClassifyEnd
  \/ PurgeScope \/ Expire \/ Orphans \/ SelectHistory \/ DeleteHistory \/ Prune \/ Stop
Spec == Init /\ [][Next]_vars

-----------------------------------------------------------------------------
(* What the pages read: the list and its summary are two queries.          *)
Matching_Bug(k) == {c \in classes : c.key = k /\ c.payload = rows[k].payload}
Matching(k) == {c \in classes : c.key = k /\ c.version = version /\ c.payload = rows[k].payload}
Shown == {k \in Keys : IsCurrent(k) /\ rows[k] # NoRow}
HasStatus(k, status) ==
  LET p == rows[k].payload IN
  CASE status = "UNEXECUTED" -> p.spent <= 0
    [] status = "PARTIAL"    -> p.spent > 0 /\ p.left > 0
    [] status = "FULL"       -> p.spent > 0 /\ p.left <= 0
    [] OTHER                 -> TRUE
ListRows(cats, status, positive) ==
  {k \in Shown : /\ cats # {} => \E c \in Matching(k) : c.cat \in cats
                 /\ HasStatus(k, status) /\ (positive => rows[k].payload.left > 0)}
NoClass == [cat |-> "none"]
Join(cats) ==
  UNION {{<<k, c>> : c \in IF cats = {} THEN (IF Matching(k) = {} THEN {NoClass} ELSE Matching(k))
                                        ELSE {c \in Matching(k) : c.cat \in cats}} : k \in Shown}
Summary(cats) ==
  LET j == Join(cats)
      n(status) == Cardinality({kc \in j : HasStatus(kc[1], status)})
      sales == {kc \in j : kc[2].cat \in {"LIGHTING", "POLE"} /\ rows[kc[1]].payload.left > 0}
      left(s) == MapThenSumSet(LAMBDA kc : rows[kc[1]].payload.left, s)
  IN [count |-> Cardinality(j), unexecuted |-> n("UNEXECUTED"), partial |-> n("PARTIAL"),
      full |-> n("FULL"), remaining |-> left(j), sales |-> Cardinality(sales), ready |-> left(sales)]

-----------------------------------------------------------------------------
TypeOK ==
  /\ now \in 1..LastDay /\ version \in 1..MaxVersion /\ events \in 0..MaxEvents
  /\ pc \in {"collect", "evidence", "classify", "save", "scopes", "orphans", "history", "prune"}
  /\ \A s \in Scopes : receipts[s] \subseteq Gens
  /\ \A o, q \in obs : o.key = q.key /\ o.payload = q.payload => o = q

(* A current row always has its project row and its observation, whatever  *)
(* the purge deletes while rows are stored.                                *)
CurrentIsWhole ==
  /\ TypeOK
  /\ \A k \in Keys : IsCurrent(k) =>
       rows[k] # NoRow /\ rows[k].payload = cur[k].payload /\ Observed(k, cur[k].payload) # {}
(* What a page counts is what it lists, however many rules a row was       *)
(* classified under: the rows, those of each execution status, and the     *)
(* card of lighting and pole projects with money left.                     *)
SummaryIsOfRows ==
  \A cats \in {{}, {"LIGHTING", "POLE"}} :
    LET s == Summary(cats) IN
    /\ s.count = Cardinality(ListRows(cats, "", FALSE))
    /\ s.count = s.unexecuted + s.partial + s.full
    /\ s.partial = Cardinality(ListRows(cats, "PARTIAL", FALSE))
    /\ s.sales = Cardinality(ListRows({"LIGHTING", "POLE"}, "", TRUE))
(* And the money it sums up is that of the rows it lists.                  *)
MoneyIsOfRows ==
  \A cats \in {{}, {"LIGHTING", "POLE"}} :
    LET left(ks) == MapThenSumSet(LAMBDA k : rows[k].payload.left, ks) IN
    /\ Summary(cats).remaining = left(ListRows(cats, "", FALSE))
    /\ Summary(cats).ready = left(ListRows({"LIGHTING", "POLE"}, "", TRUE))

(* A page never shows a row under a category its own text does not have:   *)
(* a classification is joined by the payload it was computed from.         *)
ShownCategoryIsTrue ==
  \A k \in Shown : \A c \in Matching(k) : c.cat = rows[k].payload.cat

(* A late classification replaces none that is current: a row that is      *)
(* classified stays so until its payload or the rules change.              *)
StaysClassified ==
  [][\A k \in Shown :
       Matching(k) # {} /\ cur'[k] = cur[k] /\ version' = version => Matching(k)' # {}]_vars

(* A department name of a row was once given by the source for a row of    *)
(* the same organization: no repair imports a name from elsewhere.         *)
NameIsOfOrg ==
  \A k \in Shown : rows[k].dept # "" =>
    \E p \in Payloads : p.org = OrgOf[k] /\ p.name = rows[k].dept

(* Purging keeps what collection needs: a daily scope that is complete and *)
(* inside the window stays complete, or it would be collected again; one   *)
(* that may be resumed keeps the receipts it would be resumed from.        *)
PurgeKeepsProgress ==
  [][pc = "scopes" /\ events' = events =>
       \A s \in Daily : s >= Cutoff =>
         /\ cps[s].status = "COMPLETE" => cps'[s] = cps[s]
         /\ Active(cps[s]) => cps'[s] = cps[s] /\ cps[s].gen \in receipts'[s]]_vars
=============================================================================
