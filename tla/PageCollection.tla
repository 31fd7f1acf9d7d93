--------------------------- MODULE PageCollection ---------------------------
(***************************************************************************)
(* vnext_collection.collect_pages: the resumable, page by page collection  *)
(* of one shopping scope (one source day) into durable page receipts, the  *)
(* normalised shopping records and one checkpoint row.                     *)
(*                                                                         *)
(* Several worker processes may run the collector on the same scope.  Each *)
(* database transaction of the source is split in two steps, a step that   *)
(* performs the reads and a step that performs the writes and commits,     *)
(* because on PostgreSQL "BEGIN IMMEDIATE" is translated to nothing        *)
(* (db.py) and the checkpoint is read without FOR UPDATE.  Two constants   *)
(* choose what protects the gap:                                           *)
(*   Serial     BEGIN IMMEDIATE serialises writers (the SQLite fixture)    *)
(*   Exclusive  the source advisory lease admits one collector at a time   *)
(* With both FALSE the advisory session has been lost while its collector  *)
(* still runs.                                                             *)
(*                                                                         *)
(* A definition named X_Bug is a deliberately wrong variant of X that no   *)
(* action uses: put in the place of X it must break a property below.      *)
(***************************************************************************)
EXTENDS Integers, Sequences, FiniteSets

CONSTANTS
  Procs,        \* collector processes
  Keys,         \* source identities of the scope
  Payloads,     \* payload digests one identity may carry
  Target,       \* the rows preserve_filter accepts (target categories)
  Source,       \* the rows of the scope in the order a settled source pages them
  Sizes,        \* page sizes a caller asks for
  MaxTotal,     \* bound on the totals a disturbed source reports
  MaxGens,      \* bound on the generations minted
  MaxUpsets,    \* bound on disturbances (bad pages, failures, crashes, ...)
  Serial, Exclusive,
  Compacting,   \* values of compact_complete: production passes TRUE and drops the
                \* receipts of a COMPLETE scope, FALSE leaves them to a later call
  Reconcile     \* complete_reconcile is effective: the scope is a single day

Row == [key : Keys, payload : Payloads]

ASSUME ProcsAssumption == IsFiniteSet(Procs)
ASSUME RowsAssumption ==
  /\ IsFiniteSet(Row)
  /\ Target \subseteq Row
  /\ Source \in Seq(Row)
ASSUME SizesAssumption == Sizes \subseteq Nat \ {0}
ASSUME BoundsAssumption == MaxTotal \in Nat /\ MaxGens \in Nat /\ MaxUpsets \in Nat
ASSUME ModeAssumption == {Serial, Exclusive, Reconcile} \cup Compacting \subseteq BOOLEAN

VARIABLES
  cp,        \* the collection_checkpoints row of the scope
  receipts,  \* vnext_collection_pages with their vnext_collection_items
  records,   \* shopping_records: payload and is_active of each identity
  minted,    \* how many generation uuids have been drawn
  upsets,    \* how many disturbances have happened
  pc,        \* where each process is in collect_pages
  obs,       \* observed: the checkpoint a process looked up
  com,       \* committed: the checkpoint values a process believes in
  replay,    \* replay_scope
  resp,      \* the source page a process holds
  problem,   \* the structural problem found in that page
  full,      \* full_page_seen
  outcome    \* status the failure handler will write

vars == <<cp, receipts, records, minted, upsets,
          pc, obs, com, replay, resp, problem, full, outcome>>
durable == <<cp, receipts, records>>
local == <<obs, com, replay, resp, problem, full, outcome>>

-----------------------------------------------------------------------------
(* Data.                                                                   *)

Gens == 1..MaxGens
Reasons == {"", "TOTAL_REACHED", "EMPTY_PAGE", "SHORT_PAGE_UNKNOWN_TOTAL"}
Problems == {"", "SOURCE_TOTAL_DECREASED", "SOURCE_TOTAL_UNDERRUN",
             "PREMATURE_EMPTY_PAGE", "REPEATED_OR_OVERLAPPING_PAGE",
             "OVERSIZED_PAGE", "DUPLICATE_OR_COLLIDING_SOURCE_ID"}
Receipt == [gen : Gens, page : Nat \ {0}, size : Nat \ {0}, rows : SUBSET Row,
            total : Int, reason : Reasons]
NoMarker == {}

(* One checkpoint row.  cursor_value is the meta record: generation,       *)
(* completion reason and compact marker.  The marker's receipt digest is   *)
(* represented by the set of receipts it digests.                          *)
Checkpoint == [gen : 0..MaxGens, reason : Reasons, marker : SUBSET Receipt,
               page : Nat, size : Nat, total : Int, fetched : Nat, saved : Nat,
               status : {"ABSENT", "RUNNING", "FAILED", "INCOMPLETE", "COMPLETE"},
               err : Problems \cup {"ERROR"}]
NoCp == [gen |-> 0, reason |-> "", marker |-> NoMarker, page |-> 0, size |-> 0,
         total |-> -1, fetched |-> 0, saved |-> 0, status |-> "ABSENT", err |-> ""]
NewGeneration_Bug(g, size) ==                    \* fetched_count starts "unknown" too
  [gen |-> g, reason |-> "", marker |-> NoMarker, page |-> 1, size |-> size,
   total |-> -1, fetched |-> -1, saved |-> 0, status |-> "RUNNING", err |-> ""]
NewGeneration(g, size) ==
  [gen |-> g, reason |-> "", marker |-> NoMarker, page |-> 1, size |-> size,
   total |-> -1, fetched |-> 0, saved |-> 0, status |-> "RUNNING", err |-> ""]

Response == [rows : SUBSET Row, total : Nat]
NoResponse == [rows |-> {}, total |-> 0]
Record == [payload : Payloads \cup {"none"}, active : BOOLEAN]
NoRecord == [payload |-> "none", active |-> FALSE]

Cursor(c) == <<c.gen, c.reason, c.marker>>
KeysOf(rows) == {r.key : r \in rows}
PagesOf(rs, g) == {r \in rs : r.gen = g}
ItemsOf(rs, g) == UNION {r.rows : r \in PagesOf(rs, g)}

-----------------------------------------------------------------------------
(* Pure decisions of the page loop.                                        *)

Replayable == {"SOURCE_TOTAL_DECREASED", "SOURCE_TOTAL_UNDERRUN",
               "PREMATURE_EMPTY_PAGE", "REPEATED_OR_OVERLAPPING_PAGE"}

Drifted_Bug(c) == FALSE                          \* drift is resumed like any failure
Drifted(c) == c.status = "INCOMPLETE" /\ c.err \in Replayable

(* A total of zero, or none, is "unknown" and keeps what was known.        *)
Known(r) == IF r.total > 0 THEN r.total ELSE -1
PageTotal_Bug(c, r) == Known(r)                  \* a page without a total forgets it
PageTotal(c, r) == IF Known(r) > c.total THEN Known(r) ELSE c.total

(* The later test of the source overwrites the earlier one.                *)
SourceProblem(c, r) ==
  LET total   == PageTotal(c, r)
      fetched == c.fetched + Cardinality(r.rows)
  IN  IF r.rows = {} /\ total > 0 /\ fetched < total THEN "PREMATURE_EMPTY_PAGE"
      ELSE IF total > 0 /\ fetched > total THEN "SOURCE_TOTAL_UNDERRUN"
      ELSE IF Cardinality(r.rows) > c.size THEN "OVERSIZED_PAGE"
      ELSE IF Cardinality(KeysOf(r.rows)) # Cardinality(r.rows)
           THEN "DUPLICATE_OR_COLLIDING_SOURCE_ID"
      ELSE IF Known(r) > 0 /\ Known(r) < c.total THEN "SOURCE_TOTAL_DECREASED"
      ELSE ""

(* Why a page ends the scope, "" when it does not: fetched counts the page *)
(* itself, n is its length.                                                *)
DoneReason_Bug(total, fetched, n, size, fullSeen) ==
  IF n < size THEN "SHORT_PAGE_UNKNOWN_TOTAL"    \* short pages end known totals too
  ELSE IF total > 0 /\ fetched = total THEN "TOTAL_REACHED" ELSE ""
DoneReason(total, fetched, n, size, fullSeen) ==
  IF total > 0 THEN IF fetched = total THEN "TOTAL_REACHED" ELSE ""
  ELSE IF n = 0 THEN "EMPTY_PAGE"
  ELSE IF n < size /\ fullSeen THEN "SHORT_PAGE_UNKNOWN_TOTAL"
  ELSE ""

ReasonOf(c, r, fullSeen) ==
  DoneReason(PageTotal(c, r), c.fetched + Cardinality(r.rows),
             Cardinality(r.rows), c.size, fullSeen)

-----------------------------------------------------------------------------
(* The verifier (_verified_checkpoint, verified_compact_completion).       *)

UpTo(rs, n) == {r \in rs : r.page <= n}

(* The receipts rs prove the counters of checkpoint c, page after page.    *)
ReceiptsProve(rs, c, complete) ==
  LET pages == {r.page : r \in rs}
      items == UNION {r.rows : r \in rs}
      countTo(n) == Cardinality(UNION {r.rows : r \in UpTo(rs, n)})
      fullBefore(n) == \E r \in UpTo(rs, n - 1) : Cardinality(r.rows) = r.size
  IN  /\ pages = 1..(c.page - 1)
      /\ Cardinality(rs) = c.page - 1
      /\ c.fetched = Cardinality(items)
      /\ c.saved = Cardinality(items \cap Target)
      /\ \A r \in rs :
           /\ r.size = c.size /\ Cardinality(r.rows) <= c.size
           /\ \A s \in rs : s.page > r.page /\ r.total > 0 => s.total >= r.total
           /\ r.total > 0 => countTo(r.page) <= r.total
           /\ r.total > 0 /\ r.rows = {} => countTo(r.page) = r.total
           /\ r.reason = DoneReason(r.total, countTo(r.page), Cardinality(r.rows),
                                    r.size, fullBefore(r.page))
           /\ r.reason # "" => r.page = c.page - 1
           /\ r.page = c.page - 1 => r.total = c.total /\ r.reason = c.reason
      /\ rs = {} => c.total = -1 /\ c.reason = ""
      /\ complete <=> c.reason # ""

(* Every stored item still has a record with the payload the receipt saw.  *)
RecordsBind(rs) ==
  \A i \in (UNION {r.rows : r \in rs}) \cap Target : records[i.key].payload = i.payload

Verified(c, complete) ==
  /\ c.status \in IF complete THEN {"COMPLETE"} ELSE {"RUNNING", "FAILED", "INCOMPLETE"}
  /\ ReceiptsProve(PagesOf(receipts, c.gen), c, complete)
  /\ RecordsBind(PagesOf(receipts, c.gen))

(* The marker's copied counters equal the checkpoint's by construction; the *)
(* remaining tests concern the completion reason.                          *)
VerifiedCompact(c) ==
  /\ c.status = "COMPLETE" /\ c.marker # NoMarker
  /\ c.page >= 2 /\ c.saved <= c.fetched
  /\ \/ c.reason = "TOTAL_REACHED" /\ c.total > 0 /\ c.fetched = c.total
     \/ c.reason = "EMPTY_PAGE" /\ c.total < 0
     \/ c.reason = "SHORT_PAGE_UNKNOWN_TOTAL" /\ c.total < 0 /\ c.fetched > 0

-----------------------------------------------------------------------------
TypeOK ==
  /\ cp \in Checkpoint
  /\ receipts \subseteq Receipt
  /\ records \in [Keys -> Record]
  /\ minted \in 0..MaxGens
  /\ upsets \in 0..MaxUpsets
  /\ pc \in [Procs -> {"idle", "verify", "compact", "start", "startw", "opened",
                       "loop", "page", "pagew", "failing", "failw"}]
  /\ obs \in [Procs -> Checkpoint]
  /\ com \in [Procs -> Checkpoint]
  /\ replay \in [Procs -> BOOLEAN]
  /\ resp \in [Procs -> Response]
  /\ problem \in [Procs -> Problems]
  /\ full \in [Procs -> BOOLEAN]
  /\ outcome \in [Procs -> {"FAILED", "INCOMPLETE"}]

Init ==
  /\ cp = NoCp
  /\ receipts = {}
  /\ records = [k \in Keys |-> NoRecord]
  /\ minted = 0
  /\ upsets = 0
  /\ pc = [p \in Procs |-> "idle"]
  /\ obs = [p \in Procs |-> NoCp]
  /\ com = [p \in Procs |-> NoCp]
  /\ replay = [p \in Procs |-> FALSE]
  /\ resp = [p \in Procs |-> NoResponse]
  /\ problem = [p \in Procs |-> ""]
  /\ full = [p \in Procs |-> FALSE]
  /\ outcome = [p \in Procs |-> "FAILED"]

Go(p, at) == pc' = [pc EXCEPT ![p] = at]

(* collect_pages returns, raises or dies: its locals are gone.             *)
Leave(p) ==
  /\ Go(p, "idle")
  /\ obs' = [obs EXCEPT ![p] = NoCp]
  /\ com' = [com EXCEPT ![p] = NoCp]
  /\ replay' = [replay EXCEPT ![p] = FALSE]
  /\ resp' = [resp EXCEPT ![p] = NoResponse]
  /\ problem' = [problem EXCEPT ![p] = ""]
  /\ full' = [full EXCEPT ![p] = FALSE]
  /\ outcome' = [outcome EXCEPT ![p] = "FAILED"]

Upset == upsets < MaxUpsets /\ upsets' = upsets + 1

InTxn(p) == pc[p] \in {"startw", "pagew", "failw"}
(* BEGIN IMMEDIATE: effective on SQLite, a no-op on PostgreSQL.            *)
CanBegin(p) == Serial => \A q \in Procs \ {p} : ~InTxn(q)
(* The advisory lease: nobody else is inside collect_pages.                *)
LeaseFree(p) == Exclusive => \A q \in Procs \ {p} : pc[q] = "idle"

PlanNewGeneration_Bug(p, size, isReplay) ==      \* restarts inside the old generation
  /\ minted < MaxGens
  /\ minted' = minted + 1
  /\ com' = [com EXCEPT ![p] = NewGeneration(IF cp.gen = 0 THEN minted + 1 ELSE cp.gen, size)]
  /\ replay' = [replay EXCEPT ![p] = isReplay]
  /\ Go(p, "start")

(* generation = uuid4().hex: a value nobody has drawn before.              *)
PlanNewGeneration(p, size, isReplay) ==
  /\ minted < MaxGens
  /\ minted' = minted + 1
  /\ com' = [com EXCEPT ![p] = NewGeneration(minted + 1, size)]
  /\ replay' = [replay EXCEPT ![p] = isReplay]
  /\ Go(p, "start")

-----------------------------------------------------------------------------
(* Opening a scope.                                                        *)

(* lookup, then the checks that need the looked-up checkpoint only.  A     *)
(* changed page size raises and a compact COMPLETE scope returns: neither  *)
(* changes any state.                                                      *)
Lookup(p, resume, size) ==
  /\ pc[p] = "idle" /\ LeaseFree(p)
  /\ obs' = [obs EXCEPT ![p] = cp]
  /\ UNCHANGED <<durable, resp, problem, full, outcome>>
  /\ \/ /\ ~resume
        /\ cp.status # "ABSENT" => Upset
        /\ cp.status = "ABSENT" => UNCHANGED upsets
        /\ PlanNewGeneration(p, size, FALSE)
     \/ /\ resume /\ (cp.status = "ABSENT" \/ Drifted(cp))
        /\ UNCHANGED upsets
        /\ PlanNewGeneration(p, size, Drifted(cp))
     \/ /\ resume /\ cp.status # "ABSENT" /\ ~Drifted(cp)
        /\ cp.size = size
        /\ ~VerifiedCompact(cp)
        /\ Go(p, "verify")
        /\ UNCHANGED <<upsets, minted, com, replay>>

(* The receipts are read in a transaction of their own, after the lookup.  *)
Verify(p) ==
  /\ pc[p] = "verify"
  /\ UNCHANGED <<durable, upsets, resp, problem, full, outcome>>
  /\ \/ /\ Verified(obs[p], TRUE) /\ TRUE \in Compacting
        /\ Go(p, "compact")
        /\ UNCHANGED <<minted, obs, com, replay>>
     \/ /\ Verified(obs[p], TRUE) /\ FALSE \in Compacting
        /\ Go(p, "idle")
        /\ obs' = [obs EXCEPT ![p] = NoCp]
        /\ UNCHANGED <<minted, com, replay>>
     \/ /\ Verified(obs[p], FALSE)
        /\ com' = [com EXCEPT ![p] = [obs[p] EXCEPT !.status = "RUNNING", !.err = ""]]
        /\ Go(p, "start")
        /\ UNCHANGED <<minted, obs, replay>>
     \/ /\ ~Verified(obs[p], TRUE) /\ ~Verified(obs[p], FALSE)
        /\ PlanNewGeneration(p, obs[p].size, FALSE)
        /\ UNCHANGED obs

(* compact_verified_terminal_receipt: its UPDATE carries the comparison in *)
(* its WHERE clause, so it is one atomic step on either database.          *)
CompactReceipts(p) ==
  LET mine == PagesOf(receipts, obs[p].gen)
  IN  /\ pc[p] = "compact" /\ CanBegin(p)
      /\ IF /\ cp.status = "COMPLETE" /\ Cursor(cp) = Cursor(obs[p])
            /\ Cardinality(mine) = obs[p].page - 1
         THEN /\ cp' = [cp EXCEPT !.marker = mine]
              /\ receipts' = receipts \ mine
         ELSE UNCHANGED <<cp, receipts>>
      /\ Leave(p)
      /\ UNCHANGED <<records, minted, upsets>>

(* The fields the starting compare-and-set looks at.                       *)
SameStart(c, d) ==
  /\ Cursor(c) = Cursor(d) /\ c.page = d.page /\ c.fetched = d.fetched
  /\ c.saved = d.saved /\ c.status = d.status

StartRead(p) ==
  /\ pc[p] = "start" /\ CanBegin(p)
  /\ IF SameStart(cp, obs[p])
     THEN Go(p, "startw") /\ UNCHANGED local
     ELSE Leave(p)                                \* CONCURRENT_CHECKPOINT_CHANGED
  /\ UNCHANGED <<durable, minted, upsets>>

StartWrite(p) ==
  /\ pc[p] = "startw"
  /\ cp' = com[p]
  /\ receipts' = IF replay[p] THEN {} ELSE receipts
  /\ Go(p, "opened")
  /\ UNCHANGED <<records, minted, upsets, local>>

ScanFullPage(p) ==
  /\ pc[p] = "opened"
  /\ full' = [full EXCEPT ![p] = \E r \in PagesOf(receipts, com[p].gen) :
                                    Cardinality(r.rows) = r.size]
  /\ Go(p, "loop")
  /\ UNCHANGED <<durable, minted, upsets, obs, com, replay, resp, problem, outcome>>

-----------------------------------------------------------------------------
(* The page loop.                                                          *)

SettledPage(n, size) ==
  [rows  |-> {Source[i] : i \in {j \in DOMAIN Source : j > (n - 1) * size /\ j <= n * size}},
   total |-> Len(Source)]
DisturbedPages == [rows : SUBSET Row, total : 0..MaxTotal]

Fetch(p) ==
  /\ pc[p] = "loop"
  /\ \/ /\ resp' = [resp EXCEPT ![p] = SettledPage(com[p].page, com[p].size)]
        /\ UNCHANGED upsets
     \/ /\ Upset
        /\ \E r \in DisturbedPages : resp' = [resp EXCEPT ![p] = r]
  /\ problem' = [problem EXCEPT ![p] = SourceProblem(com[p], resp'[p])]
  /\ Go(p, "page")
  /\ UNCHANGED <<durable, minted, obs, com, replay, full, outcome>>

(* max_pages is spent: collect_pages returns with the checkpoint RUNNING.  *)
SpendPageBudget(p) ==
  /\ pc[p] = "loop"
  /\ Upset
  /\ Leave(p)
  /\ UNCHANGED <<durable, minted>>

Fail(p, status) ==
  /\ outcome' = [outcome EXCEPT ![p] = status]
  /\ Go(p, "failing")
  /\ UNCHANGED <<obs, com, replay, resp, problem, full>>

(* A memory hold, or an error of the source, before the page transaction.  *)
Interrupt(p) ==
  /\ pc[p] \in {"loop", "page"}
  /\ Upset
  /\ \E status \in {"FAILED", "INCOMPLETE"} : Fail(p, status)
  /\ UNCHANGED <<durable, minted>>

(* What the page transaction and the failure handler compare; the page     *)
(* transaction also wants the status RUNNING.                              *)
SamePage(c, d) == Cursor(c) = Cursor(d) /\ c.page = d.page /\ c.fetched = d.fetched

PageRead(p) ==
  /\ pc[p] = "page" /\ CanBegin(p)
  /\ IF SamePage(cp, com[p]) /\ cp.status = "RUNNING"
     THEN /\ problem' = [problem EXCEPT ![p] =
                IF KeysOf(resp[p].rows) \cap KeysOf(ItemsOf(receipts, com[p].gen)) # {}
                THEN "REPEATED_OR_OVERLAPPING_PAGE" ELSE @]
          /\ Go(p, "pagew")
          /\ UNCHANGED <<obs, com, replay, resp, full, outcome>>
     ELSE Fail(p, "FAILED")                       \* CONCURRENT_CHECKPOINT_CHANGED
  /\ UNCHANGED <<durable, minted, upsets>>

(* A structurally unsafe page stores nothing and stops the scope.          *)
StopPage(p) ==
  /\ pc[p] = "pagew" /\ problem[p] # ""
  /\ cp' = [com[p] EXCEPT !.status = "INCOMPLETE", !.err = problem[p]]
  /\ Leave(p)
  /\ UNCHANGED <<receipts, records, minted, upsets>>

NewReceipt(p) ==
  [gen |-> com[p].gen, page |-> com[p].page, size |-> com[p].size,
   rows |-> resp[p].rows, total |-> PageTotal(com[p], resp[p]),
   reason |-> ReasonOf(com[p], resp[p], full[p])]

(* The primary keys of the two receipt tables.                             *)
KeyConflict(p) ==
  \/ \E r \in PagesOf(receipts, com[p].gen) : r.page = com[p].page
  \/ KeysOf(resp[p].rows) \cap KeysOf(ItemsOf(receipts, com[p].gen)) # {}

ScanEnds(p) == ReasonOf(com[p], resp[p], full[p]) # ""
Fetched(p) == com[p].fetched + Cardinality(resp[p].rows)

CountMismatch_Bug(p) == FALSE                    \* deactivates without counting

(* reconcile_complete_scope counts the receipts before it deactivates.     *)
CountMismatch(p) ==
  /\ ScanEnds(p) /\ Reconcile /\ Fetched(p) # 0
  /\ Cardinality(ItemsOf(receipts \cup {NewReceipt(p)}, com[p].gen)) # Fetched(p)

(* The transaction fails as a whole and the failure handler runs.          *)
PageRollback(p) ==
  /\ pc[p] = "pagew" /\ problem[p] = ""
  /\ KeyConflict(p) \/ CountMismatch(p)
  /\ Fail(p, "FAILED")
  /\ UNCHANGED <<durable, minted, upsets>>

PageAccepted(p) ==
  /\ pc[p] = "pagew" /\ problem[p] = ""
  /\ ~KeyConflict(p) /\ ~CountMismatch(p)

(* preserve_record of the target rows of the page.                         *)
Preserved(rows) ==
  [k \in Keys |->
     IF \E i \in rows \cap Target : i.key = k
     THEN [payload |-> (CHOOSE i \in rows \cap Target : i.key = k).payload, active |-> TRUE]
     ELSE records[k]]

NextCommitted_Bug(p) ==                          \* page_no is not advanced
  [com[p] EXCEPT !.total = PageTotal(com[p], resp[p]), !.fetched = Fetched(p),
                 !.saved = @ + Cardinality(resp[p].rows \cap Target)]
NextCommitted(p) ==
  [com[p] EXCEPT !.page = @ + 1, !.total = PageTotal(com[p], resp[p]),
                 !.fetched = Fetched(p),
                 !.saved = @ + Cardinality(resp[p].rows \cap Target)]

CommitPage(p) ==
  /\ PageAccepted(p) /\ ~ScanEnds(p)
  /\ receipts' = receipts \cup {NewReceipt(p)}
  /\ records' = Preserved(resp[p].rows)
  /\ cp' = NextCommitted(p)
  /\ com' = [com EXCEPT ![p] = NextCommitted(p)]
  /\ full' = [full EXCEPT ![p] = @ \/ Cardinality(resp[p].rows) = com[p].size]
  /\ resp' = [resp EXCEPT ![p] = NoResponse]
  /\ problem' = [problem EXCEPT ![p] = ""]
  /\ Go(p, "loop")
  /\ UNCHANGED <<minted, upsets, obs, replay, outcome>>

Deactivated_Bug(recs, items, fetched) ==         \* an empty scan deactivates the day
  [k \in Keys |->
     IF Reconcile /\ ~\E i \in items \cap Target : i.key = k
     THEN [recs[k] EXCEPT !.active = FALSE] ELSE recs[k]]

(* After the last page the day's records the generation did not store      *)
(* become inactive; an empty scan deactivates nothing.                     *)
Deactivated(recs, items, fetched) ==
  [k \in Keys |->
     IF Reconcile /\ fetched # 0 /\ ~\E i \in items \cap Target : i.key = k
     THEN [recs[k] EXCEPT !.active = FALSE] ELSE recs[k]]

FinishScope(p) ==
  LET all  == receipts \cup {NewReceipt(p)}
      mine == PagesOf(all, com[p].gen)
  IN  /\ PageAccepted(p) /\ ScanEnds(p)
      /\ records' = Deactivated(Preserved(resp[p].rows), ItemsOf(all, com[p].gen), Fetched(p))
      /\ \E compact \in Compacting :
           /\ cp' = [NextCommitted(p) EXCEPT
                       !.status = "COMPLETE",
                       !.reason = ReasonOf(com[p], resp[p], full[p]),
                       !.marker = IF compact THEN mine ELSE NoMarker]
           /\ receipts' = IF compact THEN all \ mine ELSE all
      /\ Leave(p)
      /\ UNCHANGED <<minted, upsets>>

-----------------------------------------------------------------------------
(* The failure handler: it compares the cursor and the counters but not    *)
(* the status.                                                             *)
FailRead(p) ==
  /\ pc[p] = "failing" /\ CanBegin(p)
  /\ IF SamePage(cp, com[p]) THEN Go(p, "failw") /\ UNCHANGED local ELSE Leave(p)
  /\ UNCHANGED <<durable, minted, upsets>>

FailWrite(p) ==
  /\ pc[p] = "failw"
  /\ cp' = [com[p] EXCEPT !.status = outcome[p], !.err = "ERROR"]
  /\ Leave(p)
  /\ UNCHANGED <<receipts, records, minted, upsets>>

(* The child process is killed: its open transaction is rolled back.       *)
Crash(p) ==
  /\ pc[p] # "idle"
  /\ Upset
  /\ Leave(p)
  /\ UNCHANGED <<durable, minted>>

Work(p) ==
  \/ Verify(p) \/ CompactReceipts(p) \/ StartRead(p) \/ StartWrite(p)
  \/ ScanFullPage(p) \/ Fetch(p) \/ PageRead(p) \/ StopPage(p)
  \/ PageRollback(p) \/ CommitPage(p) \/ FinishScope(p)
  \/ FailRead(p) \/ FailWrite(p)

Next ==
  \E p \in Procs :
    \/ \E resume \in BOOLEAN, size \in Sizes : Lookup(p, resume, size)
    \/ Work(p)
    \/ SpendPageBudget(p) \/ Interrupt(p) \/ Crash(p)

Spec == Init /\ [][Next]_vars

(* The scheduler keeps calling the collector with resume=True; the lease   *)
(* and the processes never stay stuck.  Disturbances have no fairness.     *)
Attempt(p) == Work(p) \/ \E size \in Sizes : Lookup(p, TRUE, size)
FairSpec == Spec /\ WF_vars(\E p \in Procs : Attempt(p))

-----------------------------------------------------------------------------
(* Properties.                                                             *)

(* The receipts that support the checkpoint: stored, or digested in the    *)
(* compact marker.                                                         *)
Evidence == IF cp.marker # NoMarker THEN cp.marker ELSE PagesOf(receipts, cp.gen)
EvidenceItems == UNION {r.rows : r \in Evidence}

(* Page receipts and checkpoint move together: as long as the receipts are *)
(* kept, they are exactly the pages before the checkpoint's next page and  *)
(* hold exactly the rows its counter claims.                               *)
ReceiptChain ==
  cp.status # "ABSENT" /\ cp.marker = NoMarker =>
    /\ {r.page : r \in PagesOf(receipts, cp.gen)} = 1..(cp.page - 1)
    /\ cp.fetched = Cardinality(ItemsOf(receipts, cp.gen))

(* What the page loop writes is what the verifier of a later process       *)
(* accepts: no restart ever throws away an honest partial scope, and a     *)
(* COMPLETE scope is recognised as complete with or without its receipts.  *)
WriterMeetsVerifier ==
  /\ cp.status \in {"RUNNING", "FAILED", "INCOMPLETE"} => Verified(cp, FALSE)
  /\ cp.status = "COMPLETE" => ReceiptsProve(Evidence, cp, TRUE)
  /\ cp.status = "COMPLETE" /\ cp.marker # NoMarker => VerifiedCompact(cp)

(* A COMPLETE scope was covered by one generation: every page from the     *)
(* first to the last, and as many rows as the source announced.  This one  *)
(* must survive even two collectors without lease on PostgreSQL.           *)
CompleteIsCovered ==
  cp.status = "COMPLETE" =>
    /\ {r.page : r \in Evidence} = 1..(cp.page - 1)
    /\ cp.fetched = Cardinality(EvidenceItems)
    /\ cp.total > 0 => cp.fetched = cp.total

(* A record becomes inactive only in the step that completes a scan which  *)
(* covered the whole scope, saw at least one row and did not store that    *)
(* identity.                                                               *)
DeactivationIsProven ==
  [][\A k \in Keys : records[k].active /\ ~records'[k].active =>
       /\ cp'.status = "COMPLETE" /\ cp'.fetched > 0
       /\ {r.page : r \in Evidence'} = 1..(cp'.page - 1)
       /\ Cardinality(EvidenceItems') = cp'.fetched
       /\ ~\E i \in EvidenceItems' \cap Target : i.key = k]_vars

(* Once disturbances stop, repeated collection completes the scope and it  *)
(* stays complete.                                                         *)
EventuallyComplete == <>[](cp.status = "COMPLETE")

(* The collection promises what ScopeIngestion says of one scope.          *)
Ingestion == INSTANCE ScopeIngestion WITH
  Rows  <- Row,
  phase <- IF cp.status = "ABSENT" THEN "none"
           ELSE IF cp.status = "COMPLETE" THEN "done" ELSE "open",
  have  <- EvidenceItems,
  announced <- cp.total
RefinesIngestion == Ingestion!Spec

=============================================================================
