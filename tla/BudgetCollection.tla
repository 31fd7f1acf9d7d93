-------------------------- MODULE BudgetCollection --------------------------
(***************************************************************************)
(* The collection of one LOFIN budget snapshot on PostgreSQL:              *)
(* budget_pg_collection.collect_pages and what budget_vnext.               *)
(* collect_full_budget does after it.  The scheme is that of               *)
(* PageCollection (receipts and a checkpoint, committed page by page), the *)
(* protocol is not: the claim locks the checkpoint row, the old receipts   *)
(* are deleted before the claim, the failure handler works in two          *)
(* transactions, only an overlap is replayed and only once, and rows of a  *)
(* refused page are kept as current state.                                 *)
(*                                                                         *)
(* The isolation is READ COMMITTED: a step that reads and a later step     *)
(* that writes belong to one transaction but see what others committed in  *)
(* between, unless the row was locked.  Exclusive says that the budget     *)
(* lease admits one collector at a time.                                   *)
(*                                                                         *)
(* A scope given up as exhausted is read region by region and then marked; *)
(* one that a newer snapshot has overtaken is superseded.  Both write the  *)
(* checkpoint row beside the collector.                                    *)
(*                                                                         *)
(* A definition named X_Bug is a deliberately wrong variant of X that no   *)
(* action uses: put in the place of X it must break a property below.      *)
(***************************************************************************)
EXTENDS Integers, Sequences, FiniteSets

CONSTANTS
  Procs,      \* collector processes
  Keys,       \* source identities of the snapshot
  Payloads,   \* payload digests one identity may carry
  Source,     \* the rows of the snapshot in the order a settled source pages them
  Size,       \* the page size
  Kinds,      \* "current" scopes advance the current state, "history" scopes do not
  Old,        \* a payload left by an earlier snapshot
  MaxTotal,   \* bound on the totals a disturbed source reports
  MaxGens,    \* bound on the generations minted
  MaxUpsets,  \* bound on disturbances (bad pages, failures, crashes, ...)
  Exclusive

Row == [key : Keys, payload : Payloads]
ASSUME DataAssumption ==
  /\ IsFiniteSet(Procs) /\ IsFiniteSet(Row)
  /\ Source \in Seq(Row) /\ Old \in Payloads /\ "none" \notin Payloads
  /\ Kinds \subseteq {"current", "history"} /\ Exclusive \in BOOLEAN
ASSUME BoundsAssumption ==
  Size \in Nat \ {0} /\ MaxTotal \in Nat /\ MaxGens \in Nat /\ MaxUpsets \in Nat

VARIABLES
  kind,      \* which of the two kinds the scope is; never changes
  cp,        \* the checkpoint row of the scope
  receipts,  \* the page receipts with their items, all generations
  states,    \* the current payload of every key, "none" without one
  minted,    \* how many generation uuids have been drawn
  upsets,    \* how many disturbances have happened
  pc,        \* where each process is
  obs,       \* observed
  com,       \* committed
  replay,    \* replay_scope
  resp,      \* the source page a process holds
  problem,   \* the problem found in that page
  full       \* full_page_seen

durable == <<kind, cp, receipts, states>>
local == <<obs, com, replay, resp, problem, full>>
vars == <<durable, minted, upsets, pc, local>>

-----------------------------------------------------------------------------
Overlap == "REPEATED_OR_OVERLAPPING_PAGE"
Exhausted == "REPEATED_OR_OVERLAPPING_PAGE_REPLAY_EXHAUSTED"
Partitioned == "REGION_PARTITION_PLAN_COMPLETE"
Overtaken == "SUPERSEDED_BY_COMPLETE_SNAPSHOT"
Problems == {"", Overlap, Exhausted, "SOURCE_TOTAL_CHANGED", "OVERSIZED_PAGE",
             "DUPLICATE_OR_COLLIDING_SOURCE_ID", "SOURCE_TOTAL_UNDERRUN",
             "PREMATURE_EMPTY_PAGE"}
Reasons == {"", "TOTAL_REACHED", "EMPTY_PAGE", "SHORT_PAGE_UNKNOWN_TOTAL"}
Unfinished == {"RUNNING", "FAILED", "INCOMPLETE"}
Statuses == Unfinished \cup {"ABSENT", "COMPLETE", "PARTITION_COMPLETE", "SUPERSEDED"}
ReplayLimit == 1

Receipt == [gen : 1..MaxGens, page : Nat \ {0}, rows : SUBSET Row, total : Int,
            reason : Reasons]
(* saved_count always equals fetched_count and is left out.                *)
Checkpoint == [gen : 0..MaxGens, reason : Reasons, replays : 0..ReplayLimit, page : Nat,
               total : Int, fetched : Nat, status : Statuses, err : Problems \cup {"ERROR", Partitioned, Overtaken}]
NoCp == [gen |-> 0, reason |-> "", replays |-> 0, page |-> 0, total |-> -1,
         fetched |-> 0, status |-> "ABSENT", err |-> ""]
NoResponse == [rows |-> {}, total |-> 0]

KeysOf(rows) == {r.key : r \in rows}
PagesOf(g) == {r \in receipts : r.gen = g}
ItemsOf(g) == UNION {r.rows : r \in PagesOf(g)}

-----------------------------------------------------------------------------
(* The verifier.  Every item has its revision, because both are inserted   *)
(* by the same transaction; the current state of its key may have moved on.*)
DoneReason_Bug(total, fetched, n, fullSeen) ==    \* short pages end known totals too
  IF n < Size THEN "SHORT_PAGE_UNKNOWN_TOTAL"
  ELSE IF total > 0 /\ fetched = total THEN "TOTAL_REACHED" ELSE ""
DoneReason(total, fetched, n, fullSeen) ==
  IF total > 0 THEN IF fetched = total THEN "TOTAL_REACHED" ELSE ""
  ELSE IF n = 0 THEN "EMPTY_PAGE"
  ELSE IF n < Size /\ fullSeen THEN "SHORT_PAGE_UNKNOWN_TOTAL"
  ELSE ""

ReceiptsProve(rs, c) ==
  LET upTo(n)   == UNION {r.rows : r \in {s \in rs : s.page <= n}}
      full_(n)  == \E r \in rs : r.page < n /\ Cardinality(r.rows) = Size
  IN  /\ {r.page : r \in rs} = 1..(c.page - 1) /\ Cardinality(rs) = c.page - 1
      /\ c.fetched = Cardinality(UNION {r.rows : r \in rs})
      /\ \A r \in rs :
           /\ Cardinality(r.rows) <= Size
           /\ \A s \in rs : s.page > r.page /\ r.total > 0 => s.total = r.total
           /\ r.reason = DoneReason(r.total, Cardinality(upTo(r.page)),
                                    Cardinality(r.rows), full_(r.page))
           /\ r.reason # "" => r.page = c.page - 1
           /\ r.page = c.page - 1 => r.total = c.total /\ r.reason = c.reason
      /\ rs = {} => c.total = -1 /\ c.reason = ""
      /\ c.status = "COMPLETE" <=> c.reason # ""

CurrentBinds(rs) == \A i \in UNION {r.rows : r \in rs} : states[i.key] = i.payload

Verified_Bug(c) == TRUE                           \* believes the checkpoint
Verified(c) ==
  /\ ReceiptsProve(PagesOf(c.gen), c)
  /\ kind = "current" => CurrentBinds(PagesOf(c.gen))

-----------------------------------------------------------------------------
(* Besides the types: only a replayed scope is exhausted, only a scope that *)
(* was not replayed stops on a first overlap.                              *)
TypeOK ==
  /\ cp.err = Exhausted => cp.replays = ReplayLimit
  /\ cp.err = Overlap => cp.replays < ReplayLimit
  /\ kind \in Kinds
  /\ cp \in Checkpoint /\ receipts \subseteq Receipt
  /\ states \in [Keys -> Payloads \cup {"none"}]
  /\ minted \in 0..MaxGens /\ upsets \in 0..MaxUpsets
  /\ pc \in [Procs -> {"idle", "verify", "clear", "start", "opened", "loop", "page",
                       "pagew", "failing", "failw", "reconcile", "compact", "mark"}]
  /\ obs \in [Procs -> Checkpoint] /\ com \in [Procs -> Checkpoint]
  /\ replay \in [Procs -> BOOLEAN] /\ full \in [Procs -> BOOLEAN]
  /\ resp \in [Procs -> [rows : SUBSET Row, total : Nat]]
  /\ problem \in [Procs -> Problems]

Init ==
  /\ kind \in Kinds /\ cp = NoCp /\ receipts = {}
  /\ \E payload \in {"none", Old} : states = [k \in Keys |-> payload]
  /\ minted = 0 /\ upsets = 0
  /\ pc = [p \in Procs |-> "idle"]
  /\ obs = [p \in Procs |-> NoCp] /\ com = [p \in Procs |-> NoCp]
  /\ replay = [p \in Procs |-> FALSE] /\ full = [p \in Procs |-> FALSE]
  /\ resp = [p \in Procs |-> NoResponse] /\ problem = [p \in Procs |-> ""]

Go(p, at) == pc' = [pc EXCEPT ![p] = at]

(* collect_pages has returned or raised, or the process died: its locals   *)
(* are gone.                                                               *)
LeaveTo(p, at) ==
  /\ Go(p, at)
  /\ obs' = [obs EXCEPT ![p] = NoCp] /\ com' = [com EXCEPT ![p] = NoCp]
  /\ replay' = [replay EXCEPT ![p] = FALSE] /\ full' = [full EXCEPT ![p] = FALSE]
  /\ resp' = [resp EXCEPT ![p] = NoResponse] /\ problem' = [problem EXCEPT ![p] = ""]
Leave(p) == LeaveTo(p, "idle")

Upset == upsets < MaxUpsets /\ upsets' = upsets + 1
LeaseFree(p) == Exclusive => \A q \in Procs \ {p} : pc[q] = "idle"

-----------------------------------------------------------------------------
(* Opening a scope.                                                        *)

Drifted_Bug(c) == FALSE                           \* an overlap resumes at its cursor
Drifted(c) == c.status = "INCOMPLETE" /\ c.err = Overlap /\ c.replays < ReplayLimit
GaveUp_Bug(c) == FALSE                            \* an exhausted scope is resumed
GaveUp(c) == c.err = Exhausted
Resumable_Bug(c) == c.status \notin {"ABSENT", "COMPLETE"}
Resumable(c) == c.status \in Unfinished

(* A new generation.  Its uuid was never drawn before; the old receipts    *)
(* are cleared first, except when an overlap is replayed.                  *)
NewScope(p, isReplay, replays) ==
  /\ minted < MaxGens /\ minted' = minted + 1
  /\ com' = [com EXCEPT ![p] = [NoCp EXCEPT !.gen = minted + 1, !.page = 1,
                                            !.replays = replays, !.status = "RUNNING"]]
  /\ replay' = [replay EXCEPT ![p] = isReplay]
  /\ Go(p, IF isReplay THEN "start" ELSE "clear")

(* get_checkpoint and the checks that need nothing else.  The schedule     *)
(* does not come back to a history scope that is COMPLETE.                 *)
Lookup(p, resume) ==
  /\ pc[p] = "idle" /\ LeaseFree(p)
  /\ kind = "history" => cp.status # "COMPLETE"
  /\ obs' = [obs EXCEPT ![p] = cp]
  /\ \/ /\ ~resume /\ cp.status # "ABSENT" /\ Upset      \* an explicit replay
        /\ NewScope(p, FALSE, 0)
     \/ /\ resume /\ cp.status = "ABSENT"
        /\ NewScope(p, FALSE, 0) /\ UNCHANGED upsets
     \/ /\ resume /\ Drifted(cp)
        /\ NewScope(p, TRUE, cp.replays + 1) /\ UNCHANGED upsets
     \/ /\ resume /\ cp.status # "ABSENT" /\ ~Drifted(cp) /\ ~GaveUp(cp)
        /\ Go(p, "verify")
        /\ UNCHANGED <<upsets, minted, com, replay>>
  /\ UNCHANGED <<durable, resp, problem, full>>

Verify(p) ==
  /\ pc[p] = "verify"
  /\ \/ /\ Verified(obs[p]) /\ obs[p].status = "COMPLETE"
        /\ LeaveTo(p, "reconcile") /\ UNCHANGED minted
     \/ /\ Verified(obs[p]) /\ Resumable(obs[p])
        /\ com' = [com EXCEPT ![p] = [obs[p] EXCEPT !.status = "RUNNING", !.err = ""]]
        /\ Go(p, "start")
        /\ UNCHANGED <<minted, obs, replay, resp, problem, full>>
     \/ /\ ~Verified(obs[p]) \/ ~(obs[p].status = "COMPLETE" \/ Resumable(obs[p]))
        /\ NewScope(p, FALSE, 0)
        /\ UNCHANGED <<obs, resp, problem, full>>
  /\ UNCHANGED <<durable, upsets>>

(* clear_collection_receipts: every generation, in one transaction.        *)
Clear(p) ==
  /\ pc[p] = "clear" /\ Go(p, "start")
  /\ receipts' = {}
  /\ UNCHANGED <<kind, cp, states, minted, upsets, local>>

SameStart(c, d) ==
  /\ c.gen = d.gen /\ c.reason = d.reason /\ c.replays = d.replays
  /\ c.page = d.page /\ c.fetched = d.fetched /\ c.status = d.status

(* The claim: FOR UPDATE makes the comparison and the write one step.      *)
Start(p) ==
  /\ pc[p] = "start"
  /\ IF SameStart(cp, obs[p])
     THEN cp' = com[p] /\ Go(p, "opened") /\ UNCHANGED local
     ELSE Leave(p) /\ UNCHANGED cp
  /\ UNCHANGED <<kind, receipts, states, minted, upsets>>

ScanFullPage(p) ==
  /\ pc[p] = "opened" /\ Go(p, "loop")
  /\ full' = [full EXCEPT ![p] =
                \E r \in PagesOf(com[p].gen) : Cardinality(r.rows) = Size]
  /\ UNCHANGED <<durable, minted, upsets, obs, com, replay, resp, problem>>

-----------------------------------------------------------------------------
(* The page loop.                                                          *)

SettledPage(n) ==
  [rows  |-> {Source[i] : i \in {j \in DOMAIN Source : j > (n - 1) * Size /\ j <= n * Size}},
   total |-> Len(Source)]
DisturbedPages == [rows : SUBSET Row, total : 0..MaxTotal]

(* A total of zero, or none, keeps what was known.                         *)
PageTotal_Bug(c, r) == IF r.total > 0 THEN r.total ELSE -1   \* forgets it
PageTotal(c, r) == IF r.total > 0 THEN r.total ELSE c.total

(* The later test of the source overwrites the earlier one.                *)
SourceProblem(c, r) ==
  LET total   == PageTotal(c, r)
      fetched == c.fetched + Cardinality(r.rows)
  IN  IF r.rows = {} /\ total > 0 /\ fetched < total THEN "PREMATURE_EMPTY_PAGE"
      ELSE IF total > 0 /\ fetched > total THEN "SOURCE_TOTAL_UNDERRUN"
      ELSE IF Cardinality(r.rows) > Size THEN "OVERSIZED_PAGE"
      ELSE IF Cardinality(KeysOf(r.rows)) # Cardinality(r.rows)
           THEN "DUPLICATE_OR_COLLIDING_SOURCE_ID"
      ELSE IF r.total > 0 /\ c.total > 0 /\ c.total # r.total THEN "SOURCE_TOTAL_CHANGED"
      ELSE ""

Fetch(p) ==
  /\ pc[p] = "loop" /\ Go(p, "page")
  /\ \/ resp' = [resp EXCEPT ![p] = SettledPage(com[p].page)] /\ UNCHANGED upsets
     \/ Upset /\ \E r \in DisturbedPages : resp' = [resp EXCEPT ![p] = r]
  /\ problem' = [problem EXCEPT ![p] = SourceProblem(com[p], resp'[p])]
  /\ UNCHANGED <<durable, minted, obs, com, replay, full>>

(* max_pages is spent, after one page at least.                            *)
SpendPageBudget(p) ==
  /\ pc[p] = "loop" /\ Leave(p)
  /\ com[p].page > IF com[p].gen = obs[p].gen THEN obs[p].page ELSE 1
  /\ UNCHANGED <<durable, minted, upsets>>

(* A memory hold, or an error of the source or of the transport.           *)
Interrupt(p) ==
  /\ pc[p] \in {"loop", "page", "pagew"} /\ Upset /\ Go(p, "failing")
  /\ UNCHANGED <<durable, minted, local>>

SamePage(c, d) ==
  /\ c.gen = d.gen /\ c.reason = d.reason /\ c.replays = d.replays
  /\ c.page = d.page /\ c.fetched = d.fetched

RepeatProblem_Bug(c) ==                           \* one replay too many
  IF c.replays > ReplayLimit THEN Exhausted ELSE Overlap
RepeatProblem(c) == IF c.replays >= ReplayLimit THEN Exhausted ELSE Overlap

(* The page transaction reads the checkpoint without a lock.               *)
PageRead(p) ==
  /\ pc[p] = "page"
  /\ IF SamePage(cp, com[p]) /\ cp.status = "RUNNING"
     THEN /\ problem' = [problem EXCEPT ![p] =
                IF KeysOf(resp[p].rows) \cap KeysOf(ItemsOf(com[p].gen)) # {}
                THEN RepeatProblem(com[p]) ELSE @]
          /\ Go(p, "pagew")
     ELSE Go(p, "failing") /\ UNCHANGED problem
  /\ UNCHANGED <<durable, minted, upsets, obs, com, replay, resp, full>>

(* preserve_observation of every row, refused pages included: with two     *)
(* payloads for one key in a page, the last one stays.                     *)
Advanced(rows) ==
  IF kind = "history" THEN {states}
  ELSE {s \in [Keys -> Payloads \cup {"none"}] : \A k \in Keys :
          IF k \in KeysOf(rows) THEN [key |-> k, payload |-> s[k]] \in rows
          ELSE s[k] = states[k]}

StopPage(p) ==
  /\ pc[p] = "pagew" /\ problem[p] # "" /\ Leave(p)
  /\ states' \in Advanced(resp[p].rows)
  /\ cp' = [com[p] EXCEPT !.status = "INCOMPLETE", !.err = problem[p]]
  /\ UNCHANGED <<kind, receipts, minted, upsets>>

Fetched(p) == com[p].fetched + Cardinality(resp[p].rows)
ReasonOf(p) == DoneReason(PageTotal(com[p], resp[p]), Fetched(p),
                          Cardinality(resp[p].rows), full[p])
NewReceipt(p) ==
  [gen |-> com[p].gen, page |-> com[p].page, rows |-> resp[p].rows,
   total |-> PageTotal(com[p], resp[p]), reason |-> ReasonOf(p)]

(* The primary keys of the two receipt tables: a page that another process *)
(* has committed since is rolled back.                                     *)
KeyConflict(p) ==
  \/ \E r \in PagesOf(com[p].gen) : r.page = com[p].page
  \/ KeysOf(resp[p].rows) \cap KeysOf(ItemsOf(com[p].gen)) # {}

NextCommitted_Bug(p) ==                           \* fetched_count is not advanced
  [com[p] EXCEPT !.page = @ + 1, !.total = PageTotal(com[p], resp[p]),
                 !.reason = ReasonOf(p),
                 !.status = IF ReasonOf(p) = "" THEN "RUNNING" ELSE "COMPLETE"]
NextCommitted(p) ==
  [com[p] EXCEPT !.page = @ + 1, !.total = PageTotal(com[p], resp[p]),
                 !.fetched = Fetched(p), !.reason = ReasonOf(p),
                 !.status = IF ReasonOf(p) = "" THEN "RUNNING" ELSE "COMPLETE"]

CommitPage(p) ==
  /\ pc[p] = "pagew" /\ problem[p] = ""
  /\ IF KeyConflict(p)
     THEN Go(p, "failing") /\ UNCHANGED <<cp, receipts, states, local>>
     ELSE /\ states' \in Advanced(resp[p].rows)
          /\ receipts' = receipts \cup {NewReceipt(p)}
          /\ cp' = NextCommitted(p)
          /\ IF ReasonOf(p) = ""
             THEN /\ com' = [com EXCEPT ![p] = NextCommitted(p)]
                  /\ full' = [full EXCEPT ![p] = @ \/ Cardinality(resp[p].rows) = Size]
                  /\ resp' = [resp EXCEPT ![p] = NoResponse]
                  /\ Go(p, "loop")
                  /\ UNCHANGED <<obs, replay, problem>>
             ELSE LeaveTo(p, IF kind = "current" THEN "reconcile" ELSE "compact")
  /\ UNCHANGED <<kind, minted, upsets>>

(* The failure handler: one transaction reads, another one writes what the *)
(* process believes, and nothing is compared with the status.              *)
FailRead(p) ==
  /\ pc[p] = "failing"
  /\ IF SamePage(cp, com[p]) THEN Go(p, "failw") /\ UNCHANGED local ELSE Leave(p)
  /\ UNCHANGED <<durable, minted, upsets>>

FailWrite(p) ==
  /\ pc[p] = "failw" /\ Leave(p)
  /\ \E status \in {"FAILED", "INCOMPLETE"} :
       cp' = [com[p] EXCEPT !.status = status, !.err = "ERROR"]
  /\ UNCHANGED <<kind, receipts, states, minted, upsets>>

-----------------------------------------------------------------------------
(* After a complete collection.                                            *)

(* reconcile_complete_fiscal_year: under the row lock of the checkpoint,   *)
(* current rows that the complete generation has not seen are removed.     *)
Reconcile(p) ==
  /\ pc[p] = "reconcile" /\ Leave(p)
  /\ states' = IF kind = "current" /\ cp.status = "COMPLETE" /\ cp.fetched > 0
               THEN [k \in Keys |-> IF k \in KeysOf(ItemsOf(cp.gen)) THEN states[k] ELSE "none"]
               ELSE states
  /\ UNCHANGED <<kind, cp, receipts, minted, upsets>>

(* The receipts of a complete history scope are dropped; if that fails     *)
(* they wait for the ordinary retention.                                   *)
Compact(p) ==
  /\ pc[p] = "compact" /\ Leave(p)
  /\ receipts' \in {{}, receipts}
  /\ UNCHANGED <<kind, cp, states, minted, upsets>>

(* partition_fallback_required: a wake that finds the scope exhausted      *)
(* collects the next region instead, a scope of its own whose rows advance *)
(* the current state; when all planned regions are complete the scope is   *)
(* marked, in a transaction that looks at the status only.                 *)
Moves(gone) == {s \in [Keys -> Payloads \cup {"none"}] :
                  \A k \in Keys : s[k] = "none" => gone \/ states[k] = "none"}
ReadRegions(p) ==
  /\ pc[p] = "idle" /\ LeaseFree(p) /\ kind = "current"
  /\ cp.status = "INCOMPLETE" /\ cp.err = Exhausted
  /\ \/ states' \in Moves(FALSE) /\ UNCHANGED pc        \* a region of the plan
     \/ Go(p, "mark") /\ UNCHANGED states               \* none is left
  /\ UNCHANGED <<kind, cp, receipts, minted, upsets, local>>

MarkPartition(p) ==
  /\ pc[p] = "mark" /\ Leave(p)
  /\ cp' = IF cp.status \in Unfinished
           THEN [cp EXCEPT !.status = "PARTITION_COMPLETE", !.err = Partitioned] ELSE cp
  /\ UNCHANGED <<kind, receipts, states, minted, upsets>>

(* A newer snapshot, asked for by its date, is read completely, reconciled *)
(* and supersedes this one if it is unfinished.                            *)
Supersede ==
  /\ \A p \in Procs : pc[p] = "idle"
  /\ kind = "current" /\ cp.status \in Unfinished /\ Upset
  /\ cp' = [cp EXCEPT !.status = "SUPERSEDED", !.err = Overtaken]
  /\ receipts' = {} /\ states' \in Moves(TRUE)
  /\ UNCHANGED <<kind, minted, pc, local>>

(* The child process is killed; an open transaction is rolled back.        *)
Crash(p) ==
  /\ pc[p] # "idle" /\ Upset /\ Leave(p)
  /\ UNCHANGED <<durable, minted>>

Work(p) ==
  \/ Verify(p) \/ Clear(p) \/ Start(p) \/ ScanFullPage(p) \/ Fetch(p) \/ PageRead(p)
  \/ StopPage(p) \/ CommitPage(p) \/ FailRead(p) \/ FailWrite(p)
  \/ Reconcile(p) \/ Compact(p) \/ MarkPartition(p)

Next ==
  \/ Supersede
  \/ \E p \in Procs :
       \/ \E resume \in BOOLEAN : Lookup(p, resume)
       \/ Work(p) \/ ReadRegions(p)
       \/ SpendPageBudget(p) \/ Interrupt(p) \/ Crash(p)

Spec == Init /\ [][Next]_vars

(* The scheduler calls the collector again and again with resume=True.     *)
(* Disturbances have no fairness.                                          *)
FairSpec == Spec /\ WF_vars(\E p \in Procs : Work(p) \/ Lookup(p, TRUE))

-----------------------------------------------------------------------------
(* Properties.                                                             *)

(* Wherever a process is in the page loop, the receipts of its generation  *)
(* are exactly the pages it believes committed: whatever was cleared,      *)
(* replayed or crashed before, no page is ever added to a broken chain.    *)
LoopHasReceipts ==
  \A p \in Procs : pc[p] \in {"opened", "loop", "page", "pagew"} =>
    /\ {r.page : r \in PagesOf(com[p].gen)} = 1..(com[p].page - 1)
    /\ Cardinality(ItemsOf(com[p].gen)) = com[p].fetched

(* What the page loop writes is what the verifier of the next process      *)
(* accepts, rows of refused pages included, unless the receipts have been  *)
(* cleared, the scope stopped on an overlap, or was closed by another      *)
(* writer: no restart throws away an honest partial scope.                 *)
Closed(c) == c.err = Exhausted \/ c.status \in {"PARTITION_COMPLETE", "SUPERSEDED"}
WriterMeetsVerifier ==
  cp.status # "ABSENT" /\ cp.err # Overlap /\ ~Closed(cp)
    /\ (PagesOf(cp.gen) # {} \/ cp.page = 1) => Verified(cp)

(* A COMPLETE scope whose receipts are kept holds as many rows as it       *)
(* counts, and as many as the source announced.                            *)
CompleteIsCovered ==
  cp.status = "COMPLETE" /\ PagesOf(cp.gen) # {} =>
    /\ {r.page : r \in PagesOf(cp.gen)} = 1..(cp.page - 1)
    /\ Cardinality(ItemsOf(cp.gen)) = cp.fetched
    /\ cp.total > 0 => cp.fetched = cp.total

(* The three together: what was written page by page is one chain that     *)
(* the next process takes up and that a complete scope can show.           *)
PagesAreProven == TypeOK /\ LoopHasReceipts /\ WriterMeetsVerifier /\ CompleteIsCovered

(* A current row disappears only because a complete snapshot, with all its *)
(* receipts in place, did not contain it; or it was the newer snapshot     *)
(* that supersedes this one.                                               *)
RemovalIsProven ==
  [][\A k \in Keys : states[k] # "none" /\ states'[k] = "none" =>
       \/ /\ cp.status = "COMPLETE" /\ kind = "current"
          /\ Cardinality(ItemsOf(cp.gen)) = cp.fetched
          /\ k \notin KeysOf(ItemsOf(cp.gen))
       \/ cp.status # "SUPERSEDED" /\ cp'.status = "SUPERSEDED"]_vars

(* A scope that was given up, marked or superseded is never resumed at its *)
(* cursor: its generation and counters stay, whoever rewrites status and   *)
(* error, until it is read again from page one in a new generation.        *)
SameCounters(c, d) ==
  c.gen = d.gen /\ c.page = d.page /\ c.fetched = d.fetched /\ c.total = d.total
    /\ c.reason = d.reason /\ c.replays = d.replays
Afresh(c, d) == c.gen > d.gen /\ c.page = 1 /\ c.fetched = 0 /\ c.replays = 0
ClosedIsReadAfresh ==
  [][Closed(cp) => (Closed(cp') /\ SameCounters(cp', cp)) \/ Afresh(cp', cp)]_cp

(* A scope that stopped on an overlap is always read again from page one,  *)
(* whatever crashes or fails meanwhile, unless a newer snapshot makes it   *)
(* obsolete; it is not resumed at the cursor that overlapped.              *)
OverlapIsReplayed ==
  cp.err = Overlap ~> (cp.page = 1 /\ cp.err = "") \/ cp.status = "SUPERSEDED"

(* Both: neither an overlap nor what it leads to is read on behind it.     *)
OverlapIsReadOnceMore == OverlapIsReplayed /\ ClosedIsReadAfresh

=============================================================================
