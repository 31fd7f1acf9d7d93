--------------------------- MODULE NoProgressGate ---------------------------
(***************************************************************************)
(* g2b_dynamic_source_budget: the durable gate that keeps a source from    *)
(* burning its daily quota on a page that memory never lets it finish, and *)
(* g2b_idle_memory_recovery: the only thing that gives memory back.        *)
(*                                                                         *)
(* The gate's rows live in app_settings and survive the web process; the   *)
(* launch token lives in both.  A launch reads memory and progress, then   *)
(* reserves, then forks, under the launch lock; the reaper finalises the   *)
(* reservation after the child is gone.  Between any two of these the      *)
(* database may fail and the web process may restart, whose child may live *)
(* on.  Memory is counted in units of BASELINE_RECOVERY_BYTES (8 MiB) of   *)
(* the parent alone.                                                       *)
(***************************************************************************)
EXTENDS Integers, FiniteSets

CONSTANTS
  Sources,     \* "shopping" and "budget"
  MaxGens,     \* launches: a bound
  MaxRaw,      \* largest memory of the parent
  Ceiling,     \* SOURCE_CEILING_BYTES
  Reserve,     \* START_RESERVE_BYTES
  MaxPages,    \* pages of a scope generation: a bound
  MaxFaults    \* database faults, restarts and lost rows: a bound

GateAssumption ==
  /\ IsFiniteSet(Sources)
  /\ {MaxGens, MaxRaw, Ceiling, Reserve, MaxPages, MaxFaults} \subseteq Nat /\ MaxRaw > 0

VARIABLES
  rows,      \* the gate's rows: "none", "all", or "lost" when somebody deleted one
  rec,       \* the record of each source
  slot,      \* GATE_SLOT_KEY: <<source, token>> or NoSlot
  pages,     \* committed progress of a source: scope generation and its pages
  raw,       \* memory of the parent alone
  tokens,    \* _tokens of the running web process
  job,       \* the launch in progress, under the launch lock
  proc,      \* the child the web process owns
  child,     \* every child launched: source, state and how it ended
  lock,      \* _ISOLATED_HEAVY_LAUNCH_LOCK
  idle,      \* where idle recovery is
  requests,  \* active requests of the web
  faults,
  fruitless, \* history: children of a source since memory fell, or since a
             \* page, a classification, another end or an operator, without
             \* those whose progress could not be read when they ended
  limited    \* history: the last child of a source met the response limit

durable == <<rows, rec, slot, pages>>
recovery == <<idle, requests>>
history == <<fruitless, limited>>
vars == <<durable, raw, tokens, job, proc, child, lock, recovery, faults, history>>

-----------------------------------------------------------------------------
Gens == 1..MaxGens
NoSlot == <<"", 0>>
NoProof == [gen |-> 0, n |-> 0]
NewRecord == [held |-> 0, baseline |-> 0, before |-> 0, from |-> NoProof, seen |-> NoProof,
              token |-> 0, classified |-> FALSE, hold |-> FALSE, retry |-> FALSE]
NoJob == [pc |-> "idle", source |-> "", explicit |-> FALSE]
Unborn == [source |-> "", state |-> "unborn"]
Gone == [source |-> "", state |-> "gone"]

Init ==
  /\ rows = "none" /\ rec = [s \in Sources |-> NewRecord] /\ slot = NoSlot
  /\ pages = [s \in Sources |-> [gen |-> 1, n |-> 0]] /\ raw \in 1..MaxRaw
  /\ tokens = [s \in Sources |-> 0] /\ job = NoJob /\ proc = 0
  /\ child = [g \in Gens |-> Unborn] /\ lock = "free" /\ idle = "idle" /\ requests = 0
  /\ faults = 0 /\ fruitless = [s \in Sources |-> 0] /\ limited = [s \in Sources |-> FALSE]

Fault == faults < MaxFaults /\ faults' = faults + 1

(* DatabaseGateStore.initialize at boot: all rows or none are installed,   *)
(* and a row that is missing later is never repaired.                      *)
Install_Bug == rows' = "all" /\ rec' = [s \in Sources |-> NewRecord] /\ slot' = NoSlot
Install ==
  IF rows = "none" THEN rows' = "all" /\ UNCHANGED <<rec, slot>> ELSE UNCHANGED <<rows, rec, slot>>
Initialize ==
  /\ rows # "all" /\ Install
  /\ UNCHANGED <<pages, raw, tokens, job, proc, child, lock, recovery, faults, history>>
LoseRow ==
  /\ rows = "all" /\ Fault /\ rows' = "lost"
  /\ UNCHANGED <<rec, slot, pages, raw, tokens, job, proc, child, lock, recovery, history>>

(* transact: the record and the slot are checked and written in one        *)
(* transaction; a reservation or its end moves the slot with it.           *)
Sound(s) ==
  /\ rows = "all"
  /\ slot # NoSlot => rec[slot[1]].token = slot[2]
  /\ rec[s].token # 0 => slot = <<s, rec[s].token>>
Idle_Bug(s) == TRUE
Idle(s) == slot = NoSlot \/ slot[1] = s                 \* require_idle
Swap(s, r) ==
  /\ rec' = [rec EXCEPT ![s] = r]
  /\ slot' = IF r.token = rec[s].token THEN slot
             ELSE IF r.token = 0 THEN NoSlot ELSE <<s, r.token>>

-----------------------------------------------------------------------------
(* Progress is a page more of the same scope generation.                   *)
Progressed(a, b) == a.gen = b.gen /\ b.n > a.n
Recovered_Bug(now, base) == now <= base                 \* without the 8 MiB
Recovered(now, base) == now + 1 <= base

(* _decision: whether a run may start, and the record it leaves.           *)
MayStart(r, memory, proof, explicit) ==
  /\ proof # NoProof /\ r.token = 0
  /\ IF r.hold THEN explicit
     ELSE \/ r.held < 2
          \/ Progressed(r.seen, proof)
          \/ r.baseline > 0 /\ Recovered(memory, r.baseline)
Decided(r) == IF r.hold \/ r.held < 2 THEN r ELSE [r EXCEPT !.held = 0, !.baseline = 0]

(* headroom: the start reserve must fit below the ceiling.                 *)
Admitted == Reserve < Ceiling - raw

(* Progress is read from committed rows, or cannot be read.                *)
Proof(s) == {pages[s]} \cup (IF faults < MaxFaults THEN {NoProof} ELSE {})
ReadFault(p) == IF p = NoProof THEN Fault ELSE UNCHANGED faults

(* _isolated_worker_admission_ok of the scheduler or of an operator.       *)
Admission(s) ==
  /\ lock = "free" /\ proc = 0
  /\ \E explicit \in BOOLEAN, p \in Proof(s) :
       /\ ReadFault(p)
       /\ IF Admitted /\ Sound(s) /\ Idle(s) /\ MayStart(rec[s], raw, p, explicit)
            THEN /\ Swap(s, Decided(rec[s])) /\ lock' = "launch"
                 /\ job' = [pc |-> "reserve", source |-> s, explicit |-> explicit]
            ELSE UNCHANGED <<rec, slot, lock, job>>
  /\ UNCHANGED <<rows, pages, raw, tokens, proc, child, recovery, history>>

(* _prepare_dynamic_source_launch and record_launch: everything is read    *)
(* and decided again.                                                      *)
FreshGen == CHOOSE g \in Gens : child[g] = Unborn
Reserved(r, g, p, explicit) ==
  LET operator == r.hold /\ explicit
      d == IF operator THEN [Decided(r) EXCEPT !.hold = FALSE, !.held = 0, !.baseline = 0]
                       ELSE Decided(r)
  IN  [d EXCEPT !.retry = operator, !.before = raw, !.from = p, !.token = g,
                !.classified = FALSE]
RecordLaunch ==
  LET s == job.source IN
  /\ job.pc = "reserve" /\ \E g \in Gens : child[g] = Unborn
  /\ \E p \in Proof(s) :
       /\ ReadFault(p)
       /\ IF Admitted /\ Sound(s) /\ Idle(s) /\ MayStart(rec[s], raw, p, job.explicit)
            THEN /\ Swap(s, Reserved(rec[s], FreshGen, p, job.explicit))
                 /\ tokens' = [tokens EXCEPT ![s] = FreshGen]
                 /\ job' = [job EXCEPT !.pc = "fork"] /\ UNCHANGED lock
                 /\ fruitless' = [fruitless EXCEPT ![s] = IF rec'[s].retry THEN 1 ELSE @ + 1]
                 /\ limited' = [limited EXCEPT ![s] = @ /\ ~rec'[s].retry]
            ELSE /\ job' = NoJob /\ lock' = "free" /\ UNCHANGED <<rec, slot, tokens, history>>
  /\ UNCHANGED <<rows, pages, raw, proc, child, recovery>>

(* Popen, which may fail: then the reservation is cancelled.               *)
Fork ==
  LET s == job.source
      g == tokens[s]
  IN  /\ job.pc = "fork" /\ job' = NoJob /\ lock' = "free"
      /\ child' = [child EXCEPT ![g] = [source |-> s, state |-> "running"]] /\ proc' = g
      /\ UNCHANGED <<durable, raw, tokens, recovery, faults, history>>

-----------------------------------------------------------------------------
(* The child.  Its transactions need its own token in the record.          *)
Running(g) == child[g].state = "running"
OwnRecord(g) == Sound(child[g].source) /\ rec[child[g].source].token = g
End(g, how) == child' = [child EXCEPT ![g].state = how]
Fruit(s) == fruitless' = [fruitless EXCEPT ![s] = 0] /\ UNCHANGED limited

CommitPage(g) ==
  LET s == child[g].source IN
  /\ Running(g) /\ pages[s].n < MaxPages
  /\ pages' = [pages EXCEPT ![s].n = @ + 1] /\ Fruit(s)
  /\ UNCHANGED <<rows, rec, slot, raw, tokens, job, proc, child, lock, recovery, faults>>
(* A scope starts again from its first page.                               *)
NewScope(g) ==
  /\ Running(g) /\ pages[child[g].source].gen = 1
  /\ pages' = [pages EXCEPT ![child[g].source] = [gen |-> 2, n |-> 0]]
  /\ UNCHANGED <<rows, rec, slot, raw, tokens, job, proc, child, lock, recovery, faults, history>>
(* record_classification_commit counts once per child; a failed write ends *)
(* the run.                                                                *)
Classify(g) ==
  LET s == child[g].source IN
  /\ Running(g) /\ ~rec[s].classified
  /\ \/ /\ OwnRecord(g) /\ Swap(s, [rec[s] EXCEPT !.classified = TRUE]) /\ Fruit(s)
        /\ UNCHANGED <<child, faults>>
     \/ Fault /\ End(g, "memory") /\ UNCHANGED <<rec, slot, history>>
  /\ UNCHANGED <<rows, pages, raw, tokens, job, proc, lock, recovery>>
(* A response over the limit: record_operator_hold, which may fail, then   *)
(* exit code 79.                                                           *)
MeetsLimit(g) ==
  LET s == child[g].source IN
  /\ Running(g) /\ End(g, "limit") /\ limited' = [limited EXCEPT ![s] = TRUE]
  /\ \/ OwnRecord(g) /\ Swap(s, [rec[s] EXCEPT !.hold = TRUE]) /\ UNCHANGED faults
     \/ Fault /\ UNCHANGED <<rec, slot>>
  /\ UNCHANGED <<rows, pages, raw, tokens, job, proc, lock, recovery, fruitless>>
(* It finishes, fails, or memory ends it: its own checkpoint, the parent   *)
(* or the kernel.                                                          *)
Exits(g) ==
  /\ Running(g) /\ \E how \in {"ended", "memory"} : End(g, how)
  /\ UNCHANGED <<durable, raw, tokens, job, proc, lock, recovery, faults, history>>

(* record_exit.                                                            *)
Fruitful(r, p) ==
  /\ p # NoProof
  /\ \/ Progressed(r.from, p)
     \/ r.classified
     \/ p.n > 0 /\ p.gen # r.from.gen
Judged(r, memory, p, held, failed) ==
  IF p = NoProof THEN [r EXCEPT !.held = 2, !.baseline = 0]
  ELSE IF failed THEN r
  ELSE IF Fruitful(r, p) \/ ~held \/ Recovered(memory, r.before)
    THEN [r EXCEPT !.held = 0, !.baseline = 0]
  ELSE LET n == IF r.held < 2 THEN r.held + 1 ELSE 2
       IN  [r EXCEPT !.held = n, !.baseline = IF n = 2 THEN memory ELSE @]
Holds_Bug(r, limit, failed, p) == r.hold               \* only what the child wrote
Holds(r, limit, failed, p) ==
  r.hold \/ limit \/ (r.retry /\ (failed \/ ~Fruitful(r, p)))
Finalised(r, memory, p, held, limit, failed) ==
  LET hold == Holds(r, limit, failed, p)
      j == IF hold THEN [r EXCEPT !.hold = TRUE, !.held = 2] ELSE Judged(r, memory, p, held, failed)
  IN  [j EXCEPT !.seen = IF p = NoProof THEN @ ELSE p, !.token = 0, !.from = NoProof,
                !.before = 0, !.retry = FALSE, !.classified = FALSE]

RecordExit(s, p, held, limit, failed) ==
  /\ ReadFault(p) /\ tokens[s] # 0 /\ Sound(s) /\ rec[s].token = tokens[s]
  /\ Swap(s, Finalised(rec[s], raw, p, held, limit, failed))
  /\ tokens' = [tokens EXCEPT ![s] = 0]
(* With the token of another process, or when the database fails, nothing  *)
(* is written and the token is kept: nobody asks again.                    *)
Unrecorded(s) ==
  /\ IF Sound(s) /\ rec[s].token = tokens[s] THEN Fault ELSE UNCHANGED faults
  /\ UNCHANGED <<rec, slot, tokens>>

OneLess(n) == IF n = 0 THEN 0 ELSE n - 1
SpawnFails ==
  LET s == job.source IN
  /\ job.pc = "fork" /\ job' = NoJob /\ lock' = "free"
  /\ (\E p \in Proof(s) : RecordExit(s, p, TRUE, FALSE, TRUE)) \/ Unrecorded(s)
  /\ fruitless' = [fruitless EXCEPT ![s] = OneLess(@)]
  /\ limited' = [limited EXCEPT ![s] = @ \/ rec[s].retry]
  /\ UNCHANGED <<rows, pages, raw, proc, child, recovery>>

(* The supervisor, once the child is gone.  Only memory ends count, and of *)
(* these only the ones whose progress could be read.                       *)
Reap ==
  LET c == child[proc]
      ended == c.state = "ended"
  IN  /\ proc # 0 /\ c.state \in {"ended", "memory", "limit"}
      /\ \/ \E p \in Proof(c.source) :
              /\ RecordExit(c.source, p, ~ended, c.state = "limit", FALSE)
              /\ fruitless' = [fruitless EXCEPT ![c.source] =
                                 IF ended THEN 0 ELSE IF p = NoProof THEN OneLess(@) ELSE @]
         \/ /\ Unrecorded(c.source)
            /\ fruitless' = [fruitless EXCEPT ![c.source] = IF ended THEN 0 ELSE @]
      /\ proc' = 0 /\ child' = [child EXCEPT ![proc] = Gone]
      /\ UNCHANGED <<rows, pages, raw, job, lock, recovery, limited>>

(* The web process is replaced; its child may live on, and end later.      *)
Restart ==
  /\ Fault /\ tokens' = [s \in Sources |-> 0] /\ job' = NoJob /\ proc' = 0
  /\ lock' = "free" /\ idle' = "idle" /\ requests' = 0
  /\ UNCHANGED <<durable, raw, child, history>>

-----------------------------------------------------------------------------
(* Idle recovery: it takes the launch lock without waiting, looks for work *)
(* and visitors, looks again under the lock that fences new requests, then *)
(* collects and trims.                                                     *)
Busy == proc # 0
Quiet_Bug == ~Busy                                      \* visitors are not looked at again
Quiet == ~Busy /\ requests = 0
IdleStart ==
  /\ idle = "idle" /\ lock = "free" /\ Quiet /\ lock' = "idle" /\ idle' = "checked"
  /\ UNCHANGED <<durable, raw, tokens, job, proc, child, requests, faults, history>>
IdleRecheck ==
  /\ idle = "checked"
  /\ IF Quiet THEN idle' = "trim" /\ UNCHANGED lock ELSE idle' = "idle" /\ lock' = "free"
  /\ UNCHANGED <<durable, raw, tokens, job, proc, child, requests, faults, history>>
Fell(r) == fruitless' = IF r < raw THEN [s \in Sources |-> 0] ELSE fruitless
IdleTrim ==
  /\ idle = "trim" /\ idle' = "idle" /\ lock' = "free"
  /\ \E r \in 1..raw : raw' = r /\ Fell(r)
  /\ UNCHANGED <<durable, tokens, job, proc, child, requests, faults, limited>>
RequestStarts ==
  /\ requests = 0 /\ idle # "trim" /\ requests' = 1
  /\ UNCHANGED <<durable, raw, tokens, job, proc, child, lock, idle, faults, history>>
(* Pages that were served leave the parent larger, or smaller.             *)
RequestEnds ==
  /\ requests = 1 /\ requests' = 0 /\ \E r \in {raw - 1, raw, raw + 1} \cap 1..MaxRaw : raw' = r /\ Fell(r)
  /\ UNCHANGED <<durable, tokens, job, proc, child, lock, idle, faults, limited>>

WebNext ==
  \/ Initialize \/ RecordLaunch \/ Fork \/ SpawnFails \/ Reap \/ IdleRecheck \/ IdleTrim
  \/ \E s \in Sources : Admission(s)
  \/ IdleStart \/ RequestStarts \/ RequestEnds
ChildNext(g) == CommitPage(g) \/ NewScope(g) \/ Classify(g) \/ MeetsLimit(g) \/ Exits(g)
Next == WebNext \/ LoseRow \/ Restart \/ \E g \in Gens : ChildNext(g)

Spec == Init /\ [][Next]_vars

-----------------------------------------------------------------------------
TypeOK ==
  /\ rows \in {"none", "all", "lost"} /\ raw \in 1..MaxRaw /\ faults \in 0..MaxFaults
  /\ \A s \in Sources : /\ rec[s].held \in 0..2 /\ rec[s].baseline \in 0..MaxRaw
                        /\ rec[s].token \in Gens \cup {0} /\ tokens[s] \in Gens \cup {0}
  /\ lock \in {"free", "launch", "idle"} /\ idle \in {"idle", "checked", "trim"}

(* No two source children ever run at once, and the one that runs holds    *)
(* the durable slot, even when it outlived the web process that launched   *)
(* it, a row was lost, or a reap could not be recorded.                    *)
OneChild ==
  /\ TypeOK
  /\ \A g \in Gens : Running(g) => slot = <<child[g].source, g>> /\ rec[child[g].source].token = g

(* Without a page, a classification, memory given back or an operator, a   *)
(* source is launched at most twice: it cannot spend its daily quota on a  *)
(* page that memory never lets it finish, whatever restarts.  A child at   *)
(* whose end the progress cannot be read costs one launch more: the record *)
(* then still compares with the progress before that child.                *)
AtMostTwice == \A s \in Sources : fruitless[s] <= 2

(* After a response over the limit only an operator launches the source,   *)
(* although the child's own note of it may be lost and memory recover.     *)
LimitWaitsForOperator ==
  \A g \in Gens : Running(g) => ~limited[child[g].source]

(* Trimming never overlaps a request, a launch or an owned child.          *)
TrimIsAlone == idle = "trim" => requests = 0 /\ proc = 0 /\ job = NoJob

=============================================================================
