-------------------------------- MODULE Boot --------------------------------
(***************************************************************************)
(* Start-up: a web process binds its port, imports the application in a    *)
(* thread and initialises storage in another one, started by whichever     *)
(* request first finds the storage not ready; a match child initialises it *)
(* again in its own process; a source child only verifies it.              *)
(*                                                                         *)
(* Web processes overlap during a deployment.  Any of them may die between *)
(* two transactions, and any database call may fail.                       *)
(***************************************************************************)
EXTENDS Integers, FiniteSets

CONSTANTS
  Webs,        \* web processes that may run at the same time
  Children,    \* disposable children of the kind "match"
  MaxFaults,   \* database calls and thread starts that fail: a bound
  MaxCrashes   \* processes that die: a bound

BootAssumption == {MaxFaults, MaxCrashes} \subseteq Nat

Procs == Webs \cup Children
Slots == 1..2   \* initialiser threads of one process; two would be a bug
Schemas == {"app", "budget"}
Tables == {"settings", "foundation", "shopping", "match", "users"}

(* The steps of an initialiser, in the order of the code; "gone" is no     *)
(* thread.  Each is at most one transaction.                               *)
Next_ == [gone |-> "gone", reserved |-> "begin", begin |-> "prepare",
          prepare |-> "settings", settings |-> "foundation",
          foundation |-> "shopping", shopping |-> "match", match |-> "users",
          users |-> "budget", budget |-> "indexes", indexes |-> "probe",
          probe |-> "gate", gate |-> "publish", publish |-> "gone"]
Steps == DOMAIN Next_
Optional == {"budget", "indexes", "probe"}   \* whose failure is swallowed

VARIABLES
  db,       \* what PostgreSQL and the disk hold
  born,     \* how the storage was found: EMPTY, OURS or OLD
  web,      \* process: its loader, and the state kept under its locks
  at,       \* process and slot: the next step of that initialiser thread
  source,   \* a source child: none, working
  faults, crashes

vars == <<db, born, web, at, source, faults, crashes>>

Down == [loader |-> "DOWN", initializing |-> FALSE, ok |-> FALSE,
         recent |-> FALSE, ready |-> FALSE]
Empty == [marker |-> "none", schemas |-> {}, legacy |-> FALSE, tables |-> {},
          budget |-> "none", index |-> "none"]

(* Table sets an interrupted boot can leave: a prefix of the order.        *)
Prefixes == {{}, {"settings"}, {"settings", "foundation"}, Tables \ {"match", "users"},
             Tables \ {"users"}, Tables}

Old == {d \in [marker : {"none", "foreign"}, schemas : SUBSET Schemas, legacy : BOOLEAN,
               tables : {{}}, budget : {"none"}, index : {"none"}] :
          d.marker = "foreign" \/ d.schemas # {} \/ d.legacy}
Ours == [marker : {"ours"}, schemas : {Schemas}, legacy : {TRUE}, tables : Prefixes,
         budget : {"none", "old"}, index : {"none", "invalid"}]

Init ==
  /\ \/ db = Empty /\ born = "EMPTY"
     \/ db \in Old /\ born = "OLD"
     \/ db \in Ours /\ born = "OURS" /\ (db.budget = "none" => db.index = "none")
                    /\ (db.tables # Tables => db.budget = "none")
  /\ web = [p \in Procs |-> Down] /\ at = [p \in Procs |-> [k \in Slots |-> "gone"]]
  /\ source = "none" /\ faults = 0 /\ crashes = 0

-----------------------------------------------------------------------------
(* The loader of main.py.                                                  *)

(* The server binds its port and starts the importing thread.              *)
Start(p) ==
  /\ p \in Webs /\ web[p].loader = "DOWN"
  /\ web' = [web EXCEPT ![p].loader = "LOADING"]
  /\ UNCHANGED <<db, born, at, source, faults, crashes>>

(* Whether an initialiser may be reserved now: not when storage is ready,  *)
(* one is under way, or one began in the last five seconds.                *)
MayReserve_Bug(w) == ~w.ok /\ ~w.recent
MayReserve(w) == ~w.ok /\ ~w.initializing /\ ~w.recent

(* schedule_backend_init reserves under the lock, then starts the thread.  *)
Reserve(p, w) ==
  IF MayReserve(w)
    THEN \E k \in Slots :
           /\ at[p][k] = "gone" /\ \A j \in 1..(k - 1) : at[p][j] # "gone"
           /\ at' = [at EXCEPT ![p][k] = "reserved"]
           /\ web' = [web EXCEPT ![p] = [w EXCEPT !.initializing = TRUE]]
    ELSE at' = at /\ web' = [web EXCEPT ![p] = w]

Imported(p) ==
  /\ web[p].loader = "LOADING"
  /\ Reserve(p, [web[p] EXCEPT !.loader = "READY"])
  /\ UNCHANGED <<db, born, source, faults, crashes>>

(* A failed import is kept for the life of the process.                    *)
ImportFails(p) ==
  /\ web[p].loader = "LOADING" /\ faults < MaxFaults
  /\ web' = [web EXCEPT ![p].loader = "FAILED"] /\ faults' = faults + 1
  /\ UNCHANGED <<db, born, at, source, crashes>>

(* Any request through the gate, and every probe, finds storage not ready. *)
Request(p) ==
  /\ p \in Webs /\ web[p].loader = "READY" /\ MayReserve(web[p])
  /\ Reserve(p, web[p])
  /\ UNCHANGED <<db, born, source, faults, crashes>>

FiveSeconds(p) ==
  /\ web[p].recent /\ web' = [web EXCEPT ![p].recent = FALSE]
  /\ UNCHANGED <<db, born, at, source, faults, crashes>>

(* /ready probes the budget store once storage is ready, read only.        *)
ReadyProbe(p) ==
  /\ p \in Webs /\ web[p].ok
  /\ \E answers \in {TRUE} \cup (IF faults < MaxFaults THEN {FALSE} ELSE {}) :
       /\ web' = [web EXCEPT ![p].ready = answers /\ db.budget # "none"]
       /\ faults' = IF answers THEN faults ELSE faults + 1
  /\ UNCHANGED <<db, born, at, source, crashes>>

-----------------------------------------------------------------------------
(* The initialiser thread, initialize_backend(force=True).                 *)

Goto(p, k, step) == at' = [at EXCEPT ![p][k] = step]

(* Storage of another origin: a workload schema or a legacy file without a *)
(* marker of this release.                                                 *)
Prior_Bug(d) == d.schemas # {}
Prior(d) == d.schemas # {} \/ d.legacy
Refused(d) == d.marker = "foreign" \/ (d.marker = "none" /\ Prior(d))

(* One transaction under an advisory lock: both schemas and the marker.    *)
Provisioned_Bug(d) == [d EXCEPT !.schemas = Schemas]
Provisioned(d) == [d EXCEPT !.schemas = Schemas, !.marker = "ours"]

(* An index that an interrupted build left invalid is dropped and rebuilt. *)
Rebuilds_Bug(d) == d.index = "none"
Rebuilds(d) == d.index # "valid"

(* What a step that succeeds leaves in the database.                       *)
Effect(step, d) ==
  CASE step = "prepare" /\ d.marker = "none" -> Provisioned(d)
    [] step \in Tables -> [d EXCEPT !.tables = @ \cup {step}, !.schemas = @ \cup {"app"}]
    [] step = "budget" /\ d.budget = "none" ->
         [d EXCEPT !.budget = "ours", !.schemas = @ \cup {"budget"}]
    [] step = "indexes" /\ Rebuilds(d) -> [d EXCEPT !.index = "valid"]
    [] OTHER -> d

(* Steps the database makes impossible, whatever the connection does.      *)
Impossible(step, d) ==
  \/ step = "prepare" /\ Refused(d)
  \/ step = "budget" /\ d.budget = "old"     \* the table contract is not met

StartThread(p, k) ==
  /\ at[p][k] = "reserved" /\ Goto(p, k, "begin")
  /\ UNCHANGED <<db, born, web, source, faults, crashes>>

ThreadFails(p, k) ==
  /\ at[p][k] = "reserved" /\ faults < MaxFaults /\ faults' = faults + 1
  /\ Goto(p, k, "gone") /\ web' = [web EXCEPT ![p].initializing = FALSE]
  /\ UNCHANGED <<db, born, source, crashes>>

Begin(p, k) ==
  /\ at[p][k] = "begin" /\ Goto(p, k, "prepare")
  /\ web' = [web EXCEPT ![p].initializing = TRUE, ![p].recent = TRUE]
  /\ UNCHANGED <<db, born, source, faults, crashes>>

Step(p, k) ==
  /\ at[p][k] \in Steps \ {"gone", "reserved", "begin", "publish"}
  /\ ~Impossible(at[p][k], db)
  /\ db' = Effect(at[p][k], db) /\ Goto(p, k, Next_[at[p][k]])
  /\ web' = [web EXCEPT ![p].ready = IF at[p][k] = "probe" THEN TRUE ELSE @]
  /\ UNCHANGED <<born, source, faults, crashes>>

(* Storage that cannot be prepared ends the attempt; a later request may   *)
(* make another one.                                                       *)
AfterFailure_Bug(w) == [w EXCEPT !.ok = FALSE]
AfterFailure(w) == [w EXCEPT !.ok = FALSE, !.initializing = FALSE]

(* A budget store that cannot be prepared is only remembered as not ready. *)
Failed(p, k) ==
  IF at[p][k] \in Optional
    THEN Goto(p, k, "gate") /\ web' = [web EXCEPT ![p].ready = FALSE]
    ELSE /\ Goto(p, k, "gone")
         /\ web' = [web EXCEPT ![p] = IF p \in Webs THEN AfterFailure(@) ELSE Down]

StepFails(p, k) ==
  /\ at[p][k] \in Steps \ {"gone", "reserved", "begin", "gate", "publish"}
  /\ \/ Impossible(at[p][k], db) /\ UNCHANGED faults
     \/ faults < MaxFaults /\ faults' = faults + 1
  /\ db' = [db EXCEPT !.index = IF at[p][k] = "indexes" /\ Rebuilds(db) THEN "invalid" ELSE @]
  /\ Failed(p, k)
  /\ UNCHANGED <<born, source, crashes>>

Publish(p, k) ==
  /\ at[p][k] = "publish" /\ Goto(p, k, "gone")
  /\ web' = [web EXCEPT ![p].ok = TRUE, ![p].initializing = FALSE]
  /\ UNCHANGED <<db, born, source, faults, crashes>>

-----------------------------------------------------------------------------
(* Children.                                                               *)

(* A match child is started by a web process that is ready, or by hand.    *)
Child(c) ==
  /\ c \in Children /\ web[c].loader = "DOWN"
  /\ web' = [web EXCEPT ![c].loader = "READY", ![c].initializing = TRUE]
  /\ Goto(c, 1, "begin")
  /\ UNCHANGED <<db, born, source, faults, crashes>>

ChildEnds(c) ==
  /\ c \in Children /\ web[c].ok /\ web' = [web EXCEPT ![c] = Down]
  /\ UNCHANGED <<db, born, at, source, faults, crashes>>

(* What a source child looks at before it works: it creates nothing.       *)
Verified_Bug(d) == d.marker = "ours" /\ "app" \in d.schemas /\ "settings" \in d.tables
Verified(d) ==
  d.marker = "ours" /\ "app" \in d.schemas /\ {"settings", "shopping"} \subseteq d.tables

SourceChild ==
  /\ source = "none" /\ Verified(db) /\ source' = "working"
  /\ UNCHANGED <<db, born, web, at, faults, crashes>>

SourceEnds ==
  /\ source = "working" /\ source' = "none"
  /\ UNCHANGED <<db, born, web, at, faults, crashes>>

(* A process ends or is killed; a build under way leaves an invalid index. *)
Dies(p) ==
  /\ web[p].loader # "DOWN" /\ crashes < MaxCrashes /\ crashes' = crashes + 1
  /\ web' = [web EXCEPT ![p] = Down] /\ at' = [at EXCEPT ![p] = [k \in Slots |-> "gone"]]
  /\ db' \in {db, [db EXCEPT !.index =
                     IF Rebuilds(db) /\ \E k \in Slots : at[p][k] = "indexes"
                       THEN "invalid" ELSE @]}
  /\ UNCHANGED <<born, source, faults>>

Thread(p, k) ==
  StartThread(p, k) \/ ThreadFails(p, k) \/ Begin(p, k) \/ Step(p, k)
    \/ StepFails(p, k) \/ Publish(p, k)

Process(p) ==
  Start(p) \/ Imported(p) \/ ImportFails(p) \/ Request(p) \/ FiveSeconds(p)
    \/ ReadyProbe(p) \/ Child(p) \/ ChildEnds(p) \/ Dies(p) \/ \E k \in Slots : Thread(p, k)

Next == SourceChild \/ SourceEnds \/ \E p \in Procs : Process(p)

Spec == Init /\ [][Next]_vars

(* Threads run, the platform's probes keep coming, seconds pass.           *)
Fairness ==
  \A p \in Procs :
    /\ WF_vars(Request(p)) /\ WF_vars(FiveSeconds(p)) /\ WF_vars(Imported(p))
    /\ \A k \in Slots : WF_vars(Thread(p, k))

FairSpec == Spec /\ Fairness
-----------------------------------------------------------------------------
(* Properties.                                                             *)

(* A database that was empty is never left without its marker: an          *)
(* interrupted first boot would lock every later one out as protected.     *)
NeverLockedOut == born = "EMPTY" => ~Refused(db)

(* Storage of another origin is left exactly as it was found.              *)
OldStorageUntouched == [][born = "OLD" => UNCHANGED db]_vars

(* A process that says it is ready, a source child that works, and a store *)
(* about to be reported ready rest on everything they need: the marker,    *)
(* every table, an index that is valid.                                    *)
ReadyIsInstalled ==
  /\ \A p \in Procs : web[p].ok => db.marker = "ours" /\ db.tables = Tables
  /\ source = "working" => {"settings", "foundation", "shopping"} \subseteq db.tables
  /\ \A p \in Procs, k \in Slots : at[p][k] = "probe" => db.index = "valid"

(* Requests that meet a starting process never start a second initialiser. *)
OneInitializer ==
  \A p \in Procs : Cardinality({k \in Slots : at[p][k] # "gone"}) <= 1

(* An application that was imported over storage it may use gets ready, or *)
(* the process ends.                                                       *)
WebComesUp ==
  \A p \in Webs : web[p].loader = "READY" /\ born # "OLD"
                    ~> web[p].ok \/ web[p].loader = "DOWN"

=============================================================================
