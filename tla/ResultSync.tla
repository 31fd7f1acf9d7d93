----------------------------- MODULE ResultSync -----------------------------
(***************************************************************************)
(* The result snapshot: the local collector collects, purges, builds a     *)
(* snapshot and pushes it; the result server spools the upload, imports it *)
(* in a disposable worker under the heavy slot and serves the last one     *)
(* imported.                                                               *)
(*                                                                         *)
(* Two collectors may be started on one database, an operating-system lock *)
(* lets one of them run.  Collectors, the worker and the server die at any *)
(* step; client and server give up on an upload independently.             *)
(***************************************************************************)
EXTENDS Integers, FiniteSets

CONSTANTS
  Procs,      \* collectors started on the same local database
  LastDay,    \* bound on the calendar
  Window,     \* days the retention keeps
  Sections,   \* sections of a snapshot
  MaxSnaps    \* snapshots: a bound

None == "none"             \* no process
SyncAssumption ==
  /\ IsFiniteSet(Procs) /\ None \notin Procs /\ IsFiniteSet(Sections) /\ Sections # {}
  /\ {LastDay, Window, MaxSnaps} \subseteq Nat /\ LastDay > Window

VARIABLES
  today,
  db,        \* source dates of the rows in the local database
  lock,      \* the process that holds the lock file, or none
  pc, began, \* a collector: where it is, the day its cycle began
  snap,      \* number of snapshots built; the newest is the one in the file
  content,   \* snapshot: its source dates, and the day its cycle began
  upload,    \* snapshot: what the server does with it, and its collector
  slot,      \* the upload whose worker has the heavy slot, 0, or another worker
  tx,        \* what the import has written and not committed
  serving,   \* the committed serving rows: the active snapshot and its sections
  served,    \* snapshots that were active once
  acked      \* snapshots whose collector was told they are imported

local == <<today, db, lock, pc, began, snap, content>>
server == <<upload, slot, tx, serving, served>>
vars == <<local, server, acked>>

Malformed == 0
Other == -1                \* another heavy worker has the slot
Snaps == 1..MaxSnaps
Alive == {"spooled", "waiting", "importing", "imported"}
Ends == {"ok", "hold", "invalid", "timeout", "dead"}       \* the answers
NoUpload == [state |-> "absent", by |-> None, orphan |-> FALSE]
Nothing == [id |-> 0, parts |-> {}]

Init ==
  /\ today = Window + 1 /\ db = {Malformed, 1} /\ lock = None
  /\ pc = [p \in Procs |-> "off"] /\ began = [p \in Procs |-> 0]
  /\ snap = 0 /\ content = [i \in Snaps |-> [dates |-> {}, day |-> 0]]
  /\ upload = [i \in Snaps |-> NoUpload] /\ slot = 0 /\ tx = Nothing /\ serving = Nothing
  /\ served = {} /\ acked = {}

Midnight ==
  /\ today < LastDay /\ today' = today + 1
  /\ UNCHANGED <<db, lock, pc, began, snap, content, server, acked>>

-----------------------------------------------------------------------------
(* main: the lock is the operating system's, a death releases it.          *)
Start(p) ==
  /\ pc[p] = "off" /\ lock = None /\ lock' = p /\ pc' = [pc EXCEPT ![p] = "started"]
  /\ UNCHANGED <<today, db, began, snap, content, server, acked>>

Mine(p) == {i \in Snaps : upload[i].by = p /\ upload[i].state \in Alive}
(* The process ends: what it has uploaded goes on without it.              *)
End(p) ==
  /\ pc[p] # "off" /\ pc' = [pc EXCEPT ![p] = "off"] /\ lock' = None
  /\ upload' = [i \in Snaps |-> IF i \in Mine(p) THEN [upload[i] EXCEPT !.orphan = TRUE] ELSE upload[i]]
  /\ UNCHANGED <<today, db, began, snap, content, slot, tx, serving, served, acked>>

(* _run_loop: an automatic collector sleeps at least five minutes between  *)
(* two cycles, longer than the server lets a worker live.                  *)
Rested_Bug(p) == TRUE
Rested(p) == Mine(p) = {}
Cycle(p) ==
  /\ pc[p] \in {"started", "idle"} /\ Rested(p)
  /\ \E stage \in {"collect", "retention"} : pc' = [pc EXCEPT ![p] = stage]     \* --skip-collect
  /\ began' = [began EXCEPT ![p] = today]
  /\ UNCHANGED <<today, db, lock, snap, content, server, acked>>

(* A failed stage ends the cycle.                                          *)
AfterFailure_Bug(stage) == IF stage = "retention" THEN "snapshot" ELSE "idle"
AfterFailure(stage) == "idle"
Fail(p) ==
  /\ pc[p] \in {"collect", "retention", "snapshot", "sync"}
  /\ pc' = [pc EXCEPT ![p] = AfterFailure(pc[p])]
  /\ UNCHANGED <<today, db, lock, began, snap, content, server, acked>>

Cutoff(day) == day - Window
Collect(p) ==
  /\ pc[p] = "collect" /\ pc' = [pc EXCEPT ![p] = "retention"]
  /\ \E days \in SUBSET (Cutoff(today)..(today - 1)) : db' = db \cup days
  /\ UNCHANGED <<today, lock, began, snap, content, server, acked>>
(* purge_history, one transaction a step.                                  *)
Expired(p) == {d \in db : d = Malformed \/ d < Cutoff(began[p])}
Purge(p) ==
  /\ pc[p] = "retention"
  /\ IF Expired(p) = {}
       THEN pc' = [pc EXCEPT ![p] = "snapshot"] /\ UNCHANGED db
       ELSE \E d \in Expired(p) : db' = db \ {d} /\ UNCHANGED pc
  /\ UNCHANGED <<today, lock, began, snap, content, server, acked>>
(* build_local_snapshot, _write_snapshot.                                  *)
Build(p) ==
  /\ pc[p] = "snapshot" /\ snap < MaxSnaps /\ snap' = snap + 1
  /\ content' = [content EXCEPT ![snap'] = [dates |-> db, day |-> began[p]]]
  /\ pc' = [pc EXCEPT ![p] = "sync"]
  /\ UNCHANGED <<today, db, lock, began, server, acked>>
(* _push_snapshot_file; the server may refuse it at the door: see Fail.    *)
Push(p) ==
  /\ pc[p] = "sync" /\ pc' = [pc EXCEPT ![p] = "pushed"]
  /\ upload' = [upload EXCEPT ![snap] = [state |-> "spooled", by |-> p, orphan |-> FALSE]]
  /\ UNCHANGED <<today, db, lock, began, snap, content, slot, tx, serving, served, acked>>
(* The client reads the answer, or its own timeout comes first.            *)
Answered(p) ==
  /\ pc[p] = "pushed" /\ upload[snap].state \in Ends
  /\ acked' = IF upload[snap].state = "ok" THEN acked \cup {snap} ELSE acked
  /\ pc' = [pc EXCEPT ![p] = "idle"]
  /\ UNCHANGED <<today, db, lock, began, snap, content, server>>
GiveUp(p) ==
  /\ pc[p] = "pushed" /\ upload[snap].state \notin Ends /\ pc' = [pc EXCEPT ![p] = "idle"]
  /\ UNCHANGED <<today, db, lock, began, snap, content, server, acked>>

-----------------------------------------------------------------------------
(* The server: a worker an upload, the heavy slot, one transaction.        *)
To(i, state) == upload' = [upload EXCEPT ![i].state = state]
Spawn(i) ==
  /\ upload[i].state = "spooled" /\ To(i, "waiting")
  /\ UNCHANGED <<local, slot, tx, serving, served, acked>>
TakeSlot(i) ==
  /\ upload[i].state = "waiting" /\ slot = 0 /\ slot' = i /\ To(i, "importing")
  /\ UNCHANGED <<local, tx, serving, served, acked>>
OtherWorker ==
  /\ slot \in {0, Other} /\ slot' = IF slot = 0 THEN Other ELSE 0
  /\ UNCHANGED <<local, upload, tx, serving, served, acked>>

(* What readers of the serving database see of an import.                  *)
Seen_Bug(now, writes) == writes
Seen(now, writes) == now
Write(i) ==
  /\ upload[i].state = "importing"
  /\ \E part \in Sections \ (IF tx.id = i THEN tx.parts ELSE {}) :
       tx' = [id |-> i, parts |-> (IF tx.id = i THEN tx.parts ELSE {}) \cup {part}]
  /\ serving' = Seen(serving, tx')
  /\ UNCHANGED <<local, upload, slot, served, acked>>
Commit(i) ==
  /\ upload[i].state = "importing" /\ tx = [id |-> i, parts |-> Sections]
  /\ serving' = tx /\ served' = served \cup {i} /\ tx' = Nothing /\ To(i, "imported")
  /\ UNCHANGED <<local, slot, acked>>

(* The worker is over: memory hold, an invalid row, its timeout, a signal. *)
Freed(i) == IF slot = i THEN 0 ELSE slot
Rolled(i) == IF tx.id = i THEN Nothing ELSE tx
Answer_Bug(i, end) == IF end = "timeout" THEN "ok" ELSE end
Answer(i, end) == end
Over(i, end) ==
  /\ To(i, Answer(i, end)) /\ slot' = Freed(i) /\ tx' = Rolled(i)
  /\ UNCHANGED <<local, serving, served, acked>>
Exit(i) ==
  \/ upload[i].state = "imported" /\ Over(i, "ok")
  \/ upload[i].state \in {"waiting", "importing"} /\ Over(i, "hold")
  \/ upload[i].state = "importing" /\ Over(i, "invalid")
  \/ upload[i].state \in {"waiting", "importing", "imported"} /\ Over(i, "timeout")
  \/ upload[i].state \in Alive /\ Over(i, "dead")                 \* with the server

Next ==
  \/ Midnight \/ OtherWorker
  \/ \E p \in Procs : Start(p) \/ End(p) \/ Cycle(p) \/ Fail(p) \/ Collect(p) \/ Purge(p) \/ Build(p)
                        \/ Push(p) \/ Answered(p) \/ GiveUp(p)
  \/ \E i \in Snaps : Spawn(i) \/ TakeSlot(i) \/ Write(i) \/ Commit(i) \/ Exit(i)
Spec == Init /\ [][Next]_vars

-----------------------------------------------------------------------------
TypeOK ==
  /\ today \in 1..LastDay /\ db \subseteq 0..LastDay /\ lock \in Procs \cup {None}
  /\ \A p \in Procs : pc[p] # "off" <=> lock = p
  /\ \A i \in Snaps : upload[i].state \in {"absent"} \cup Alive \cup Ends
  /\ serving.id \in 0..snap /\ serving.parts \subseteq Sections

(* What is served is one snapshot, whole, whatever was killed in the       *)
(* middle of an import, and it holds no row that the retention of its own  *)
(* cycle should have taken away, nor one without a date.                   *)
ServedIsWhole ==
  /\ TypeOK
  /\ serving # Nothing => serving.parts = Sections
NothingLeaks ==
  \A i \in served : Malformed \notin content[i].dates /\ \A d \in content[i].dates : d >= Cutoff(content[i].day)

(* A collector that was told its snapshot is imported is right.            *)
AckedWasServed == acked \subseteq served

(* A newer snapshot is replaced by an older one only if the collector of   *)
(* the older one ended before its upload did: the lock and the pause       *)
(* between two cycles keep the uploads of running collectors in order.     *)
NewerStays ==
  [][serving'.id # 0 /\ serving'.id < serving.id => upload[serving'.id].orphan]_vars

=============================================================================
