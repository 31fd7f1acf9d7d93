----------------------------- MODULE MCService -----------------------------
(***************************************************************************)
(* What bounds the collectors and what their results become, for TLC: the  *)
(* requests the sources are asked with (SourceRequest), the gate that lets *)
(* a source child start, and the uploads that replace what is served.      *)
(*                                                                         *)
(* These parts share no state, so TLC explores them one at a time: a       *)
(* behaviour runs one of Parts while the others keep an initial state.     *)
(* NoProgressGate and ResultSync have their variables here, under a prefix.*)
(***************************************************************************)
EXTENDS SourceRequest, TLC

CONSTANTS
  Parts,        \* the components a run explores
  GateSources,  \* the two sources of the gate, interchangeable
  MaxGens, MaxRaw, Ceiling, Reserve, MaxPages, MaxFaults,  \* those of the gate
  Collectors,   \* processes that upload, interchangeable
  Sections,     \* sections of a snapshot
  SyncDays, Window, MaxSnaps  \* calendar, retention and snapshots

ASSUME PartsAssumption == Parts \subseteq {"request", "gate", "sync"}

VARIABLES
  part,   \* the component this behaviour runs
  g_rows, g_rec, g_slot, g_pages, g_raw, g_tokens, g_job, g_proc, g_child, g_lock,
  g_idle, g_requests, g_faults, g_fruitless, g_limited,
  u_today, u_db, u_lock, u_pc, u_began, u_snap, u_content, u_upload, u_slot, u_tx,
  u_serving, u_served, u_acked

gateVars ==
  <<g_rows, g_rec, g_slot, g_pages, g_raw, g_tokens, g_job, g_proc, g_child, g_lock,
    g_idle, g_requests, g_faults, g_fruitless, g_limited>>
syncVars ==
  <<u_today, u_db, u_lock, u_pc, u_began, u_snap, u_content, u_upload, u_slot, u_tx,
    u_serving, u_served, u_acked>>
serviceVars == <<part, vars, gateVars, syncVars>>

-----------------------------------------------------------------------------
G == INSTANCE NoProgressGate WITH
  Sources <- GateSources, rows <- g_rows, rec <- g_rec, slot <- g_slot,
  pages <- g_pages, raw <- g_raw, tokens <- g_tokens, job <- g_job, proc <- g_proc,
  child <- g_child, lock <- g_lock, idle <- g_idle, requests <- g_requests,
  faults <- g_faults, fruitless <- g_fruitless, limited <- g_limited

U == INSTANCE ResultSync WITH
  Procs <- Collectors, LastDay <- SyncDays,
  today <- u_today, db <- u_db, lock <- u_lock, pc <- u_pc, began <- u_began,
  snap <- u_snap, content <- u_content, upload <- u_upload, slot <- u_slot, tx <- u_tx,
  serving <- u_serving, served <- u_served, acked <- u_acked

ASSUME InstancesAssumption ==
  G!GateAssumption /\ U!SyncAssumption

Symmetry == Permutations(GateSources) \cup Permutations(Collectors)

ServiceInit ==
  /\ part \in Parts
  /\ Init /\ (part # "request" => source = "LOFIN")
  /\ G!Init /\ (part # "gate" => g_raw = 1)
  /\ U!Init

ServiceNext ==
  /\ \/ part = "request" /\ Next /\ UNCHANGED <<gateVars, syncVars>>
     \/ part = "gate"    /\ G!Next /\ UNCHANGED <<vars, syncVars>>
     \/ part = "sync"    /\ U!Next /\ UNCHANGED <<vars, gateVars>>
  /\ UNCHANGED part

ServiceSpec == ServiceInit /\ [][ServiceNext]_serviceVars

-----------------------------------------------------------------------------
(* No source is asked more often on a date than its limit allows; a page   *)
(* that is accepted holds every row of its response, except in the shapes  *)
(* AcceptedIsWhole names; and no page that was really delivered is refused.*)
RequestsAreWhole ==
  part = "request" => DailyLimit /\ AcceptedIsWhole /\ GenuineIsAccepted

(* No two source children run at once and the one that runs holds the      *)
(* durable slot; a source that makes no progress is launched twice at      *)
(* most; after an oversized response only an operator launches it; and     *)
(* memory is never trimmed beside a request, a launch or a child.          *)
LaunchesAreGated ==
  part = "gate" => G!OneChild /\ G!AtMostTwice /\ G!LimitWaitsForOperator /\ G!TrimIsAlone

(* What is served is one whole snapshot without an expired row, and a      *)
(* collector that was told it is imported is right.                        *)
ServedIsWhole ==
  part = "sync" => U!ServedIsWhole /\ U!NothingLeaks /\ U!AckedWasServed

(* A newer snapshot is replaced by an older one only if the collector of   *)
(* the older one ended before its upload did.                              *)
NewerStays == U!NewerStays

=============================================================================
