------------------------ MODULE PageCollectionProofs ------------------------
(***************************************************************************)
(* Proofs about PageCollection, for any number of processes, rows,         *)
(* generations and disturbances.                                           *)
(***************************************************************************)
EXTENDS PageCollection, FiniteSetTheorems, TLAPS


-----------------------------------------------------------------------------
(* Types.  TypeOK alone is not inductive: a receipt needs a generation and *)
(* a page number, which only an opened checkpoint has.                     *)

Started(c) == c.gen \in Gens /\ c.page >= 1 /\ c.size >= 1 /\ c.status # "ABSENT"

Opened == {"start", "startw", "opened", "loop", "page", "pagew", "failing", "failw"}

Shape ==
  /\ cp.status # "ABSENT" => Started(cp)
  /\ \A p \in Procs : pc[p] \in {"verify", "compact"} => Started(obs[p])
  /\ \A p \in Procs : pc[p] \in Opened => Started(com[p])

Typed == TypeOK /\ Shape

LEMMA RowsFinite ==
  ASSUME NEW S \in SUBSET Row
  PROVE  IsFiniteSet(S) /\ Cardinality(S) \in Nat
  BY RowsAssumption, FS_Subset, FS_CardinalityType

LEMMA NoCpType == NoCp \in Checkpoint
  BY BoundsAssumption DEF NoCp, Checkpoint, NoMarker, Reasons, Problems

LEMMA NoCpFields == NoCp.gen = 0 /\ NoCp.status = "ABSENT" /\ NoCp.marker = NoMarker
  BY DEF NoCp

LEMMA NewGenerationType ==
  ASSUME NEW g \in Gens, NEW size \in Nat \ {0}
  PROVE  NewGeneration(g, size) \in Checkpoint /\ Started(NewGeneration(g, size))
  BY DEF NewGeneration, Checkpoint, NoMarker, Started, Gens, Reasons, Problems

LEMMA PageTotalType ==
  ASSUME NEW c \in Checkpoint, NEW r \in Response
  PROVE  PageTotal(c, r) \in Int /\ PageTotal(c, r) >= c.total
  BY DEF PageTotal, Known, Checkpoint, Response

LEMMA ProblemType ==
  ASSUME NEW c \in Checkpoint, NEW r \in Response
  PROVE  SourceProblem(c, r) \in Problems
  BY DEF SourceProblem, Problems

LEMMA ReasonType ==
  ASSUME NEW c, NEW r, NEW f
  PROVE  ReasonOf(c, r, f) \in Reasons
  BY DEF ReasonOf, DoneReason, Reasons

(* The locals of a process that returns, raises or dies.                   *)
LEMMA LeaveTyped ==
  ASSUME Typed, NEW p \in Procs, Leave(p)
  PROVE  /\ pc' \in [Procs -> {"idle", "verify", "compact", "start", "startw", "opened",
                               "loop", "page", "pagew", "failing", "failw"}]
         /\ obs' \in [Procs -> Checkpoint] /\ com' \in [Procs -> Checkpoint]
         /\ replay' \in [Procs -> BOOLEAN] /\ resp' \in [Procs -> Response]
         /\ problem' \in [Procs -> Problems] /\ full' \in [Procs -> BOOLEAN]
         /\ outcome' \in [Procs -> {"FAILED", "INCOMPLETE"}]
         /\ \A q \in Procs : pc'[q] \in {"verify", "compact"} => Started(obs'[q])
         /\ \A q \in Procs : pc'[q] \in Opened => Started(com'[q])
<1>1. NoResponse \in Response
  BY DEF NoResponse, Response
<1>2. NoCp \in Checkpoint
  BY NoCpType
<1>3. pc' = [pc EXCEPT ![p] = "idle"] /\ obs' = [obs EXCEPT ![p] = NoCp]
      /\ com' = [com EXCEPT ![p] = NoCp]
  BY DEF Leave, Go
<1>4. /\ pc' \in [Procs -> {"idle", "verify", "compact", "start", "startw", "opened",
                            "loop", "page", "pagew", "failing", "failw"}]
      /\ obs' \in [Procs -> Checkpoint] /\ com' \in [Procs -> Checkpoint]
  BY <1>2, <1>3 DEF Typed, TypeOK
<1>5. /\ replay' \in [Procs -> BOOLEAN] /\ resp' \in [Procs -> Response]
      /\ full' \in [Procs -> BOOLEAN]
  BY <1>1 DEF Typed, TypeOK, Leave
<1>6. /\ problem' \in [Procs -> Problems]
      /\ outcome' \in [Procs -> {"FAILED", "INCOMPLETE"}]
  BY DEF Typed, TypeOK, Leave, Problems
<1>7. ASSUME NEW q \in Procs
      PROVE  /\ pc'[q] \in {"verify", "compact"} => Started(obs'[q])
             /\ pc'[q] \in Opened => Started(com'[q])
  <2>1. CASE q = p
    BY <2>1, <1>3 DEF Typed, TypeOK, Opened
  <2>2. CASE q # p
    BY <2>2, <1>3 DEF Typed, TypeOK, Shape
  <2>3. QED
    BY <2>1, <2>2
<1>8. QED
  BY <1>4, <1>5, <1>6, <1>7

LEMMA InitTyped == Init => Typed
<1>1. ASSUME Init PROVE TypeOK
  <2>1. NoResponse \in Response
    BY DEF NoResponse, Response
  <2>2. records \in [Keys -> Record] /\ receipts \subseteq Receipt
    BY <1>1, Zenon DEF Init, Record, NoRecord
  <2>8. minted = 0 /\ upsets = 0
    BY <1>1 DEF Init
  <2>6. minted \in 0..MaxGens /\ upsets \in 0..MaxUpsets
    BY <2>8, BoundsAssumption
  <2>7. replay \in [Procs -> BOOLEAN] /\ full \in [Procs -> BOOLEAN]
    BY <1>1 DEF Init
  <2>3. /\ cp \in Checkpoint /\ obs \in [Procs -> Checkpoint] /\ com \in [Procs -> Checkpoint]
        /\ resp \in [Procs -> Response]
    BY <1>1, <2>1, NoCpType DEF Init
  <2>4. problem \in [Procs -> Problems] /\ outcome \in [Procs -> {"FAILED", "INCOMPLETE"}]
    BY <1>1 DEF Init, Problems
  <2>5. QED
    BY <1>1, <2>2, <2>3, <2>4, <2>6, <2>7 DEF Init, TypeOK
<1>2. ASSUME Init PROVE Shape
  BY <1>2 DEF Init, Shape, Opened, NoCp
<1>3. QED
  BY <1>1, <1>2 DEF Typed

-----------------------------------------------------------------------------
(* Every action keeps the types.                                           *)

LEMMA PlanTyped ==
  ASSUME Typed, NEW p \in Procs, NEW size \in Nat \ {0}, NEW b \in BOOLEAN,
         PlanNewGeneration(p, size, b)
  PROVE  /\ minted' \in 0..MaxGens
         /\ com' = [com EXCEPT ![p] = NewGeneration(minted + 1, size)]
         /\ com' \in [Procs -> Checkpoint] /\ Started(com'[p])
         /\ replay' \in [Procs -> BOOLEAN]
         /\ pc' = [pc EXCEPT ![p] = "start"]
<1>0. minted \in 0..MaxGens /\ minted < MaxGens
  BY DEF PlanNewGeneration, Typed, TypeOK
<1>1. minted + 1 \in Gens
  BY <1>0, BoundsAssumption DEF Gens
<1>2. NewGeneration(minted + 1, size) \in Checkpoint /\ Started(NewGeneration(minted + 1, size))
  BY <1>1, NewGenerationType
<1>3. QED
  BY <1>1, <1>2 DEF PlanNewGeneration, Typed, TypeOK, Go, Gens

LEMMA UpsetTyped ==
  ASSUME Typed, Upset \/ UNCHANGED upsets
  PROVE  upsets' \in 0..MaxUpsets
<1>1. upsets \in 0..MaxUpsets
  BY DEF Typed, TypeOK
<1>2. QED
  BY <1>1, BoundsAssumption DEF Upset

LEMMA LookupTyped ==
  ASSUME Typed, NEW p \in Procs, NEW resume \in BOOLEAN, NEW size \in Sizes,
         Lookup(p, resume, size)
  PROVE  Typed'
<1>0. size \in Nat \ {0} /\ pc[p] = "idle" /\ obs' = [obs EXCEPT ![p] = cp]
  BY SizesAssumption DEF Lookup
<1>1. upsets' \in 0..MaxUpsets
  BY UpsetTyped DEF Lookup
<1>2. ASSUME NEW b \in BOOLEAN, PlanNewGeneration(p, size, b)
      PROVE  Typed'
  BY <1>0, <1>1, <1>2, PlanTyped DEF Lookup, Typed, TypeOK, Shape, Opened, durable
<1>3. CASE cp.status # "ABSENT" /\ Go(p, "verify") /\ UNCHANGED <<minted, com, replay>>
  BY <1>0, <1>1, <1>3 DEF Lookup, Typed, TypeOK, Shape, Opened, durable, Go
<1>4. \/ \E b \in BOOLEAN : PlanNewGeneration(p, size, b)
      \/ cp.status # "ABSENT" /\ Go(p, "verify") /\ UNCHANGED <<minted, com, replay>>
  BY DEF Lookup, Drifted
<1>5. QED
  BY <1>2, <1>3, <1>4

LEMMA VerifyTyped ==
  ASSUME Typed, NEW p \in Procs, Verify(p)
  PROVE  Typed'
<1>0. pc[p] = "verify" /\ Started(obs[p]) /\ obs[p] \in Checkpoint
  BY DEF Verify, Typed, TypeOK, Shape
<1>1. CASE Go(p, "compact") /\ UNCHANGED <<minted, obs, com, replay>>
  BY <1>0, <1>1 DEF Verify, Typed, TypeOK, Shape, Opened, durable, Go
<1>2. CASE Go(p, "idle") /\ obs' = [obs EXCEPT ![p] = NoCp] /\ UNCHANGED <<minted, com, replay>>
  BY <1>0, <1>2, NoCpType DEF Verify, Typed, TypeOK, Shape, Opened, durable, Go
<1>3. CASE /\ com' = [com EXCEPT ![p] = [obs[p] EXCEPT !.status = "RUNNING", !.err = ""]]
           /\ Go(p, "start") /\ UNCHANGED <<minted, obs, replay>>
  <2>1. [obs[p] EXCEPT !.status = "RUNNING", !.err = ""] \in Checkpoint
    BY <1>0 DEF Checkpoint, Problems
  <2>2. Started([obs[p] EXCEPT !.status = "RUNNING", !.err = ""])
    BY <1>0 DEF Checkpoint, Started
  <2>3. QED
    BY <1>0, <1>3, <2>1, <2>2 DEF Verify, Typed, TypeOK, Shape, Opened, durable, Go
<1>4. CASE PlanNewGeneration(p, obs[p].size, FALSE) /\ UNCHANGED obs
  <2>1. obs[p].size \in Nat \ {0}
    BY <1>0 DEF Started, Checkpoint
  <2>2. QED
    BY <1>0, <1>4, <2>1, PlanTyped DEF Verify, Typed, TypeOK, Shape, Opened, durable
<1>5. QED
  BY <1>1, <1>2, <1>3, <1>4 DEF Verify

LEMMA CompactTyped ==
  ASSUME Typed, NEW p \in Procs, CompactReceipts(p)
  PROVE  Typed'
<1>1. PagesOf(receipts, obs[p].gen) \in SUBSET Receipt
  BY DEF Typed, TypeOK, PagesOf
<1>2. cp' \in Checkpoint /\ receipts' \subseteq Receipt /\ (cp'.status # "ABSENT" => Started(cp'))
  BY <1>1 DEF CompactReceipts, Typed, TypeOK, Shape, Checkpoint, Started
<1>3. QED
  BY <1>2, LeaveTyped DEF CompactReceipts, Typed, TypeOK, Shape

LEMMA StartReadTyped ==
  ASSUME Typed, NEW p \in Procs, StartRead(p)
  PROVE  Typed'
<1>1. CASE Go(p, "startw") /\ UNCHANGED local
  BY <1>1 DEF StartRead, Typed, TypeOK, Shape, Opened, durable, local, Go
<1>2. CASE Leave(p)
  BY <1>2, LeaveTyped DEF StartRead, Typed, TypeOK, Shape, durable
<1>3. QED
  BY <1>1, <1>2 DEF StartRead

LEMMA StartWriteTyped ==
  ASSUME Typed, NEW p \in Procs, StartWrite(p)
  PROVE  Typed'
<1>1. Started(com[p]) /\ com[p] \in Checkpoint
  BY DEF StartWrite, Typed, TypeOK, Shape, Opened
<1>2. receipts' \subseteq Receipt
  BY DEF StartWrite, Typed, TypeOK
<1>3. QED
  BY <1>1, <1>2 DEF StartWrite, Typed, TypeOK, Shape, Opened, local, Go

LEMMA ScanFullPageTyped ==
  ASSUME Typed, NEW p \in Procs, ScanFullPage(p)
  PROVE  Typed'
<1>1. full' \in [Procs -> BOOLEAN]
  BY DEF ScanFullPage, Typed, TypeOK
<1>2. QED
  BY <1>1 DEF ScanFullPage, Typed, TypeOK, Shape, Opened, durable, Go

LEMMA FetchTyped ==
  ASSUME Typed, NEW p \in Procs, Fetch(p)
  PROVE  Typed'
<1>1. SettledPage(com[p].page, com[p].size) \in Response
  BY RowsAssumption DEF SettledPage, Response
<1>2. DisturbedPages \subseteq Response
  BY DEF DisturbedPages, Response
<1>3. resp' \in [Procs -> Response] /\ upsets' \in 0..MaxUpsets
  BY <1>1, <1>2, UpsetTyped DEF Fetch, Typed, TypeOK
<1>4. problem' \in [Procs -> Problems]
  BY <1>3, ProblemType DEF Fetch, Typed, TypeOK
<1>5. QED
  BY <1>3, <1>4 DEF Fetch, Typed, TypeOK, Shape, Opened, durable, Go

LEMMA FailTyped ==
  ASSUME Typed, NEW p \in Procs, NEW s \in {"FAILED", "INCOMPLETE"}, Fail(p, s),
         pc[p] \in Opened, UNCHANGED <<durable, minted>>, upsets' \in 0..MaxUpsets
  PROVE  Typed'
  BY DEF Fail, Typed, TypeOK, Shape, Opened, durable, Go

LEMMA PageReadTyped ==
  ASSUME Typed, NEW p \in Procs, PageRead(p)
  PROVE  Typed'
<1>1. CASE Fail(p, "FAILED")
  BY <1>1, FailTyped DEF PageRead, Opened, Typed, TypeOK
<1>2. CASE SamePage(cp, com[p]) /\ cp.status = "RUNNING"
  <2>1. problem' \in [Procs -> Problems]
    BY <1>2 DEF PageRead, Typed, TypeOK, Problems
  <2>2. QED
    BY <1>2, <2>1 DEF PageRead, Typed, TypeOK, Shape, Opened, durable, Go
<1>3. QED
  BY <1>1, <1>2 DEF PageRead

LEMMA StopPageTyped ==
  ASSUME Typed, NEW p \in Procs, StopPage(p)
  PROVE  Typed'
<1>1. com[p] \in Checkpoint /\ Started(com[p]) /\ problem[p] \in Problems
  BY DEF StopPage, Typed, TypeOK, Shape, Opened
<1>2. cp' \in Checkpoint /\ Started(cp')
  BY <1>1 DEF StopPage, Checkpoint, Started
<1>3. QED
  BY <1>2, LeaveTyped DEF StopPage, Typed, TypeOK, Shape

LEMMA FailWriteTyped ==
  ASSUME Typed, NEW p \in Procs, FailWrite(p)
  PROVE  Typed'
<1>1. com[p] \in Checkpoint /\ Started(com[p]) /\ outcome[p] \in {"FAILED", "INCOMPLETE"}
  BY DEF FailWrite, Typed, TypeOK, Shape, Opened
<1>2. cp' \in Checkpoint /\ Started(cp')
  BY <1>1 DEF FailWrite, Checkpoint, Started
<1>3. QED
  BY <1>2, LeaveTyped DEF FailWrite, Typed, TypeOK, Shape

LEMMA PageRollbackTyped ==
  ASSUME Typed, NEW p \in Procs, PageRollback(p)
  PROVE  Typed'
  BY FailTyped DEF PageRollback, Typed, TypeOK, Opened

LEMMA FailReadTyped ==
  ASSUME Typed, NEW p \in Procs, FailRead(p)
  PROVE  Typed'
<1>1. CASE Go(p, "failw") /\ UNCHANGED local
  BY <1>1 DEF FailRead, Typed, TypeOK, Shape, Opened, durable, local, Go
<1>2. CASE Leave(p)
  BY <1>2, LeaveTyped DEF FailRead, Typed, TypeOK, Shape, durable
<1>3. QED
  BY <1>1, <1>2 DEF FailRead

LEMMA GiveUpTyped ==
  ASSUME Typed, NEW p \in Procs, SpendPageBudget(p) \/ Crash(p)
  PROVE  Typed'
<1>1. upsets' \in 0..MaxUpsets /\ Leave(p) /\ UNCHANGED <<durable, minted>>
  BY UpsetTyped DEF SpendPageBudget, Crash
<1>2. QED
  BY <1>1, LeaveTyped DEF Typed, TypeOK, Shape, durable

LEMMA InterruptTyped ==
  ASSUME Typed, NEW p \in Procs, Interrupt(p)
  PROVE  Typed'
<1>1. upsets' \in 0..MaxUpsets /\ pc[p] \in Opened
  BY UpsetTyped DEF Interrupt, Opened
<1>2. QED
  BY <1>1, FailTyped DEF Interrupt

(* What an accepted page writes.                                           *)
LEMMA PageWritesTyped ==
  ASSUME Typed, NEW p \in Procs, pc[p] = "pagew"
  PROVE  /\ NewReceipt(p) \in Receipt
         /\ NextCommitted(p) \in Checkpoint /\ Started(NextCommitted(p))
         /\ Fetched(p) \in Nat
         /\ Preserved(resp[p].rows) \in [Keys -> Record]
<1>1. com[p] \in Checkpoint /\ Started(com[p]) /\ resp[p] \in Response
  BY DEF Typed, TypeOK, Shape, Opened
<1>2. resp[p].rows \in SUBSET Row /\ resp[p].rows \cap Target \in SUBSET Row
  BY <1>1 DEF Response
<1>3. Cardinality(resp[p].rows) \in Nat /\ Cardinality(resp[p].rows \cap Target) \in Nat
  BY <1>2, RowsFinite
<1>4. PageTotal(com[p], resp[p]) \in Int
  BY <1>1, PageTotalType
<1>5. NewReceipt(p) \in Receipt
  <2>1. com[p].gen \in Gens /\ com[p].page \in Nat \ {0} /\ com[p].size \in Nat \ {0}
    BY <1>1 DEF Started, Checkpoint
  <2>2. ReasonOf(com[p], resp[p], full[p]) \in Reasons
    BY ReasonType
  <2>3. QED
    BY <1>2, <1>4, <2>1, <2>2 DEF NewReceipt, Receipt
<1>6. Fetched(p) \in Nat
  BY <1>1, <1>3 DEF Fetched, Checkpoint
<1>7. NextCommitted(p) \in Checkpoint /\ Started(NextCommitted(p))
  <2>1. com[p].page + 1 \in Nat \ {0}
        /\ com[p].saved + Cardinality(resp[p].rows \cap Target) \in Nat
    BY <1>1, <1>3 DEF Checkpoint
  <2>2. NextCommitted(p) \in Checkpoint
    BY <1>1, <1>4, <1>6, <2>1 DEF NextCommitted, Checkpoint
  <2>3. QED
    BY <1>1, <2>1, <2>2 DEF NextCommitted, Checkpoint, Started
<1>8. Preserved(resp[p].rows) \in [Keys -> Record]
  <2>1. ASSUME NEW k \in Keys, \E i \in resp[p].rows \cap Target : i.key = k
        PROVE  (CHOOSE i \in resp[p].rows \cap Target : i.key = k).payload \in Payloads
    <3>1. (CHOOSE i \in resp[p].rows \cap Target : i.key = k) \in Row
      BY <1>2, <2>1
    <3>2. QED
      BY <3>1 DEF Row
  <2>2. records \in [Keys -> Record]
    BY DEF Typed, TypeOK
  <2>3. QED
    BY <2>1, <2>2 DEF Preserved, Record
<1>9. QED
  BY <1>5, <1>6, <1>7, <1>8

LEMMA CommitPageTyped ==
  ASSUME Typed, NEW p \in Procs, CommitPage(p)
  PROVE  Typed'
<1>0. pc[p] = "pagew"
  BY DEF CommitPage, PageAccepted
<1>1. /\ cp' \in Checkpoint /\ Started(cp') /\ receipts' \subseteq Receipt
      /\ records' \in [Keys -> Record]
      /\ NextCommitted(p) \in Checkpoint /\ Started(NextCommitted(p))
  BY <1>0, PageWritesTyped DEF CommitPage, Typed, TypeOK
<1>2. NoResponse \in Response
  BY DEF NoResponse, Response
<1>3. full' \in [Procs -> BOOLEAN]
  BY DEF CommitPage, Typed, TypeOK
<1>4. problem' \in [Procs -> Problems] /\ resp' \in [Procs -> Response]
  BY <1>2 DEF CommitPage, Typed, TypeOK, Problems
<1>5. com' \in [Procs -> Checkpoint] /\ \A q \in Procs : pc'[q] \in Opened => Started(com'[q])
  BY <1>0, <1>1 DEF CommitPage, Typed, TypeOK, Shape, Opened, Go
<1>6. QED
  BY <1>0, <1>1, <1>3, <1>4, <1>5 DEF CommitPage, Typed, TypeOK, Shape, Opened, Go

LEMMA FinishScopeTyped ==
  ASSUME Typed, NEW p \in Procs, FinishScope(p)
  PROVE  Typed'
<1>0. pc[p] = "pagew"
  BY DEF FinishScope, PageAccepted
<1>1. /\ NewReceipt(p) \in Receipt /\ NextCommitted(p) \in Checkpoint
      /\ Started(NextCommitted(p))
      /\ Preserved(resp[p].rows) \in [Keys -> Record]
  BY <1>0, PageWritesTyped
<1>2. ReasonOf(com[p], resp[p], full[p]) \in Reasons
  BY ReasonType
<1>3. receipts \cup {NewReceipt(p)} \subseteq Receipt
  BY <1>1 DEF Typed, TypeOK
<1>4. receipts' \subseteq Receipt /\ PagesOf(receipts \cup {NewReceipt(p)}, com[p].gen) \in SUBSET Receipt
  BY <1>3 DEF FinishScope, PagesOf
<1>5. cp' \in Checkpoint /\ Started(cp')
  BY <1>1, <1>2, <1>4 DEF FinishScope, Checkpoint, Started, NoMarker
<1>6. records' \in [Keys -> Record]
  <2>1. ASSUME NEW r \in Record PROVE [r EXCEPT !.active = FALSE] \in Record
    BY <2>1, Zenon DEF Record
  <2>2. QED
    BY <1>1, <2>1 DEF FinishScope, Deactivated
<1>7. QED
  BY <1>4, <1>5, <1>6, LeaveTyped DEF FinishScope, Typed, TypeOK, Shape

LEMMA NextTyped == Typed /\ [Next]_vars => Typed'
<1>1. SUFFICES ASSUME Typed, [Next]_vars PROVE Typed'
  OBVIOUS
<1>2. CASE UNCHANGED vars
  BY <1>1, <1>2 DEF Typed, TypeOK, Shape, vars
<1>3. ASSUME NEW p \in Procs, NEW resume \in BOOLEAN, NEW size \in Sizes,
             Lookup(p, resume, size)
      PROVE  Typed'
  BY <1>1, <1>3, LookupTyped
<1>4. ASSUME NEW p \in Procs, Work(p)
      PROVE  Typed'
  BY <1>1, <1>4, VerifyTyped, CompactTyped, StartReadTyped, StartWriteTyped,
     ScanFullPageTyped, FetchTyped, PageReadTyped, StopPageTyped, PageRollbackTyped,
     CommitPageTyped, FinishScopeTyped, FailReadTyped, FailWriteTyped DEF Work
<1>5. ASSUME NEW p \in Procs, SpendPageBudget(p) \/ Interrupt(p) \/ Crash(p)
      PROVE  Typed'
  BY <1>1, <1>5, GiveUpTyped, InterruptTyped
<1>6. QED
  BY <1>1, <1>2, <1>3, <1>4, <1>5 DEF Next

(* The collector's state always has the shape its tables and locals have,  *)
(* whatever the source answers and however the processes interleave.       *)
THEOREM TypeCorrect == Spec => []TypeOK
<1>1. Init => Typed
  BY InitTyped
<1>2. Typed /\ [Next]_vars => Typed'
  BY NextTyped
<1>3. Typed => TypeOK
  BY DEF Typed
<1>4. QED
  BY <1>1, <1>2, <1>3, PTL DEF Spec

-----------------------------------------------------------------------------
(* Receipts and checkpoint.  ReceiptChain is not inductive by itself: a    *)
(* writer must know that the checkpoint it compared is still the one it    *)
(* overwrites (Compared), which needs writers to exclude one another       *)
(* (Alone), and a claimed checkpoint must be either the observed one or a  *)
(* generation nobody else holds (Claims), which needs generations to be    *)
(* drawn in order (Drawn).                                                 *)

Alone ==
  \A p, q \in Procs : p # q =>
    /\ ~(InTxn(p) /\ InTxn(q))
    /\ Exclusive => pc[p] = "idle" \/ pc[q] = "idle"

Drawn ==
  /\ cp.gen <= minted
  /\ \A r \in receipts : r.gen <= minted
  /\ \A p \in Procs : com[p].gen <= minted /\ obs[p].gen <= minted

Fresh(p) ==
  /\ com[p].page = 1 /\ com[p].fetched = 0 /\ com[p].marker = NoMarker
  /\ com[p].gen # cp.gen
  /\ \A r \in receipts : r.gen # com[p].gen
  /\ \A q \in Procs : obs[q].gen # com[p].gen /\ (q # p => com[q].gen # com[p].gen)

Resumed(p) ==
  /\ com[p].gen = obs[p].gen /\ com[p].marker = obs[p].marker
  /\ com[p].page = obs[p].page /\ com[p].fetched = obs[p].fetched
  /\ ~replay[p]

Claims ==
  \A p \in Procs :
    /\ pc[p] \in {"start", "startw"} => Fresh(p) \/ Resumed(p)
    /\ pc[p] \in {"idle", "verify"} => ~replay[p]
    /\ pc[p] = "compact" => obs[p].page >= 2

Compared ==
  \A p \in Procs :
    /\ pc[p] = "startw" => SameStart(cp, obs[p])
    /\ pc[p] \in {"pagew", "failw"} => SamePage(cp, com[p])

Absent == cp.status = "ABSENT" => cp.gen = 0

Markers ==
  /\ cp.marker # NoMarker => cp.status = "COMPLETE"
  /\ \A p \in Procs : obs[p].marker # NoMarker => obs[p].status = "COMPLETE"
  /\ \A p \in Procs : com[p].marker = NoMarker

ChainInv == Typed /\ Alone /\ Drawn /\ Claims /\ Compared /\ Absent /\ Markers /\ ReceiptChain

LEMMA InitChain == Init => ChainInv
<1>1. SUFFICES ASSUME Init PROVE Alone /\ Drawn /\ Claims /\ Compared /\ Absent /\ Markers /\ ReceiptChain
  BY InitTyped DEF ChainInv
<1>2. /\ cp = NoCp /\ receipts = {} /\ minted = 0
      /\ \A p \in Procs : pc[p] = "idle" /\ obs[p] = NoCp /\ com[p] = NoCp
  BY <1>1 DEF Init
<1>0. \A p \in Procs : ~replay[p]
  BY <1>1, Zenon DEF Init
<1>3. Alone /\ Compared
  BY <1>2 DEF Alone, Compared, InTxn
<1>5. Drawn /\ Absent /\ ReceiptChain
  BY <1>2, NoCpFields DEF Drawn, Absent, ReceiptChain
<1>6. Markers
  BY <1>2, NoCpFields DEF Markers
<1>4. Claims
  BY <1>0, <1>2 DEF Claims
<1>7. QED
  BY <1>3, <1>4, <1>5, <1>6

(* What one step of p may do to the generations anybody holds: it takes    *)
(* them from the checkpoint or from its own locals, or draws the next one. *)
Flow(p) ==
  /\ \A q \in Procs \ {p} : pc'[q] = pc[q] /\ obs'[q] = obs[q] /\ com'[q] = com[q]
                            /\ replay'[q] = replay[q]
  /\ minted' \in {minted, minted + 1}
  /\ obs'[p].gen \in {obs[p].gen, cp.gen, 0}
  /\ \/ com'[p].gen \in {com[p].gen, obs[p].gen, 0}
     \/ com'[p].gen = minted + 1 /\ minted' = minted + 1
  /\ cp'.gen \in {cp.gen, com[p].gen}
  /\ \A r \in receipts' : r \in receipts \/ r.gen = com[p].gen

LEMMA LeaveFlow ==
  ASSUME Typed, NEW p \in Procs, Leave(p)
  PROVE  /\ \A q \in Procs \ {p} : pc'[q] = pc[q] /\ obs'[q] = obs[q] /\ com'[q] = com[q]
                                   /\ replay'[q] = replay[q]
         /\ pc'[p] = "idle" /\ ~replay'[p]
         /\ obs'[p].gen = 0 /\ com'[p].gen = 0
  BY DEF Leave, Go, Typed, TypeOK, NoCp

LEMMA FailFlow ==
  ASSUME Typed, NEW p \in Procs, NEW s, Fail(p, s)
  PROVE  /\ \A q \in Procs \ {p} : pc'[q] = pc[q] /\ obs'[q] = obs[q] /\ com'[q] = com[q]
                                   /\ replay'[q] = replay[q]
         /\ pc'[p] = "failing" /\ replay'[p] = replay[p]
         /\ obs'[p] = obs[p] /\ com'[p] = com[p]
  BY DEF Fail, Go, Typed, TypeOK

LEMMA PlanFlow ==
  ASSUME Typed, NEW p \in Procs, NEW size, NEW b \in BOOLEAN, PlanNewGeneration(p, size, b)
  PROVE  /\ \A q \in Procs \ {p} : pc'[q] = pc[q] /\ com'[q] = com[q] /\ replay'[q] = replay[q]
         /\ pc'[p] = "start" /\ minted' = minted + 1
         /\ com'[p].gen = minted + 1 /\ com'[p].page = 1 /\ com'[p].fetched = 0
         /\ com'[p].marker = NoMarker
  BY DEF PlanNewGeneration, Go, Typed, TypeOK, NewGeneration

LEMMA LookupFlow ==
  ASSUME Typed, NEW p \in Procs, NEW resume, NEW size, Lookup(p, resume, size)
  PROVE  Flow(p)
<1>1. /\ \A q \in Procs \ {p} : obs'[q] = obs[q]
      /\ obs'[p] = cp /\ UNCHANGED <<cp, receipts>>
  BY DEF Lookup, durable, Typed, TypeOK
<1>2. ASSUME NEW b \in BOOLEAN, PlanNewGeneration(p, size, b) PROVE Flow(p)
  BY <1>1, <1>2, PlanFlow DEF Flow
<1>3. CASE Go(p, "verify") /\ UNCHANGED <<minted, com, replay>>
  BY <1>1, <1>3 DEF Flow, Go, Typed, TypeOK
<1>4. \/ \E b \in BOOLEAN : PlanNewGeneration(p, size, b)
      \/ Go(p, "verify") /\ UNCHANGED <<minted, com, replay>>
  BY DEF Lookup, Drifted
<1>5. QED
  BY <1>2, <1>3, <1>4

LEMMA VerifyFlow ==
  ASSUME Typed, NEW p \in Procs, Verify(p)
  PROVE  Flow(p)
<1>1. UNCHANGED <<cp, receipts>>
  BY DEF Verify, durable
<1>2. CASE UNCHANGED <<minted, com, replay>> /\ UNCHANGED obs /\ Go(p, "compact")
  BY <1>1, <1>2 DEF Flow, Go, Typed, TypeOK
<1>3. CASE /\ UNCHANGED <<minted, com, replay>>
           /\ obs' = [obs EXCEPT ![p] = NoCp] /\ Go(p, "idle")
  BY <1>1, <1>3 DEF Flow, Go, Typed, TypeOK, NoCp
<1>4. CASE /\ com' = [com EXCEPT ![p] = [obs[p] EXCEPT !.status = "RUNNING", !.err = ""]]
           /\ Go(p, "start") /\ UNCHANGED <<minted, obs, replay>>
  <2>1. com'[p] = [obs[p] EXCEPT !.status = "RUNNING", !.err = ""]
    BY <1>4 DEF Typed, TypeOK
  <2>2. com'[p].gen = obs[p].gen
    BY <2>1 DEF Typed, TypeOK, Checkpoint
  <2>3. QED
    BY <1>1, <1>4, <2>2 DEF Flow, Go, Typed, TypeOK
<1>5. CASE PlanNewGeneration(p, obs[p].size, FALSE) /\ UNCHANGED obs
  BY <1>1, <1>5, PlanFlow DEF Flow
<1>6. QED
  BY <1>2, <1>3, <1>4, <1>5 DEF Verify

LEMMA OpenFlow ==
  ASSUME Typed, NEW p \in Procs,
         CompactReceipts(p) \/ StartRead(p) \/ StartWrite(p) \/ ScanFullPage(p)
  PROVE  Flow(p)
<1>1. CASE CompactReceipts(p)
  <2>1. cp'.gen = cp.gen /\ receipts' \subseteq receipts
    BY <1>1 DEF CompactReceipts, Typed, TypeOK, Checkpoint
  <2>2. QED
    BY <1>1, <2>1, LeaveFlow DEF CompactReceipts, Flow
<1>2. CASE StartRead(p)
  <2>1. CASE Leave(p)
    BY <1>2, <2>1, LeaveFlow DEF StartRead, Flow, durable
  <2>2. CASE Go(p, "startw") /\ UNCHANGED local
    BY <1>2, <2>2 DEF StartRead, Flow, durable, local, Go, Typed, TypeOK
  <2>3. QED
    BY <1>2, <2>1, <2>2 DEF StartRead
<1>3. CASE StartWrite(p)
  BY <1>3 DEF StartWrite, Flow, local, Go, Typed, TypeOK
<1>4. CASE ScanFullPage(p)
  BY <1>4 DEF ScanFullPage, Flow, durable, Go, Typed, TypeOK
<1>5. QED
  BY <1>1, <1>2, <1>3, <1>4

LEMMA LoopFlow ==
  ASSUME Typed, NEW p \in Procs,
         Fetch(p) \/ SpendPageBudget(p) \/ Interrupt(p) \/ PageRead(p) \/ StopPage(p)
         \/ PageRollback(p)
  PROVE  Flow(p)
<1>1. CASE Fetch(p)
  BY <1>1 DEF Fetch, Flow, durable, Go, Typed, TypeOK
<1>2. CASE SpendPageBudget(p)
  BY <1>2, LeaveFlow DEF SpendPageBudget, Flow, durable
<1>3. CASE Interrupt(p)
  BY <1>3, FailFlow DEF Interrupt, Flow, durable
<1>4. CASE PageRead(p)
  <2>1. CASE Fail(p, "FAILED")
    BY <1>4, <2>1, FailFlow DEF PageRead, Flow, durable
  <2>2. CASE Go(p, "pagew") /\ UNCHANGED <<obs, com, replay>>
    BY <1>4, <2>2 DEF PageRead, Flow, durable, Go, Typed, TypeOK
  <2>3. QED
    BY <1>4, <2>1, <2>2 DEF PageRead
<1>5. CASE StopPage(p)
  <2>1. cp'.gen = com[p].gen
    BY <1>5 DEF StopPage, Typed, TypeOK, Checkpoint
  <2>2. QED
    BY <1>5, <2>1, LeaveFlow DEF StopPage, Flow
<1>6. CASE PageRollback(p)
  BY <1>6, FailFlow DEF PageRollback, Flow, durable
<1>7. QED
  BY <1>1, <1>2, <1>3, <1>4, <1>5, <1>6

LEMMA CommitFlow ==
  ASSUME Typed, NEW p \in Procs, CommitPage(p) \/ FinishScope(p)
  PROVE  Flow(p)
<1>1. pc[p] = "pagew" /\ com[p] \in Checkpoint
  BY DEF CommitPage, FinishScope, PageAccepted, Typed, TypeOK
<1>2. NextCommitted(p).gen = com[p].gen /\ NextCommitted(p) \in Checkpoint
  BY <1>1, PageWritesTyped DEF NextCommitted, Checkpoint
<1>3. \A r \in receipts \cup {NewReceipt(p)} : r \in receipts \/ r.gen = com[p].gen
  BY DEF NewReceipt
<1>4. CASE CommitPage(p)
  BY <1>2, <1>3, <1>4 DEF CommitPage, Flow, Go, Typed, TypeOK
<1>5. CASE FinishScope(p)
  <2>1. cp'.gen = com[p].gen
    BY <1>2, <1>5 DEF FinishScope, Checkpoint
  <2>2. \A r \in receipts' : r \in receipts \/ r.gen = com[p].gen
    BY <1>3, <1>5 DEF FinishScope
  <2>3. QED
    BY <1>5, <2>1, <2>2, LeaveFlow DEF FinishScope, Flow
<1>6. QED
  BY <1>4, <1>5

LEMMA FailureFlow ==
  ASSUME Typed, NEW p \in Procs, FailRead(p) \/ FailWrite(p) \/ Crash(p)
  PROVE  Flow(p)
<1>1. CASE FailRead(p)
  <2>1. CASE Leave(p)
    BY <1>1, <2>1, LeaveFlow DEF FailRead, Flow, durable
  <2>2. CASE Go(p, "failw") /\ UNCHANGED local
    BY <1>1, <2>2 DEF FailRead, Flow, durable, local, Go, Typed, TypeOK
  <2>3. QED
    BY <1>1, <2>1, <2>2 DEF FailRead
<1>2. CASE FailWrite(p)
  <2>1. cp'.gen = com[p].gen
    BY <1>2 DEF FailWrite, Typed, TypeOK, Checkpoint
  <2>2. QED
    BY <1>2, <2>1, LeaveFlow DEF FailWrite, Flow
<1>3. CASE Crash(p)
  BY <1>3, LeaveFlow DEF Crash, Flow, durable
<1>4. QED
  BY <1>1, <1>2, <1>3

(* One step of p, whatever it is.                                          *)
Step(p) ==
  \/ \E resume \in BOOLEAN, size \in Sizes : Lookup(p, resume, size)
  \/ Work(p) \/ SpendPageBudget(p) \/ Interrupt(p) \/ Crash(p)

LEMMA StepFlow ==
  ASSUME Typed, NEW p \in Procs, Step(p)
  PROVE  Flow(p)
  BY LookupFlow, VerifyFlow, OpenFlow, LoopFlow, CommitFlow, FailureFlow DEF Step, Work

-----------------------------------------------------------------------------
(* Generations are drawn in order.                                         *)
LEMMA DrawnStep ==
  ASSUME Typed, Drawn, NEW p \in Procs, Step(p)
  PROVE  Drawn'
<1>1. Flow(p)
  BY StepFlow
<1>2. minted \in Nat /\ minted' \in Nat /\ minted' >= minted
  BY <1>1 DEF Flow, Typed, TypeOK
<1>3. cp.gen \in Nat /\ com[p].gen \in Nat /\ obs[p].gen \in Nat
      /\ \A q \in Procs : com[q].gen \in Nat /\ obs[q].gen \in Nat
      /\ \A r \in receipts : r.gen \in Nat
  BY DEF Typed, TypeOK, Checkpoint, Receipt, Gens
<1>4. cp'.gen <= minted' /\ \A r \in receipts' : r.gen <= minted'
  BY <1>1, <1>2, <1>3 DEF Drawn, Flow
<1>5. com'[p].gen <= minted' /\ obs'[p].gen <= minted'
  BY <1>1, <1>2, <1>3 DEF Drawn, Flow
<1>6. \A q \in Procs \ {p} : com'[q].gen <= minted' /\ obs'[q].gen <= minted'
  BY <1>1, <1>2, <1>3 DEF Drawn, Flow
<1>7. QED
  BY <1>4, <1>5, <1>6 DEF Drawn

(* Writers exclude one another, because the source's lease or the          *)
(* database's BEGIN IMMEDIATE does.                                        *)
LEMMA AloneStep ==
  ASSUME Serial \/ Exclusive, Typed, Alone, NEW p \in Procs, Step(p)
  PROVE  Alone'
<1>1. /\ Flow(p)
      /\ \A q \in Procs \ {p} : pc'[q] = pc[q]
  BY StepFlow DEF Flow
<1>2. pc[p] = "idle" /\ pc'[p] # "idle" => LeaseFree(p)
  BY DEF Step, Work, Lookup, Verify, CompactReceipts, StartRead, StartWrite, ScanFullPage,
     Fetch, PageRead, StopPage, PageRollback, CommitPage, FinishScope, PageAccepted,
     FailRead, FailWrite, SpendPageBudget, Interrupt, Crash
<1>3. ~InTxn(p) /\ InTxn(p)' => CanBegin(p) /\ pc[p] # "idle"
  <2>1. SUFFICES ASSUME ~InTxn(p), InTxn(p)' PROVE CanBegin(p) /\ pc[p] # "idle"
    OBVIOUS
  <2>2. pc'[p] \in {"startw", "pagew", "failw"}
    BY <2>1 DEF InTxn
  <2>3. \A s : Leave(p) => pc'[p] = "idle"
    BY LeaveFlow
  <2>4. \A s : Fail(p, s) => pc'[p] = "failing"
    BY FailFlow
  <2>5. \A at : Go(p, at) => pc'[p] = at
    BY DEF Go, Typed, TypeOK
  <2>6. \A size : \A b \in BOOLEAN : PlanNewGeneration(p, size, b) => pc'[p] = "start"
    BY PlanFlow
  <2>7. ~CompactReceipts(p) /\ ~SpendPageBudget(p) /\ ~Crash(p) /\ ~Interrupt(p)
        /\ ~StopPage(p) /\ ~PageRollback(p) /\ ~FinishScope(p) /\ ~FailWrite(p)
    BY <2>2, <2>3, <2>4 DEF CompactReceipts, SpendPageBudget, Crash, Interrupt,
       StopPage, PageRollback, FinishScope, FailWrite
  <2>8. ~StartWrite(p) /\ ~ScanFullPage(p) /\ ~Fetch(p) /\ ~CommitPage(p) /\ ~Verify(p)
        /\ \A resume, size : ~Lookup(p, resume, size)
    BY <2>2, <2>5, <2>6 DEF StartWrite, ScanFullPage, Fetch, CommitPage, Verify, Lookup, Drifted
  <2>9. StartRead(p) \/ PageRead(p) \/ FailRead(p)
    BY <2>7, <2>8 DEF Step, Work
  <2>10. QED
    BY <2>9 DEF StartRead, PageRead, FailRead
<1>4. InTxn(p) => pc[p] # "idle"
  BY DEF InTxn
<1>5. ASSUME NEW q \in Procs \ {p}
      PROVE  /\ ~(InTxn(p)' /\ InTxn(q)')
             /\ Exclusive => pc'[p] = "idle" \/ pc'[q] = "idle"
  <2>1. InTxn(q)' <=> InTxn(q)
    BY <1>1, <1>5 DEF InTxn
  <2>2. Exclusive => pc'[p] = "idle" \/ pc'[q] = "idle"
    BY <1>1, <1>2, <1>5 DEF Alone, LeaseFree
  <2>3. CASE InTxn(p)
    BY <2>1, <2>2, <2>3, <1>5 DEF Alone
  <2>4. CASE ~InTxn(p) /\ InTxn(p)'
    <3>1. CASE Serial
      BY <1>3, <1>5, <2>1, <2>2, <2>4, <3>1 DEF CanBegin
    <3>2. CASE Exclusive
      <4>1. pc[q] = "idle"
        BY <1>3, <1>5, <2>4, <3>2 DEF Alone
      <4>2. QED
        BY <2>1, <2>2, <4>1 DEF InTxn
    <3>3. QED
      BY <3>1, <3>2
  <2>5. QED
    BY <2>2, <2>3, <2>4
<1>6. ASSUME NEW q \in Procs, NEW r \in Procs, q # r
      PROVE  /\ ~(InTxn(q)' /\ InTxn(r)')
             /\ Exclusive => pc'[q] = "idle" \/ pc'[r] = "idle"
  <2>1. CASE q = p
    BY <1>5, <1>6, <2>1
  <2>2. CASE r = p
    BY <1>5, <1>6, <2>2
  <2>3. CASE q # p /\ r # p
    BY <1>1, <1>6, <2>3 DEF Alone, InTxn
  <2>4. QED
    BY <2>1, <2>2, <2>3
<1>7. QED
  BY <1>6 DEF Alone

(* A claim stays fresh or resumed while the others work.                   *)
LEMMA ClaimsStep ==
  ASSUME Typed, Drawn, Claims, NEW p \in Procs, Step(p)
  PROVE  Claims'
<1>1. Flow(p)
  BY StepFlow
<1>2. ASSUME NEW q \in Procs \ {p}
      PROVE  /\ pc'[q] \in {"start", "startw"} => Fresh(q)' \/ Resumed(q)'
             /\ pc'[q] \in {"idle", "verify"} => ~replay'[q]
             /\ pc'[q] = "compact" => obs'[q].page >= 2
  <2>1. pc'[q] = pc[q] /\ obs'[q] = obs[q] /\ com'[q] = com[q] /\ replay'[q] = replay[q]
    BY <1>1 DEF Flow
  <2>2. Resumed(q) => Resumed(q)'
    BY <2>1 DEF Resumed
  <2>3. ASSUME pc[q] \in {"start", "startw"}, Fresh(q) PROVE Fresh(q)'
    <3>1. com[q].gen \in 1..minted /\ minted \in Nat /\ com[q].gen # minted + 1
      BY <2>3 DEF Typed, TypeOK, Shape, Opened, Started, Gens, Drawn
    <3>2. obs'[p].gen # com[q].gen /\ com'[p].gen # com[q].gen
      BY <1>1, <2>3, <3>1 DEF Flow, Fresh
    <3>3. cp'.gen # com[q].gen /\ \A r \in receipts' : r.gen # com[q].gen
      BY <1>1, <2>3 DEF Flow, Fresh
    <3>4. \A s \in Procs \ {p} : obs'[s].gen # com[q].gen /\ (s # q => com'[s].gen # com[q].gen)
      BY <1>1, <2>3 DEF Flow, Fresh
    <3>5. QED
      BY <2>1, <2>3, <3>2, <3>3, <3>4 DEF Fresh
  <2>4. QED
    BY <2>1, <2>2, <2>3 DEF Claims
<1>3. ASSUME NEW size, NEW b \in BOOLEAN, PlanNewGeneration(p, size, b),
             UNCHANGED <<cp, receipts>>
      PROVE  Fresh(p)'
  <2>1. /\ com'[p].gen = minted + 1 /\ com'[p].page = 1 /\ com'[p].fetched = 0
        /\ com'[p].marker = NoMarker
        /\ \A q \in Procs \ {p} : com'[q] = com[q]
    BY <1>3, PlanFlow
  <2>2. minted \in Nat /\ cp.gen \in Nat /\ \A r \in receipts : r.gen \in Nat
        /\ \A q \in Procs : com[q].gen \in Nat /\ obs[q].gen \in Nat
    BY DEF Typed, TypeOK, Checkpoint, Receipt, Gens
  <2>3. \A q \in Procs : obs'[q].gen # minted + 1
    BY <1>1, <2>2 DEF Flow, Drawn
  <2>4. QED
    BY <1>3, <2>1, <2>2, <2>3 DEF Fresh, Drawn
<1>4. /\ pc'[p] \in {"start", "startw"} => Fresh(p)' \/ Resumed(p)'
      /\ pc'[p] \in {"idle", "verify"} => ~replay'[p]
      /\ pc'[p] = "compact" => obs'[p].page >= 2
  <2>1. Leave(p) => pc'[p] = "idle" /\ ~replay'[p]
    BY LeaveFlow
  <2>2. \A s : Fail(p, s) => pc'[p] = "failing"
    BY FailFlow
  <2>3. \A at : Go(p, at) => pc'[p] = at
    BY DEF Go, Typed, TypeOK
  <2>4. \A size : \A b \in BOOLEAN : PlanNewGeneration(p, size, b) => pc'[p] = "start"
    BY PlanFlow
  <2>5. ASSUME NEW resume \in BOOLEAN, NEW size \in Sizes, Lookup(p, resume, size)
        PROVE  \/ pc'[p] = "start" /\ Fresh(p)'
               \/ pc'[p] = "verify" /\ ~replay'[p]
    <3>1. UNCHANGED <<cp, receipts>> /\ pc[p] = "idle"
      BY <2>5 DEF Lookup, durable
    <3>2. ASSUME NEW b \in BOOLEAN, PlanNewGeneration(p, size, b)
          PROVE  pc'[p] = "start" /\ Fresh(p)'
      BY <1>3, <2>4, <3>1, <3>2
    <3>3. CASE Go(p, "verify") /\ UNCHANGED replay
      BY <2>3, <3>1, <3>3 DEF Claims
    <3>4. \/ \E b \in BOOLEAN : PlanNewGeneration(p, size, b)
          \/ Go(p, "verify") /\ UNCHANGED replay
      BY <2>5 DEF Lookup, Drifted
    <3>5. QED
      BY <3>2, <3>3, <3>4, Zenon
  <2>6. ASSUME Verify(p)
        PROVE  \/ pc'[p] = "start" /\ (Fresh(p)' \/ Resumed(p)')
               \/ pc'[p] = "compact" /\ obs'[p].page >= 2
               \/ pc'[p] = "idle" /\ ~replay'[p]
    <3>1. UNCHANGED <<cp, receipts>> /\ pc[p] = "verify" /\ ~replay[p]
      BY <2>6 DEF Verify, durable, Claims
    <3>2. CASE Verified(obs[p], TRUE) /\ Go(p, "compact") /\ UNCHANGED obs
      <4>1. obs[p].page \in Nat
        BY DEF Typed, TypeOK, Checkpoint
      <4>2. PICK r \in PagesOf(receipts, obs[p].gen) : TRUE
        BY <3>2 DEF Verified, ReceiptsProve
      <4>3. r.page \in 1..(obs[p].page - 1)
        BY <3>2, <4>2 DEF Verified, ReceiptsProve
      <4>4. QED
        BY <2>3, <3>2, <4>1, <4>3
    <3>3. CASE Go(p, "idle") /\ UNCHANGED replay
      BY <2>3, <3>1, <3>3
    <3>4. CASE /\ com' = [com EXCEPT ![p] = [obs[p] EXCEPT !.status = "RUNNING", !.err = ""]]
               /\ Go(p, "start") /\ UNCHANGED <<obs, replay>>
      <4>1. com'[p] = [obs[p] EXCEPT !.status = "RUNNING", !.err = ""]
        BY <3>4 DEF Typed, TypeOK
      <4>2. com'[p].gen = obs[p].gen /\ com'[p].marker = obs[p].marker
            /\ com'[p].page = obs[p].page /\ com'[p].fetched = obs[p].fetched
        BY <4>1 DEF Typed, TypeOK, Checkpoint
      <4>3. QED
        BY <2>3, <3>1, <3>4, <4>2 DEF Resumed
    <3>5. CASE PlanNewGeneration(p, obs[p].size, FALSE)
      BY <1>3, <2>4, <3>1, <3>5
    <3>6. QED
      BY <2>6, <3>2, <3>3, <3>4, <3>5 DEF Verify
  <2>7. ASSUME StartRead(p)
        PROVE  \/ pc'[p] = "startw" /\ (Fresh(p)' \/ Resumed(p)')
               \/ pc'[p] = "idle" /\ ~replay'[p]
    <3>1. CASE Go(p, "startw") /\ UNCHANGED <<local, durable>>
      <4>1. pc[p] = "start" /\ pc'[p] = "startw"
        BY <2>3, <2>7, <3>1 DEF StartRead
      <4>2. (Fresh(p) => Fresh(p)') /\ (Resumed(p) => Resumed(p)')
        BY <3>1 DEF local, durable, Fresh, Resumed
      <4>3. QED
        BY <4>1, <4>2 DEF Claims
    <3>2. QED
      BY <2>1, <2>7, <3>1 DEF StartRead
  <2>8. CASE CompactReceipts(p) \/ SpendPageBudget(p) \/ Crash(p) \/ StopPage(p)
             \/ FinishScope(p) \/ FailWrite(p)
    BY <2>1, <2>8 DEF CompactReceipts, SpendPageBudget, Crash, StopPage, FinishScope, FailWrite
  <2>9. CASE Interrupt(p) \/ PageRollback(p)
    BY <2>2, <2>9 DEF Interrupt, PageRollback
  <2>10. CASE StartWrite(p) \/ ScanFullPage(p) \/ Fetch(p) \/ CommitPage(p)
    BY <2>3, <2>10 DEF StartWrite, ScanFullPage, Fetch, CommitPage
  <2>11. CASE PageRead(p) \/ FailRead(p)
    BY <2>1, <2>2, <2>3, <2>11 DEF PageRead, FailRead
  <2>12. QED
    BY <2>5, <2>6, <2>7, <2>8, <2>9, <2>10, <2>11 DEF Step, Work
<1>5. QED
  BY <1>2, <1>4 DEF Claims

(* The steps that write the database.                                      *)
LEMMA WriteStep ==
  ASSUME NEW p \in Procs, Step(p)
  PROVE  \/ UNCHANGED <<cp, receipts>>
         \/ CompactReceipts(p) \/ StartWrite(p) \/ StopPage(p)
         \/ CommitPage(p) \/ FinishScope(p) \/ FailWrite(p)
  BY DEF Step, Work, Lookup, Verify, StartRead, ScanFullPage, Fetch, PageRead, PageRollback,
     FailRead, SpendPageBudget, Interrupt, Crash, durable

(* A comparison stays true until its writer writes.                        *)
LEMMA ComparedStep ==
  ASSUME Serial \/ Exclusive, Typed, Alone, Compared, NEW p \in Procs, Step(p)
  PROVE  Compared'
<1>1. \A q \in Procs \ {p} : pc'[q] = pc[q] /\ obs'[q] = obs[q] /\ com'[q] = com[q]
  BY StepFlow DEF Flow
<1>2. ASSUME NEW q \in Procs \ {p}, InTxn(q)
      PROVE  cp' = cp
  <2>1. pc[q] # "idle" /\ ~InTxn(p) /\ (Exclusive => pc[p] = "idle")
    BY <1>2 DEF Alone, InTxn
  <2>2. ~CompactReceipts(p)
    <3>1. CASE Serial
      BY <1>2, <3>1 DEF CompactReceipts, CanBegin
    <3>2. CASE Exclusive
      BY <2>1, <3>2 DEF CompactReceipts
    <3>3. QED
      BY <3>1, <3>2
  <2>3. QED
    BY <2>1, <2>2, WriteStep DEF StartWrite, StopPage, CommitPage, FinishScope, PageAccepted,
       FailWrite, InTxn
<1>3. ASSUME NEW q \in Procs \ {p}
      PROVE  /\ pc'[q] = "startw" => SameStart(cp', obs'[q])
             /\ pc'[q] \in {"pagew", "failw"} => SamePage(cp', com'[q])
  BY <1>1, <1>2, <1>3 DEF Compared, InTxn
<1>4. /\ pc'[p] = "startw" => SameStart(cp', obs'[p])
      /\ pc'[p] \in {"pagew", "failw"} => SamePage(cp', com'[p])
  <2>1. \A at : Go(p, at) => pc'[p] = at
    BY DEF Go, Typed, TypeOK
  <2>2. Leave(p) => pc'[p] = "idle"
    BY LeaveFlow
  <2>3. \A s : Fail(p, s) => pc'[p] = "failing"
    BY FailFlow
  <2>4. \A size : \A b \in BOOLEAN : PlanNewGeneration(p, size, b) => pc'[p] = "start"
    BY PlanFlow
  <2>5. CASE StartRead(p)
    BY <2>1, <2>2, <2>5 DEF StartRead, durable, local
  <2>6. CASE PageRead(p)
    BY <2>1, <2>3, <2>6 DEF PageRead, durable
  <2>7. CASE FailRead(p)
    BY <2>1, <2>2, <2>7 DEF FailRead, durable, local
  <2>8. CASE CompactReceipts(p) \/ SpendPageBudget(p) \/ Crash(p) \/ StopPage(p)
             \/ FinishScope(p) \/ FailWrite(p) \/ Interrupt(p) \/ PageRollback(p)
    BY <2>2, <2>3, <2>8 DEF CompactReceipts, SpendPageBudget, Crash, StopPage, FinishScope,
       FailWrite, Interrupt, PageRollback
  <2>9. CASE StartWrite(p) \/ ScanFullPage(p) \/ Fetch(p) \/ CommitPage(p) \/ Verify(p)
    BY <2>1, <2>4, <2>9 DEF StartWrite, ScanFullPage, Fetch, CommitPage, Verify
  <2>10. CASE \E resume \in BOOLEAN, size \in Sizes : Lookup(p, resume, size)
    BY <2>1, <2>4, <2>10 DEF Lookup, Drifted
  <2>11. QED
    BY <2>5, <2>6, <2>7, <2>8, <2>9, <2>10 DEF Step, Work
<1>5. QED
  BY <1>3, <1>4 DEF Compared

LEMMA AbsentStep ==
  ASSUME Typed, Absent, NEW p \in Procs, Step(p)
  PROVE  Absent'
<1>1. pc[p] \in Opened => com[p] \in Checkpoint /\ Started(com[p])
  BY DEF Typed, TypeOK, Shape
<1>2. CASE CompactReceipts(p)
  BY <1>2 DEF CompactReceipts, Absent, Typed, TypeOK, Checkpoint
<1>3. CASE StartWrite(p)
  BY <1>1, <1>3 DEF StartWrite, Absent, Started, Opened
<1>4. CASE StopPage(p) \/ FailWrite(p)
  <2>1. com[p] \in Checkpoint /\ outcome[p] \in {"FAILED", "INCOMPLETE"}
    BY DEF Typed, TypeOK
  <2>2. cp'.status \in {"FAILED", "INCOMPLETE"}
    BY <1>4, <2>1 DEF StopPage, FailWrite, Checkpoint
  <2>3. QED
    BY <2>2 DEF Absent
<1>5. CASE CommitPage(p)
  BY <1>5, PageWritesTyped DEF CommitPage, PageAccepted, Absent, Started
<1>6. CASE FinishScope(p)
  <2>1. NextCommitted(p) \in Checkpoint
    BY <1>6, PageWritesTyped DEF FinishScope, PageAccepted
  <2>2. cp'.status = "COMPLETE"
    BY <1>6, <2>1 DEF FinishScope, Checkpoint
  <2>3. QED
    BY <2>2 DEF Absent
<1>7. CASE UNCHANGED <<cp, receipts>>
  BY <1>7 DEF Absent
<1>8. QED
  BY <1>2, <1>3, <1>4, <1>5, <1>6, <1>7, WriteStep

(* Only a COMPLETE checkpoint carries a compact marker, and no collector   *)
(* works on one.                                                           *)
LEMMA MarkersStep ==
  ASSUME Typed, Markers, NEW p \in Procs, Step(p)
  PROVE  Markers'
<1>0. cp \in Checkpoint /\ com[p] \in Checkpoint /\ obs[p] \in Checkpoint
      /\ com[p].marker = NoMarker
  BY DEF Markers, Typed, TypeOK
<1>1. \A q \in Procs \ {p} : obs'[q] = obs[q] /\ com'[q] = com[q]
  BY StepFlow DEF Flow
<1>2. cp'.marker # NoMarker => cp'.status = "COMPLETE"
  <2>1. CASE CompactReceipts(p)
    BY <1>0, <2>1 DEF CompactReceipts, Markers, Checkpoint
  <2>2. CASE StartWrite(p) \/ StopPage(p) \/ FailWrite(p)
    BY <1>0, <2>2 DEF StartWrite, StopPage, FailWrite, Checkpoint
  <2>3. CASE CommitPage(p)
    BY <1>0, <2>3 DEF CommitPage, NextCommitted, Checkpoint
  <2>4. CASE FinishScope(p)
    <3>1. NextCommitted(p) \in Checkpoint
      BY <2>4, PageWritesTyped DEF FinishScope, PageAccepted
    <3>2. QED
      BY <2>4, <3>1 DEF FinishScope, Checkpoint
  <2>5. QED
    BY <2>1, <2>2, <2>3, <2>4, WriteStep DEF Markers
<1>3. obs'[p] \in {obs[p], cp, NoCp}
  BY DEF Step, Work, Lookup, Verify, CompactReceipts, StartRead, StartWrite, ScanFullPage,
     Fetch, PageRead, StopPage, PageRollback, CommitPage, FinishScope, FailRead, FailWrite,
     SpendPageBudget, Interrupt, Crash, Leave, Fail, local, Typed, TypeOK
<1>4. com'[p].marker = NoMarker
  <2>1. CASE UNCHANGED com
    BY <1>0, <2>1
  <2>2. CASE Leave(p)
    BY <2>2 DEF Leave, Typed, TypeOK, NoCp
  <2>3. ASSUME NEW size, NEW b \in BOOLEAN, PlanNewGeneration(p, size, b)
        PROVE  com'[p].marker = NoMarker
    BY <2>3, PlanFlow
  <2>4. CASE CommitPage(p)
    BY <1>0, <2>4 DEF CommitPage, NextCommitted, Typed, TypeOK, Checkpoint
  <2>5. CASE Verified(obs[p], FALSE)
             /\ com' = [com EXCEPT ![p] = [obs[p] EXCEPT !.status = "RUNNING", !.err = ""]]
    BY <1>0, <2>5 DEF Verified, Markers, Typed, TypeOK, Checkpoint
  <2>6. Verify(p) => \/ UNCHANGED com \/ PlanNewGeneration(p, obs[p].size, FALSE)
                     \/ /\ Verified(obs[p], FALSE)
                        /\ com' = [com EXCEPT ![p] =
                                     [obs[p] EXCEPT !.status = "RUNNING", !.err = ""]]
    BY DEF Verify
  <2>7. \A resume \in BOOLEAN, size \in Sizes : Lookup(p, resume, size) =>
          UNCHANGED com \/ \E b \in BOOLEAN : PlanNewGeneration(p, size, b)
    BY DEF Lookup, Drifted
  <2>8. Step(p) => \/ \E resume \in BOOLEAN, size \in Sizes : Lookup(p, resume, size)
                   \/ Verify(p) \/ Leave(p) \/ UNCHANGED com \/ CommitPage(p)
    BY DEF Step, Work, CompactReceipts, StartRead, StartWrite, ScanFullPage,
       Fetch, PageRead, StopPage, PageRollback, FinishScope, FailRead, FailWrite,
       SpendPageBudget, Interrupt, Crash, Fail, local
  <2>9. CASE \E resume \in BOOLEAN, size \in Sizes : Lookup(p, resume, size)
    BY <2>1, <2>3, <2>7, <2>9
  <2>10. CASE Verify(p)
    BY <2>1, <2>3, <2>5, <2>6, <2>10
  <2>11. QED
    BY <2>1, <2>2, <2>4, <2>8, <2>9, <2>10
<1>5. obs'[p].marker # NoMarker => obs'[p].status = "COMPLETE"
  BY <1>3, NoCpFields DEF Markers
<1>6. QED
  BY <1>1, <1>2, <1>4, <1>5 DEF Markers

(* A page that starts where the chain ends extends it: its receipt is the  *)
(* next page and its rows are new.                                         *)
LEMMA ChainExtends ==
  ASSUME Typed, NEW p \in Procs, pc[p] = "pagew", ~KeyConflict(p),
         {r.page : r \in PagesOf(receipts, com[p].gen)} = 1..(com[p].page - 1),
         com[p].fetched = Cardinality(ItemsOf(receipts, com[p].gen))
  PROVE  LET all == receipts \cup {NewReceipt(p)}
         IN  /\ {r.page : r \in PagesOf(all, com[p].gen)} = 1..com[p].page
             /\ Fetched(p) = Cardinality(ItemsOf(all, com[p].gen))
<1> DEFINE g == com[p].gen
           all == receipts \cup {NewReceipt(p)}
           rows == resp[p].rows
<1>1. /\ com[p] \in Checkpoint /\ Started(com[p]) /\ NewReceipt(p) \in Receipt
      /\ rows \in SUBSET Row /\ receipts \subseteq Receipt
  BY PageWritesTyped DEF Typed, TypeOK, Shape, Opened, Response
<1>2. NewReceipt(p).gen = g /\ NewReceipt(p).page = com[p].page /\ NewReceipt(p).rows = rows
  BY DEF NewReceipt
<1>3. PagesOf(all, g) = PagesOf(receipts, g) \cup {NewReceipt(p)}
  BY <1>2 DEF PagesOf
<1>4. {r.page : r \in PagesOf(all, g)} = 1..com[p].page
  <2>1. {r.page : r \in PagesOf(all, g)} = {r.page : r \in PagesOf(receipts, g)} \cup {com[p].page}
    BY <1>2, <1>3
  <2>2. com[p].page \in Nat /\ com[p].page >= 1
    BY <1>1 DEF Started, Checkpoint
  <2>3. 1..(com[p].page - 1) \cup {com[p].page} = 1..com[p].page
    BY <2>2
  <2>4. QED
    BY <2>1, <2>3
<1>5. ItemsOf(all, g) = ItemsOf(receipts, g) \cup rows
  BY <1>2, <1>3 DEF ItemsOf
<1>6. ItemsOf(receipts, g) \in SUBSET Row
  BY <1>1 DEF ItemsOf, PagesOf, Receipt
<1>7. ItemsOf(receipts, g) \cap rows = {}
  BY DEF KeyConflict, KeysOf
<1>8. Cardinality(ItemsOf(all, g)) = Cardinality(ItemsOf(receipts, g)) + Cardinality(rows)
  <2>1. /\ IsFiniteSet(ItemsOf(receipts, g)) /\ IsFiniteSet(rows)
        /\ Cardinality(ItemsOf(receipts, g)) \in Nat /\ Cardinality(rows) \in Nat
    BY <1>1, <1>6, RowsFinite
  <2>2. Cardinality(ItemsOf(receipts, g) \cup rows)
          = Cardinality(ItemsOf(receipts, g)) + Cardinality(rows)
            - Cardinality(ItemsOf(receipts, g) \cap rows)
    BY <2>1, FS_Union
  <2>3. Cardinality({}) = 0
    BY FS_EmptySet
  <2>4. Cardinality(ItemsOf(receipts, g) \cap rows) = 0
    BY <1>7, <2>3
  <2>5. Cardinality(ItemsOf(all, g)) = Cardinality(ItemsOf(receipts, g) \cup rows)
    BY <1>5
  <2>6. QED
    BY <2>1, <2>2, <2>4, <2>5
<1>9. QED
  BY <1>4, <1>8 DEF Fetched

LEMMA ChainStep ==
  ASSUME ChainInv, NEW p \in Procs, Step(p)
  PROVE  ReceiptChain'
<1>0. Typed /\ Claims /\ Compared /\ Absent /\ Markers /\ ReceiptChain /\ cp \in Checkpoint
      /\ com[p] \in Checkpoint /\ obs[p] \in Checkpoint
  BY DEF ChainInv, Typed, TypeOK
<1>1. pc[p] \in Opened => com[p].gen # 0
  BY <1>0 DEF Typed, Shape, Started, Gens
(* A writer of the page loop knows the chain of its own checkpoint.        *)
<1>2. ASSUME pc[p] \in {"pagew", "failw"}, com[p].marker = NoMarker
      PROVE  /\ {r.page : r \in PagesOf(receipts, com[p].gen)} = 1..(com[p].page - 1)
             /\ com[p].fetched = Cardinality(ItemsOf(receipts, com[p].gen))
  <2>1. SamePage(cp, com[p])
    BY <1>0, <1>2 DEF Compared
  <2>2. /\ cp.gen = com[p].gen /\ cp.marker = com[p].marker /\ cp.page = com[p].page
        /\ cp.fetched = com[p].fetched
    BY <2>1 DEF SamePage, Cursor
  <2>3. cp.status # "ABSENT"
    BY <1>0, <1>1, <1>2, <2>2 DEF Absent, Opened
  <2>4. QED
    BY <1>0, <1>2, <2>2, <2>3 DEF ReceiptChain
<1>3. CASE UNCHANGED <<cp, receipts>>
  BY <1>0, <1>3 DEF ReceiptChain, PagesOf, ItemsOf
<1>4. CASE CompactReceipts(p)
  <2> DEFINE mine == PagesOf(receipts, obs[p].gen)
  <2>1. CASE UNCHANGED <<cp, receipts>>
    BY <1>3, <2>1
  <2>2. CASE cp' = [cp EXCEPT !.marker = mine] /\ Cardinality(mine) = obs[p].page - 1
    <3>1. obs[p].page >= 2 /\ obs[p].page \in Nat
      BY <1>0, <1>4 DEF CompactReceipts, Claims, Checkpoint
    <3>2. mine # {}
      BY <2>2, <3>1, FS_EmptySet
    <3>3. cp'.marker # NoMarker
      BY <1>0, <2>2, <3>2 DEF NoMarker, Checkpoint
    <3>4. QED
      BY <3>3 DEF ReceiptChain
  <2>3. QED
    BY <1>4, <2>1, <2>2 DEF CompactReceipts
<1>5. CASE StartWrite(p)
  <2>1. pc[p] = "startw" /\ cp' = com[p] /\ receipts' \subseteq receipts
        /\ (~replay[p] => receipts' = receipts)
    BY <1>5 DEF StartWrite
  <2>2. CASE Fresh(p)
    <3>1. PagesOf(receipts', cp'.gen) = {}
      BY <2>1, <2>2 DEF Fresh, PagesOf
    <3>2. {r.page : r \in PagesOf(receipts', cp'.gen)} = {} /\ ItemsOf(receipts', cp'.gen) = {}
      BY <3>1 DEF ItemsOf
    <3>3. cp'.page = 1 /\ cp'.fetched = 0
      BY <2>1, <2>2 DEF Fresh
    <3>4. 1..(cp'.page - 1) = {} /\ Cardinality({}) = 0
      BY <3>3, FS_EmptySet
    <3>5. QED
      BY <3>2, <3>3, <3>4 DEF ReceiptChain
  <2>3. CASE Resumed(p)
    <3>1. /\ cp.gen = com[p].gen /\ cp.marker = com[p].marker /\ cp.page = com[p].page
          /\ cp.fetched = com[p].fetched /\ receipts' = receipts
      BY <1>0, <2>1, <2>3 DEF Compared, SameStart, Cursor, Resumed
    <3>2. cp.status # "ABSENT"
      BY <1>0, <1>1, <2>1, <3>1 DEF Absent, Opened
    <3>3. QED
      BY <1>0, <2>1, <3>1, <3>2 DEF ReceiptChain
  <2>4. QED
    BY <1>0, <2>1, <2>2, <2>3 DEF Claims
<1>6. CASE StopPage(p) \/ FailWrite(p)
  <2>1. pc[p] \in {"pagew", "failw"} /\ receipts' = receipts
    BY <1>6 DEF StopPage, FailWrite
  <2>2. /\ cp'.gen = com[p].gen /\ cp'.marker = com[p].marker /\ cp'.page = com[p].page
        /\ cp'.fetched = com[p].fetched
    BY <1>0, <1>6 DEF StopPage, FailWrite, Checkpoint
  <2>3. QED
    BY <1>2, <2>1, <2>2 DEF ReceiptChain
<1>7. CASE CommitPage(p) \/ FinishScope(p)
  <2> DEFINE all == receipts \cup {NewReceipt(p)}
  <2>1. pc[p] = "pagew" /\ ~KeyConflict(p) /\ NextCommitted(p) \in Checkpoint
    BY <1>0, <1>7, PageWritesTyped DEF CommitPage, FinishScope, PageAccepted
  <2>2. /\ NextCommitted(p).gen = com[p].gen /\ NextCommitted(p).page = com[p].page + 1
        /\ NextCommitted(p).fetched = Fetched(p)
        /\ NextCommitted(p).marker = com[p].marker
    BY <1>0 DEF NextCommitted, Checkpoint
  <2>3. com[p].marker = NoMarker =>
          /\ {r.page : r \in PagesOf(all, com[p].gen)} = 1..com[p].page
          /\ Fetched(p) = Cardinality(ItemsOf(all, com[p].gen))
    BY <1>0, <1>2, <2>1, ChainExtends
  <2>4. com[p].page \in Nat
    BY <1>0 DEF Checkpoint
  <2>5. CASE CommitPage(p)
    <3>1. cp' = NextCommitted(p) /\ receipts' = all
      BY <2>5 DEF CommitPage
    <3>2. /\ {r.page : r \in PagesOf(receipts', cp'.gen)} = 1..(cp'.page - 1)
          /\ cp'.fetched = Cardinality(ItemsOf(receipts', cp'.gen))
      <4>1. com[p].marker = NoMarker
        BY <1>0 DEF Markers
      <4>2. cp'.gen = com[p].gen /\ cp'.page - 1 = com[p].page /\ cp'.fetched = Fetched(p)
        BY <2>2, <2>4, <3>1
      <4>3. PagesOf(receipts', cp'.gen) = PagesOf(all, com[p].gen)
            /\ ItemsOf(receipts', cp'.gen) = ItemsOf(all, com[p].gen)
        BY <3>1, <4>2
      <4>4. {r.page : r \in PagesOf(receipts', cp'.gen)} = {r.page : r \in PagesOf(all, com[p].gen)}
        BY <4>3
      <4>5. QED
        BY <2>3, <4>1, <4>2, <4>3, <4>4
    <3>3. QED
      BY <3>2 DEF ReceiptChain
  <2>6. CASE FinishScope(p)
    <3>0. PICK compact \in Compacting :
            /\ cp' = [NextCommitted(p) EXCEPT
                        !.status = "COMPLETE",
                        !.reason = ReasonOf(com[p], resp[p], full[p]),
                        !.marker = IF compact THEN PagesOf(all, com[p].gen) ELSE NoMarker]
            /\ receipts' = IF compact THEN all \ PagesOf(all, com[p].gen) ELSE all
      BY <2>6 DEF FinishScope
    <3>1. /\ cp'.gen = com[p].gen /\ cp'.page = com[p].page + 1 /\ cp'.fetched = Fetched(p)
          /\ cp'.marker = IF compact THEN PagesOf(all, com[p].gen) ELSE NoMarker
          /\ receipts' = IF compact THEN all \ PagesOf(all, com[p].gen) ELSE all
      BY <2>1, <2>2, <3>0 DEF Checkpoint
    <3>2. CASE compact
      <4>1. NewReceipt(p) \in PagesOf(all, com[p].gen)
        BY DEF PagesOf, NewReceipt
      <4>2. QED
        BY <3>1, <3>2, <4>1 DEF ReceiptChain, NoMarker
    <3>3. CASE ~compact
      <4>1. com[p].marker = NoMarker
        BY <1>0 DEF Markers
      <4>2. QED
        <5>1. receipts' = all
          BY <3>1, <3>3
        <5>2. /\ {r.page : r \in PagesOf(receipts', cp'.gen)} = 1..(cp'.page - 1)
              /\ cp'.fetched = Cardinality(ItemsOf(receipts', cp'.gen))
          <6>1. cp'.gen = com[p].gen /\ cp'.page - 1 = com[p].page /\ cp'.fetched = Fetched(p)
            BY <2>4, <3>1
          <6>2. PagesOf(receipts', cp'.gen) = PagesOf(all, com[p].gen)
                /\ ItemsOf(receipts', cp'.gen) = ItemsOf(all, com[p].gen)
            BY <5>1, <6>1
          <6>3. {r.page : r \in PagesOf(receipts', cp'.gen)}
                  = {r.page : r \in PagesOf(all, com[p].gen)}
            BY <6>2
          <6>4. QED
            BY <2>3, <4>1, <6>1, <6>2, <6>3
        <5>3. QED
          BY <5>2 DEF ReceiptChain
    <3>4. QED
      BY <3>2, <3>3
  <2>7. QED
    BY <1>7, <2>5, <2>6
<1>8. QED
  BY <1>3, <1>4, <1>5, <1>6, <1>7, WriteStep

LEMMA NextChain ==
  ASSUME Serial \/ Exclusive
  PROVE  ChainInv /\ [Next]_vars => ChainInv'
<1>1. SUFFICES ASSUME ChainInv, [Next]_vars PROVE ChainInv'
  OBVIOUS
<1>2. CASE UNCHANGED vars
  <2>1. Typed'
    BY <1>1, NextTyped DEF ChainInv
  <2>2. (Alone /\ Drawn)'
    BY <1>1, <1>2 DEF ChainInv, vars, Alone, Drawn, InTxn
  <2>3. (Claims /\ Compared)'
    BY <1>1, <1>2 DEF ChainInv, vars, Claims, Compared, Fresh, Resumed
  <2>4. (Absent /\ Markers /\ ReceiptChain)'
    BY <1>1, <1>2 DEF ChainInv, vars, Absent, Markers, ReceiptChain
  <2>5. QED
    BY <2>1, <2>2, <2>3, <2>4 DEF ChainInv
<1>3. CASE Next
  <2>1. PICK p \in Procs : Step(p)
    BY <1>3 DEF Next, Step
  <2>2. Typed'
    BY <1>1, NextTyped DEF ChainInv
  <2>3. Alone' /\ Drawn' /\ Claims' /\ Compared' /\ Absent' /\ Markers' /\ ReceiptChain'
    BY <1>1, <2>1, AloneStep, DrawnStep, ClaimsStep, ComparedStep, AbsentStep,
       MarkersStep, ChainStep DEF ChainInv
  <2>4. QED
    BY <2>2, <2>3 DEF ChainInv
<1>4. QED
  BY <1>1, <1>2, <1>3

(* As long as writers exclude one another, the durable receipts always     *)
(* support the checkpoint page by page and row by row: whatever the source *)
(* answers, wherever processes die and whoever resumes.                    *)
THEOREM ReceiptChainHolds ==
  ASSUME Serial \/ Exclusive
  PROVE  Spec => []ReceiptChain
<1>1. Init => ChainInv
  BY InitChain
<1>2. ChainInv /\ [Next]_vars => ChainInv'
  BY NextChain
<1>3. ChainInv => ReceiptChain
  BY DEF ChainInv
<1>4. QED
  BY <1>1, <1>2, <1>3, PTL DEF Spec

-----------------------------------------------------------------------------
(* What makes WriterMeetsVerifier inductive.                               *)

Counters(c, d) ==
  c.size = d.size /\ c.total = d.total /\ c.fetched = d.fetched /\ c.saved = d.saved

(* A generation only moves forward, and a page number of it stands for one *)
(* set of counters, whoever remembers it.                                  *)
Tracks(c, d) ==
  c.gen # 0 /\ c.gen = d.gen => c.page <= d.page /\ (c.page = d.page => Counters(c, d))
Forward == \A p \in Procs : Tracks(obs[p], cp) /\ Tracks(com[p], cp)

(* A collector opens a new generation at zero, or resumes what it has      *)
(* looked up; a compacted scope is not looked at again.                    *)
Opening ==
  \A p \in Procs :
    /\ pc[p] \in Opened => com[p].reason = "" /\ com[p].status = "RUNNING"
    /\ pc[p] \in {"start", "startw"} =>
         IF com[p].gen = obs[p].gen THEN obs[p].reason = "" /\ Counters(com[p], obs[p])
         ELSE com[p].saved = 0 /\ com[p].total = -1
    /\ pc[p] \in {"verify", "compact"} => obs[p].marker = NoMarker

(* A total is positive or unknown.                                         *)
Totals ==
  cp.total # 0 /\ \A p \in Procs : obs[p].total # 0 /\ com[p].total # 0

(* A page without problem has passed the tests of the source.              *)
Checked ==
  \A p \in Procs : pc[p] \in {"page", "pagew"} /\ problem[p] = "" =>
    SourceProblem(com[p], resp[p]) = ""

HasFull(rs) == \E r \in rs : Cardinality(r.rows) = r.size
FullSeen ==
  \A p \in Procs :
    pc[p] \in {"loop", "page", "pagew"} /\ com[p].gen = cp.gen /\ com[p].page = cp.page
    /\ cp.status # "COMPLETE" => (full[p] <=> HasFull(PagesOf(receipts, cp.gen)))

EvidenceInv ==
  /\ ChainInv /\ Forward /\ Opening /\ Totals /\ Checked /\ FullSeen
  /\ IsFiniteSet(receipts) /\ WriterMeetsVerifier

-----------------------------------------------------------------------------
(* Lemmas about the verifier.                                              *)

(* As many keys as rows: no two rows of the page share a key.              *)
LEMMA KeysDistinct ==
  ASSUME NEW rows \in SUBSET Row, Cardinality(KeysOf(rows)) = Cardinality(rows),
         NEW i \in rows, NEW j \in rows, i.key = j.key
  PROVE  i = j
<1> DEFINE f == [r \in rows |-> r.key]
<1>1. f \in Surjection(rows, KeysOf(rows))
  BY DEF Surjection, KeysOf
<1>2. f \in Injection(rows, KeysOf(rows))
  BY <1>1, RowsFinite, FS_SurjSameCardinalityImpliesInj
<1>3. QED
  BY <1>2 DEF Injection, IsInjective

LEMMA ItemsAreRows ==
  ASSUME NEW rs \in SUBSET Receipt
  PROVE  UNION {r.rows : r \in rs} \in SUBSET Row
  BY DEF Receipt

(* Only the counters and the reason of a checkpoint matter to the proof.   *)
LEMMA SameProof ==
  ASSUME NEW rs, NEW c, NEW d, NEW b, Counters(c, d), c.page = d.page, c.reason = d.reason,
         ReceiptsProve(rs, d, b)
  PROVE  ReceiptsProve(rs, c, b)
  BY DEF ReceiptsProve, Counters

(* The last receipt ends the scope with the reason of the checkpoint.      *)
LEMMA ProvenIsComplete ==
  ASSUME NEW c \in Checkpoint, NEW rs \in SUBSET Receipt, ReceiptsProve(rs, c, TRUE),
         c.total # 0
  PROVE  /\ rs # {} /\ c.page >= 2 /\ c.saved <= c.fetched
         /\ c.total > 0 => c.fetched = c.total
         /\ \/ c.reason = "TOTAL_REACHED" /\ c.total > 0 /\ c.fetched = c.total
            \/ c.reason = "EMPTY_PAGE" /\ c.total < 0
            \/ c.reason = "SHORT_PAGE_UNKNOWN_TOTAL" /\ c.total < 0 /\ c.fetched > 0
<1> DEFINE items == UNION {r.rows : r \in rs}
           countTo(n) == Cardinality(UNION {r.rows : r \in UpTo(rs, n)})
           fullBefore(n) == \E r \in UpTo(rs, n - 1) : Cardinality(r.rows) = r.size
<1>0. c.page \in Nat /\ c.fetched \in Nat /\ c.saved \in Nat /\ c.total \in Int
  BY DEF Checkpoint
<1>1. rs # {} /\ {r.page : r \in rs} = 1..(c.page - 1) /\ c.reason # ""
  BY DEF ReceiptsProve
<1>2. c.page - 1 >= 1
  <2>1. PICK r \in rs : r.page \in 1..(c.page - 1)
    BY <1>1
  <2>2. QED
    BY <1>0, <2>1
<1>3. PICK r \in rs : r.page = c.page - 1
  <2>1. c.page - 1 \in 1..(c.page - 1)
    BY <1>0, <1>2
  <2>2. QED
    BY <1>1, <2>1
<1>4. UpTo(rs, r.page) = rs
  <2>1. \A s \in rs : s.page \in 1..(c.page - 1)
    BY <1>1
  <2>2. \A s \in rs : s.page <= r.page
    BY <1>0, <1>3, <2>1
  <2>3. QED
    BY <2>2 DEF UpTo
<1>5. /\ c.fetched = Cardinality(items) /\ c.saved = Cardinality(items \cap Target)
      /\ r.total = c.total /\ r.reason = c.reason
      /\ r.reason = DoneReason(r.total, countTo(r.page), Cardinality(r.rows), r.size,
                               fullBefore(r.page))
  BY <1>3 DEF ReceiptsProve
<1>6. c.reason = DoneReason(c.total, c.fetched, Cardinality(r.rows), r.size, fullBefore(r.page))
  BY <1>4, <1>5
<1>7. c.saved <= c.fetched
  <2>1. IsFiniteSet(items) /\ items \cap Target \in SUBSET items
    BY ItemsAreRows, RowsFinite
  <2>2. QED
    BY <1>5, <2>1, FS_Subset
<1>8. fullBefore(r.page) => c.fetched > 0
  <2>1. SUFFICES ASSUME NEW s \in rs, Cardinality(s.rows) = s.size PROVE c.fetched > 0
    BY DEF UpTo
  <2>2. s.rows \in SUBSET items /\ items \in SUBSET Row /\ s.size \in Nat \ {0}
    BY ItemsAreRows DEF Receipt
  <2>3. IsFiniteSet(items) /\ Cardinality(s.rows) <= Cardinality(items)
    BY <2>2, RowsFinite, FS_Subset
  <2>4. QED
    BY <1>0, <1>5, <2>1, <2>2, <2>3
<1>9. /\ c.page >= 2
      /\ \/ c.reason = "TOTAL_REACHED" /\ c.total > 0 /\ c.fetched = c.total
         \/ c.reason = "EMPTY_PAGE" /\ c.total < 0
         \/ c.reason = "SHORT_PAGE_UNKNOWN_TOTAL" /\ c.total < 0 /\ c.fetched > 0
  <2> HIDE DEF fullBefore, countTo, items
  <2>1. c.page >= 2
    BY <1>0, <1>2
  <2>2. CASE c.total > 0
    BY <1>1, <1>6, <2>1, <2>2 DEF DoneReason
  <2>3. CASE ~(c.total > 0)
    <3>1. c.total < 0
      BY <1>0, <2>3
    <3>2. \/ c.reason = "EMPTY_PAGE"
          \/ c.reason = "SHORT_PAGE_UNKNOWN_TOTAL" /\ fullBefore(r.page)
      BY <1>1, <1>6, <2>3 DEF DoneReason
    <3>3. QED
      BY <1>8, <2>1, <3>1, <3>2
  <2>4. QED
    BY <2>2, <2>3
<1>10. c.total > 0 => c.fetched = c.total
  BY <1>0, <1>9
<1>11. QED
  BY <1>1, <1>7, <1>9, <1>10

(* A generation without receipts proves an opened checkpoint.              *)
Unended(c) == c.reason = ""
LEMMA NothingProves ==
  ASSUME NEW c, NEW rs, rs = {}, Unended(c),
         c.page = 1, c.fetched = 0, c.saved = 0, c.total = -1
  PROVE  ReceiptsProve(rs, c, FALSE)
<1>1. UNION {r.rows : r \in rs} = {} /\ {r.page : r \in rs} = {}
  OBVIOUS
<1>2. c.page - 1 = 0 /\ 1..(c.page - 1) = {}
  <2>1. c.page - 1 = 0
    OBVIOUS
  <2>2. 1..0 = {}
    OBVIOUS
  <2>3. QED
    BY <2>1, <2>2
<1>3. Cardinality({}) = 0 /\ Cardinality(rs) = 0
  BY FS_EmptySet
<1>4. (UNION {r.rows : r \in rs}) \cap Target = {}
  BY <1>1
<1>5. QED
  BY <1>1, <1>2, <1>3, <1>4 DEF ReceiptsProve, Unended

(* What holds when a page is about to be committed: its collector works on *)
(* a checkpoint the receipts prove, and the page passed every test.        *)
Proper(p) ==
  /\ pc[p] = "pagew" /\ ~KeyConflict(p) /\ SourceProblem(com[p], resp[p]) = ""
  /\ Unended(com[p]) /\ ReceiptsProve(PagesOf(receipts, com[p].gen), com[p], FALSE)
  /\ full[p] = HasFull(PagesOf(receipts, com[p].gen))

(* The counters the page leads to.                                         *)
Reaches(p, c) ==
  /\ c.page = com[p].page + 1 /\ c.size = com[p].size
  /\ c.total = PageTotal(com[p], resp[p]) /\ c.fetched = Fetched(p)
  /\ c.saved = NextCommitted(p).saved /\ c.reason = ReasonOf(com[p], resp[p], full[p])

(* The tests of the source, which such a page has passed.                  *)
LEMMA PageFits ==
  ASSUME Typed, NEW p \in Procs, Proper(p)
  PROVE  LET rows  == resp[p].rows
             total == PageTotal(com[p], resp[p])
         IN  /\ Cardinality(rows) <= com[p].size
             /\ total > 0 => Fetched(p) <= total
             /\ total > 0 /\ rows = {} => Fetched(p) = total
<1> DEFINE rows == resp[p].rows
           total == PageTotal(com[p], resp[p])
<1>1. /\ pc[p] = "pagew" /\ com[p] \in Checkpoint /\ resp[p] \in Response
      /\ rows \in SUBSET Row /\ com[p].size \in Nat
  BY DEF Typed, TypeOK, Proper, Response, Checkpoint
<1>2. total \in Int /\ Fetched(p) \in Nat /\ Cardinality(rows) \in Nat
  BY <1>1, PageTotalType, PageWritesTyped, RowsFinite
<1>3. ~(rows = {} /\ total > 0 /\ Fetched(p) < total)
  BY DEF Proper, SourceProblem, Fetched
<1>4. ~(total > 0 /\ Fetched(p) > total)
  BY <1>3 DEF Proper, SourceProblem, Fetched
<1>5. ~(Cardinality(rows) > com[p].size)
  BY <1>3, <1>4 DEF Proper, SourceProblem, Fetched
<1>6. QED
  BY <1>1, <1>2, <1>3, <1>4, <1>5

(* The receipt of such a page turns the proof of the old checkpoint into   *)
(* one of the new.                                                         *)
LEMMA ProofExtends ==
  ASSUME Typed, IsFiniteSet(receipts), NEW p \in Procs, Proper(p), NEW c, Reaches(p, c)
  PROVE  ReceiptsProve(PagesOf(receipts \cup {NewReceipt(p)}, com[p].gen), c, ScanEnds(p))
<1> DEFINE g == com[p].gen
           rows == resp[p].rows
           new == NewReceipt(p)
           old == PagesOf(receipts, g)
           all == PagesOf(receipts \cup {new}, g)
           items == UNION {r.rows : r \in old}
           total == PageTotal(com[p], resp[p])
           countTo(rs, n) == Cardinality(UNION {r.rows : r \in UpTo(rs, n)})
           fullBefore(rs, n) == \E r \in UpTo(rs, n - 1) : Cardinality(r.rows) = r.size
<1>0. /\ pc[p] = "pagew" /\ ~KeyConflict(p)
      /\ ReceiptsProve(old, com[p], FALSE) /\ Unended(com[p])
  BY DEF Proper
<1>01. /\ c.page = com[p].page + 1 /\ c.size = com[p].size /\ c.total = total
       /\ c.fetched = Fetched(p) /\ c.saved = NextCommitted(p).saved
  BY DEF Reaches
<1>1. /\ com[p] \in Checkpoint /\ Started(com[p]) /\ resp[p] \in Response
      /\ rows \in SUBSET Row /\ receipts \in SUBSET Receipt /\ new \in Receipt
  BY <1>0, PageWritesTyped DEF Typed, TypeOK, Shape, Opened, Response
<1>2. /\ com[p].page \in Nat \ {0} /\ com[p].size \in Nat \ {0} /\ com[p].fetched \in Nat
      /\ com[p].saved \in Nat /\ com[p].total \in Int
  BY <1>1 DEF Started, Checkpoint
<1>3. /\ new.gen = g /\ new.page = com[p].page /\ new.size = com[p].size /\ new.rows = rows
      /\ new.total = total /\ new.reason = c.reason
  BY DEF NewReceipt, Reaches
<1>4. total \in Int /\ total >= com[p].total
  BY <1>1, PageTotalType
<1>5. all = old \cup {new} /\ old \in SUBSET Receipt /\ IsFiniteSet(old)
  BY <1>1, <1>3, FS_Subset DEF PagesOf
<1>6. /\ {r.page : r \in old} = 1..(com[p].page - 1) /\ Cardinality(old) = com[p].page - 1
      /\ com[p].fetched = Cardinality(items)
      /\ com[p].saved = Cardinality(items \cap Target)
  BY <1>0 DEF ReceiptsProve
<1>7. \A r \in old : r.page \in Nat \ {0} /\ r.page < com[p].page /\ r.total \in Int
  <2>1. \A r \in old : r.page \in 1..(com[p].page - 1) /\ r.total \in Int
    BY <1>5, <1>6 DEF Receipt
  <2>2. QED
    BY <1>2, <2>1
<1>8. {r.page : r \in all} = 1..(c.page - 1) /\ Fetched(p) = Cardinality(ItemsOf(receipts \cup {new}, g))
  <2>1. com[p].fetched = Cardinality(ItemsOf(receipts, g))
    BY <1>6 DEF ItemsOf
  <2>2. c.page - 1 = com[p].page
    BY <1>01, <1>2
  <2>3. QED
    BY <1>0, <1>6, <2>1, <2>2, ChainExtends
<1>9. Cardinality(all) = c.page - 1
  <2>1. new \notin old
    BY <1>3, <1>7
  <2>2. Cardinality(all) = Cardinality(old) + 1
    BY <1>5, <2>1, FS_AddElement
  <2>3. QED
    BY <1>01, <1>2, <1>6, <2>2
<1>10. c.fetched = Cardinality(UNION {r.rows : r \in all})
  BY <1>01, <1>8 DEF ItemsOf
<1>11. UNION {r.rows : r \in all} = items \cup rows /\ items \cap rows = {} /\ items \in SUBSET Row
  <2>1. UNION {r.rows : r \in all} = items \cup rows
    BY <1>3, <1>5
  <2>2. items \cap rows = {}
    BY <1>0 DEF KeyConflict, KeysOf, ItemsOf
  <2>3. QED
    BY <1>5, <2>1, <2>2, ItemsAreRows
<1>12. c.saved = Cardinality((UNION {r.rows : r \in all}) \cap Target)
  <2>1. /\ items \cap Target \in SUBSET Row /\ rows \cap Target \in SUBSET Row
        /\ (items \cap Target) \cap (rows \cap Target) = {}
        /\ (UNION {r.rows : r \in all}) \cap Target = (items \cap Target) \cup (rows \cap Target)
    BY <1>1, <1>11
  <2>2. /\ IsFiniteSet(items \cap Target) /\ IsFiniteSet(rows \cap Target)
        /\ Cardinality(items \cap Target) \in Nat /\ Cardinality(rows \cap Target) \in Nat
    BY <2>1, RowsFinite
  <2>3. Cardinality((items \cap Target) \cup (rows \cap Target))
          = Cardinality(items \cap Target) + Cardinality(rows \cap Target)
    <3>1. Cardinality((items \cap Target) \cup (rows \cap Target))
            = Cardinality(items \cap Target) + Cardinality(rows \cap Target)
              - Cardinality((items \cap Target) \cap (rows \cap Target))
      BY <2>2, FS_Union
    <3>2. Cardinality((items \cap Target) \cap (rows \cap Target)) = 0
      BY <2>1, FS_EmptySet
    <3>3. QED
      BY <2>2, <3>1, <3>2
  <2>4. c.saved = com[p].saved + Cardinality(rows \cap Target)
    BY <1>01, <1>1 DEF NextCommitted, Checkpoint
  <2>5. Cardinality((UNION {r.rows : r \in all}) \cap Target)
          = Cardinality((items \cap Target) \cup (rows \cap Target))
    BY <2>1
  <2>6. QED
    BY <1>6, <2>3, <2>4, <2>5
(* The tests of the source.                                                *)
<1>13. /\ Cardinality(rows) <= com[p].size
       /\ total > 0 => Fetched(p) <= total
       /\ total > 0 /\ rows = {} => Fetched(p) = total
  BY PageFits
(* What the old receipts see does not change.                              *)
<1>14. ASSUME NEW n \in Int, n < com[p].page PROVE UpTo(all, n) = UpTo(old, n)
  BY <1>2, <1>3, <1>5, <1>14 DEF UpTo
<1>15. UpTo(all, com[p].page) = all /\ UpTo(all, com[p].page - 1) = old
  <2>1. \A r \in old : r.page <= com[p].page - 1 /\ r.page <= com[p].page
    BY <1>2, <1>7
  <2>2. new.page <= com[p].page /\ ~(new.page <= com[p].page - 1)
    BY <1>2, <1>3
  <2>3. UpTo(all, com[p].page) = all
    BY <1>5, <2>1, <2>2 DEF UpTo
  <2>4. UpTo(all, com[p].page - 1) = old
    BY <1>5, <2>1, <2>2 DEF UpTo
  <2>5. QED
    BY <2>3, <2>4
<1>16. \A r \in old : r.reason = ""
  BY <1>0 DEF ReceiptsProve, Unended
(* An announcement never shrinks.                                          *)
<1>17. \A r \in old : r.total > 0 => total >= r.total
  <2>1. SUFFICES ASSUME NEW r \in old, r.total > 0 PROVE total >= r.total
    OBVIOUS
  <2>2. com[p].page - 1 \in 1..(com[p].page - 1)
    BY <1>2, <1>7
  <2>3. PICK l \in old : l.page = com[p].page - 1
    BY <1>6, <2>2
  <2>4. l.total = com[p].total
    BY <1>0, <2>3 DEF ReceiptsProve
  <2>5. CASE r.page = com[p].page - 1
    <3>1. r.total = com[p].total
      BY <1>0, <2>5 DEF ReceiptsProve
    <3>2. QED
      BY <1>4, <3>1
  <2>6. CASE r.page # com[p].page - 1
    <3>1. l.page > r.page
      BY <1>2, <1>7, <2>3, <2>6
    <3>2. l.total >= r.total
      BY <1>0, <2>1, <3>1 DEF ReceiptsProve
    <3>3. QED
      BY <1>2, <1>4, <1>7, <2>4, <3>2
  <2>7. QED
    BY <2>5, <2>6
<1>18. ASSUME NEW r \in old
       PROVE  /\ r.size = c.size /\ Cardinality(r.rows) <= c.size
              /\ \A s \in all : s.page > r.page /\ r.total > 0 => s.total >= r.total
              /\ r.total > 0 => countTo(all, r.page) <= r.total
              /\ r.total > 0 /\ r.rows = {} => countTo(all, r.page) = r.total
              /\ r.reason = DoneReason(r.total, countTo(all, r.page), Cardinality(r.rows),
                                       r.size, fullBefore(all, r.page))
              /\ r.reason # "" => r.page = c.page - 1
              /\ r.page = c.page - 1 => r.total = c.total /\ r.reason = c.reason
  <2>1. UpTo(all, r.page) = UpTo(old, r.page) /\ UpTo(all, r.page - 1) = UpTo(old, r.page - 1)
    <3>1. /\ r.page \in Int /\ r.page < com[p].page
          /\ r.page - 1 \in Int /\ r.page - 1 < com[p].page
      BY <1>2, <1>7
    <3>2. QED
      BY <1>14, <3>1
  <2>2. r.page # c.page - 1 /\ c.size = com[p].size
    BY <1>01, <1>2, <1>7
  <2>3. /\ r.size = com[p].size /\ Cardinality(r.rows) <= com[p].size
        /\ \A s \in old : s.page > r.page /\ r.total > 0 => s.total >= r.total
        /\ r.total > 0 => countTo(old, r.page) <= r.total
        /\ r.total > 0 /\ r.rows = {} => countTo(old, r.page) = r.total
        /\ r.reason = DoneReason(r.total, countTo(old, r.page), Cardinality(r.rows),
                                 r.size, fullBefore(old, r.page))
    BY <1>0 DEF ReceiptsProve
  <2>4. \A s \in all : s.page > r.page /\ r.total > 0 => s.total >= r.total
    BY <1>3, <1>5, <1>17, <2>3
  <2>5. countTo(all, r.page) = countTo(old, r.page) /\ (fullBefore(all, r.page) <=> fullBefore(old, r.page))
    BY <2>1
  <2>6. QED
    BY <1>16, <2>2, <2>3, <2>4, <2>5
<1>19. /\ new.size = c.size /\ Cardinality(new.rows) <= c.size
       /\ \A s \in all : s.page > new.page /\ new.total > 0 => s.total >= new.total
       /\ new.total > 0 => countTo(all, new.page) <= new.total
       /\ new.total > 0 /\ new.rows = {} => countTo(all, new.page) = new.total
       /\ new.reason = DoneReason(new.total, countTo(all, new.page), Cardinality(new.rows),
                                  new.size, fullBefore(all, new.page))
       /\ new.page = c.page - 1 /\ new.total = c.total /\ new.reason = c.reason
  <2>1. countTo(all, new.page) = Fetched(p)
    BY <1>01, <1>3, <1>10, <1>15
  <2>2. fullBefore(all, new.page) = full[p]
    BY <1>3, <1>15 DEF HasFull, Proper
  <2>3. \A s \in all : ~(s.page > new.page)
    BY <1>2, <1>3, <1>5, <1>7
  <2>4. c.reason = DoneReason(total, Fetched(p), Cardinality(rows), com[p].size, full[p])
    BY DEF Reaches, ReasonOf, Fetched
  <2>6. new.reason = DoneReason(new.total, countTo(all, new.page), Cardinality(new.rows),
                                new.size, fullBefore(all, new.page))
    BY <1>3, <2>1, <2>2, <2>4
  <2>7. c.page - 1 = com[p].page
    BY <1>01, <1>2
  <2>8. QED
    BY <1>01, <1>3, <1>13, <2>1, <2>3, <2>6, <2>7
<1>20. all # {} /\ (ScanEnds(p) <=> c.reason # "")
  BY <1>5 DEF ScanEnds, Reaches
<1>21. \A r \in all : r \in old \/ r = new
  BY <1>5
<1>22. QED
  BY <1>8, <1>9, <1>10, <1>12, <1>18, <1>19, <1>20, <1>21 DEF ReceiptsProve

-----------------------------------------------------------------------------
(* The ways a step changes the tables.                                     *)

Working(c) == c.status \in {"RUNNING", "FAILED", "INCOMPLETE"}
SameScan(c, d) ==
  /\ c.gen = d.gen /\ c.page = d.page /\ Counters(c, d)
  /\ c.reason = d.reason /\ c.marker = d.marker

Begins(p) ==
  /\ Fresh(p) /\ com[p].saved = 0 /\ com[p].total = -1 /\ com[p].gen # 0
  /\ Unended(com[p]) /\ Working(com[p])
  /\ cp' = com[p] /\ receipts' \subseteq receipts /\ UNCHANGED records
Rewrites ==
  /\ SameScan(cp', cp) /\ Unended(cp) /\ Working(cp) /\ Working(cp')
  /\ cp.marker = NoMarker /\ UNCHANGED <<receipts, records>>
Compacts ==
  /\ cp.status = "COMPLETE" /\ cp.marker = NoMarker
  /\ cp' = [cp EXCEPT !.marker = PagesOf(receipts, cp.gen)]
  /\ receipts' = receipts \ PagesOf(receipts, cp.gen) /\ UNCHANGED records
Stores(p) ==
  /\ Proper(p) /\ SameScan(com[p], cp) /\ Working(cp)
  /\ com[p].marker = NoMarker /\ com[p].status = "RUNNING"
  /\ \/ CommitPage(p) /\ ~ScanEnds(p)
     \/ FinishScope(p) /\ ScanEnds(p)

LEMMA CompleteHasEnded ==
  ASSUME WriterMeetsVerifier, cp.status = "COMPLETE"
  PROVE  ~Unended(cp)
  BY DEF WriterMeetsVerifier, ReceiptsProve, Unended

LEMMA UnendedIsWorking ==
  ASSUME Typed, Absent, WriterMeetsVerifier, Unended(cp), cp.gen # 0
  PROVE  Working(cp)
  BY CompleteHasEnded DEF Typed, TypeOK, Checkpoint, Absent, Working

(* A writer of the page loop works on the stored checkpoint.               *)
LEMMA Grounded ==
  ASSUME EvidenceInv, NEW p \in Procs, pc[p] \in {"pagew", "failw"}
  PROVE  /\ SameScan(com[p], cp) /\ Unended(com[p]) /\ Working(cp)
         /\ com[p].marker = NoMarker /\ com[p].status = "RUNNING"
<1>1. Typed /\ Absent /\ WriterMeetsVerifier /\ Compared /\ Markers
  BY DEF EvidenceInv, ChainInv
<1>2. SamePage(cp, com[p]) /\ com[p].marker = NoMarker
  BY <1>1 DEF Compared, Markers
<1>3. /\ com[p].gen = cp.gen /\ com[p].page = cp.page /\ com[p].fetched = cp.fetched
      /\ com[p].reason = cp.reason /\ com[p].marker = cp.marker
  BY <1>2 DEF SamePage, Cursor
<1>4. pc[p] \in Opened
  BY DEF Opened
<1>5. com[p].gen # 0
  BY <1>1, <1>4 DEF Typed, Shape, Started, Gens
<1>6. Counters(com[p], cp)
  BY <1>3, <1>5 DEF EvidenceInv, Forward, Tracks
<1>7. Unended(com[p]) /\ com[p].status = "RUNNING"
  BY <1>4 DEF EvidenceInv, Opening, Unended
<1>8. Unended(cp)
  BY <1>3, <1>7 DEF Unended
<1>9. QED
  BY <1>1, <1>2, <1>3, <1>5, <1>6, <1>7, <1>8, UnendedIsWorking DEF SameScan

LEMMA StartKind ==
  ASSUME EvidenceInv, NEW p \in Procs, StartWrite(p)
  PROVE  Begins(p) \/ Rewrites
<1>1. /\ Typed /\ Absent /\ WriterMeetsVerifier /\ Markers
      /\ SameStart(cp, obs[p]) /\ (Fresh(p) \/ Resumed(p)) /\ pc[p] \in Opened
      /\ cp' = com[p] /\ UNCHANGED records
  BY DEF EvidenceInv, ChainInv, StartWrite, Compared, Claims, Opened
<1>2. com[p].gen # 0 /\ com[p] \in Checkpoint
  BY <1>1 DEF Typed, TypeOK, Shape, Started, Gens
<1>3. Unended(com[p]) /\ Working(com[p])
  BY <1>1 DEF EvidenceInv, Opening, Unended, Working
<1>4. CASE com[p].gen # obs[p].gen
  <2>1. Fresh(p)
    BY <1>1, <1>4 DEF Resumed
  <2>2. com[p].saved = 0 /\ com[p].total = -1
    BY <1>4 DEF EvidenceInv, Opening, StartWrite
  <2>3. receipts' \subseteq receipts
    BY DEF StartWrite
  <2>4. QED
    BY <1>1, <1>2, <1>3, <2>1, <2>2, <2>3 DEF Begins
<1>5. CASE com[p].gen = obs[p].gen
  <2>1. Resumed(p)
    BY <1>1, <1>5 DEF Fresh
  <2>2. receipts' = receipts
    BY <2>1 DEF StartWrite, Resumed
  <2>3. /\ cp.gen = obs[p].gen /\ cp.reason = obs[p].reason /\ cp.marker = obs[p].marker
        /\ cp.page = obs[p].page
    BY <1>1 DEF SameStart, Cursor
  <2>4. Unended(obs[p]) /\ Counters(com[p], obs[p])
    BY <1>5 DEF EvidenceInv, Opening, StartWrite, Unended
  <2>5. Counters(obs[p], cp)
    BY <1>2, <1>5, <2>3 DEF EvidenceInv, Forward, Tracks
  <2>6. Unended(cp) /\ cp.gen # 0
    BY <1>2, <1>5, <2>3, <2>4 DEF Unended
  <2>7. SameScan(cp', cp)
    BY <1>1, <1>3, <1>5, <2>1, <2>3, <2>4, <2>5 DEF SameScan, Counters, Resumed, Unended
  <2>8. cp.marker = NoMarker
    BY <1>1, <2>1, <2>3 DEF Markers, Resumed
  <2>9. QED
    BY <1>1, <1>3, <2>2, <2>6, <2>7, <2>8, UnendedIsWorking DEF Rewrites
<1>6. QED
  BY <1>4, <1>5

LEMMA StoreKind ==
  ASSUME EvidenceInv, NEW p \in Procs, CommitPage(p) \/ FinishScope(p)
  PROVE  Stores(p)
<1>1. pc[p] = "pagew" /\ problem[p] = "" /\ ~KeyConflict(p)
  BY DEF CommitPage, FinishScope, PageAccepted
<1>2. /\ SameScan(com[p], cp) /\ Unended(com[p]) /\ Working(cp)
      /\ com[p].marker = NoMarker /\ com[p].status = "RUNNING"
  BY <1>1, Grounded
<1>3. SourceProblem(com[p], resp[p]) = ""
  BY <1>1 DEF EvidenceInv, Checked
<1>4. com[p].gen = cp.gen /\ com[p].page = cp.page /\ com[p].reason = cp.reason
      /\ Counters(com[p], cp)
  BY <1>2 DEF SameScan
<1>5. ReceiptsProve(PagesOf(receipts, cp.gen), cp, FALSE)
  BY <1>2 DEF EvidenceInv, WriterMeetsVerifier, Verified, Working
<1>6. ReceiptsProve(PagesOf(receipts, com[p].gen), com[p], FALSE)
  BY <1>4, <1>5, SameProof
<1>7. full[p] <=> HasFull(PagesOf(receipts, com[p].gen))
  BY <1>1, <1>2, <1>4 DEF EvidenceInv, FullSeen, Working
<1>8. full[p] = HasFull(PagesOf(receipts, com[p].gen))
  <2>1. full[p] \in BOOLEAN
    BY DEF EvidenceInv, ChainInv, Typed, TypeOK
  <2>2. HasFull(PagesOf(receipts, com[p].gen)) \in BOOLEAN
    BY DEF HasFull
  <2>3. QED
    BY <1>7, <2>1, <2>2
<1>9. Proper(p)
  BY <1>1, <1>2, <1>3, <1>6, <1>8 DEF Proper
<1>10. /\ CommitPage(p) => ~ScanEnds(p)
       /\ FinishScope(p) => ScanEnds(p)
  BY DEF CommitPage, FinishScope
<1>11. QED
  BY <1>2, <1>9, <1>10 DEF Stores

LEMMA CompactKind ==
  ASSUME EvidenceInv, NEW p \in Procs, CompactReceipts(p)
  PROVE  Compacts \/ UNCHANGED <<cp, receipts, records>>
<1>1. SUFFICES ASSUME cp.status = "COMPLETE", Cursor(cp) = Cursor(obs[p]),
                      cp' = [cp EXCEPT !.marker = PagesOf(receipts, obs[p].gen)],
                      receipts' = receipts \ PagesOf(receipts, obs[p].gen)
               PROVE  Compacts
  BY DEF CompactReceipts
<1>2. cp.gen = obs[p].gen /\ cp.marker = obs[p].marker
  BY <1>1 DEF Cursor
<1>3. obs[p].marker = NoMarker
  BY DEF EvidenceInv, Opening, CompactReceipts
<1>4. QED
  BY <1>1, <1>2, <1>3 DEF Compacts, CompactReceipts

LEMMA FailKind ==
  ASSUME EvidenceInv, NEW p \in Procs, StopPage(p) \/ FailWrite(p)
  PROVE  Rewrites
<1>1. pc[p] \in {"pagew", "failw"} /\ UNCHANGED <<receipts, records>>
  BY DEF StopPage, FailWrite
<1>2. /\ SameScan(com[p], cp) /\ Unended(com[p]) /\ Working(cp)
      /\ com[p].marker = NoMarker
  BY <1>1, Grounded
<1>3. com[p] \in Checkpoint /\ outcome[p] \in {"FAILED", "INCOMPLETE"}
  BY DEF EvidenceInv, ChainInv, Typed, TypeOK
<1>4. SameScan(cp', com[p])
  BY <1>3 DEF StopPage, FailWrite, SameScan, Counters, Checkpoint
<1>5. Working(cp')
  BY <1>3 DEF StopPage, FailWrite, Working, Checkpoint
<1>6. SameScan(cp', cp) /\ Unended(cp) /\ cp.marker = NoMarker
  BY <1>2, <1>4 DEF SameScan, Counters, Unended
<1>7. QED
  BY <1>1, <1>2, <1>5, <1>6 DEF Rewrites

LEMMA Kinds ==
  ASSUME EvidenceInv, NEW p \in Procs, Step(p)
  PROVE  \/ UNCHANGED <<cp, receipts, records>>
         \/ Compacts \/ Begins(p) \/ Rewrites \/ Stores(p)
<1>1. \/ UNCHANGED <<cp, receipts, records>>
      \/ CompactReceipts(p) \/ StartWrite(p) \/ StopPage(p)
      \/ CommitPage(p) \/ FinishScope(p) \/ FailWrite(p)
  BY DEF Step, Work, Lookup, Verify, StartRead, ScanFullPage, Fetch, PageRead, PageRollback,
     FailRead, SpendPageBudget, Interrupt, Crash, durable
<1>2. QED
  BY <1>1, StartKind, StoreKind, CompactKind, FailKind

(* What an accepted page leaves in the tables.                             *)
LEMMA StoresWrite ==
  ASSUME EvidenceInv, NEW p \in Procs, Stores(p)
  PROVE  LET all == receipts \cup {NewReceipt(p)}
             mine == PagesOf(all, cp.gen)
         IN  /\ cp'.gen = cp.gen /\ com[p].gen = cp.gen /\ Reaches(p, cp')
             /\ cp'.page = cp.page + 1
             /\ \/ /\ ~ScanEnds(p) /\ cp'.status = "RUNNING" /\ cp'.marker = NoMarker
                   /\ receipts' = all /\ com'[p] = cp'
                \/ /\ ScanEnds(p) /\ cp'.status = "COMPLETE" /\ com'[p] = NoCp
                   /\ cp'.marker = NoMarker /\ receipts' = all
                \/ /\ ScanEnds(p) /\ cp'.status = "COMPLETE" /\ com'[p] = NoCp
                   /\ cp'.marker = mine /\ receipts' = all \ mine
<1> DEFINE all == receipts \cup {NewReceipt(p)}
           mine == PagesOf(all, cp.gen)
<1>1. /\ Typed /\ com[p] \in Checkpoint /\ cp \in Checkpoint /\ com \in [Procs -> Checkpoint]
      /\ pc[p] = "pagew"
  BY DEF EvidenceInv, ChainInv, Typed, TypeOK, Stores, Proper
<1>2. /\ com[p].gen = cp.gen /\ com[p].page = cp.page /\ com[p].marker = NoMarker
      /\ com[p].status = "RUNNING" /\ Unended(com[p])
  BY DEF Stores, SameScan, Proper
<1>3. NextCommitted(p) \in Checkpoint
  BY <1>1, PageWritesTyped
<1>4. /\ NextCommitted(p).gen = cp.gen /\ NextCommitted(p).page = com[p].page + 1
      /\ NextCommitted(p).size = com[p].size /\ NextCommitted(p).marker = NoMarker
      /\ NextCommitted(p).total = PageTotal(com[p], resp[p])
      /\ NextCommitted(p).fetched = Fetched(p)
      /\ NextCommitted(p).status = com[p].status /\ NextCommitted(p).reason = com[p].reason
  BY <1>1, <1>2 DEF NextCommitted, Checkpoint
<1>5. CASE CommitPage(p) /\ ~ScanEnds(p)
  <2>1. /\ cp' = NextCommitted(p) /\ receipts' = all /\ com'[p] = cp'
    BY <1>1, <1>5 DEF CommitPage
  <2>2. cp'.reason = ReasonOf(com[p], resp[p], full[p])
    BY <1>2, <1>4, <1>5, <2>1 DEF ScanEnds, Unended
  <2>3. Reaches(p, cp')
    BY <1>4, <2>1, <2>2 DEF Reaches
  <2>4. QED
    BY <1>2, <1>4, <1>5, <2>1, <2>3
<1>6. CASE FinishScope(p) /\ ScanEnds(p)
  <2>1. PICK compact \in Compacting :
          /\ cp' = [NextCommitted(p) EXCEPT
                      !.status = "COMPLETE",
                      !.reason = ReasonOf(com[p], resp[p], full[p]),
                      !.marker = IF compact THEN PagesOf(all, com[p].gen) ELSE NoMarker]
          /\ receipts' = IF compact THEN all \ PagesOf(all, com[p].gen) ELSE all
    BY <1>6 DEF FinishScope
  <2>2. com'[p] = NoCp
    BY <1>1, <1>6 DEF FinishScope, Leave
  <2>3. /\ cp'.gen = cp.gen /\ cp'.page = com[p].page + 1 /\ cp'.size = com[p].size
        /\ cp'.total = PageTotal(com[p], resp[p]) /\ cp'.fetched = Fetched(p)
        /\ cp'.saved = NextCommitted(p).saved
    BY <1>3, <1>4, <2>1 DEF Checkpoint
  <2>4. cp'.reason = ReasonOf(com[p], resp[p], full[p]) /\ cp'.status = "COMPLETE"
    BY <1>3, <2>1 DEF Checkpoint
  <2>5. cp'.marker = IF compact THEN mine ELSE NoMarker
    BY <1>2, <1>3, <2>1 DEF Checkpoint
  <2>6. Reaches(p, cp')
    BY <2>3, <2>4 DEF Reaches
  <2>7. QED
    BY <1>2, <1>6, <2>1, <2>2, <2>3, <2>4, <2>5, <2>6
<1>7. QED
  BY <1>5, <1>6 DEF Stores

-----------------------------------------------------------------------------
(* What one step of p does to its own locals, and to nobody else's.        *)

LEMMA StepTyped ==
  ASSUME Typed, NEW p \in Procs, Step(p)
  PROVE  Typed'
<1>1. Next
  BY DEF Next, Step
<1>2. QED
  BY <1>1, NextTyped

LEMMA StepLocals ==
  ASSUME Typed, NEW p \in Procs, Step(p), NEW q \in Procs \ {p}
  PROVE  resp'[q] = resp[q] /\ problem'[q] = problem[q] /\ full'[q] = full[q]
<1>1. Leave(p) => resp'[q] = resp[q] /\ problem'[q] = problem[q] /\ full'[q] = full[q]
  BY DEF Leave, Typed, TypeOK
<1>2. \/ Leave(p) \/ UNCHANGED <<resp, problem, full>>
      \/ ScanFullPage(p) \/ Fetch(p) \/ PageRead(p) \/ CommitPage(p)
  BY DEF Step, Work, Lookup, Verify, CompactReceipts, StartRead, StartWrite, Interrupt, Fail,
     SpendPageBudget, StopPage, PageRollback, FinishScope, FailRead, FailWrite, Crash, local
<1>3. CASE ScanFullPage(p) \/ PageRead(p)
  BY <1>3 DEF ScanFullPage, PageRead, Fail, Typed, TypeOK
<1>4. CASE Fetch(p) \/ CommitPage(p)
  BY <1>4 DEF Fetch, CommitPage, Typed, TypeOK
<1>5. QED
  BY <1>1, <1>2, <1>3, <1>4


LEMMA NewGenerationFields ==
  ASSUME NEW g, NEW size
  PROVE  LET c == NewGeneration(g, size)
         IN  /\ c.gen = g /\ c.saved = 0 /\ c.total = -1
             /\ Unended(c) /\ c.status = "RUNNING"
<1>1. NewGeneration(g, size).gen = g /\ NewGeneration(g, size).saved = 0
      /\ NewGeneration(g, size).total = -1
  BY DEF NewGeneration
<1>2. NewGeneration(g, size).reason = "" /\ NewGeneration(g, size).status = "RUNNING"
  BY DEF NewGeneration
<1>3. QED
  BY <1>1, <1>2 DEF Unended

(* Where the remembered checkpoints come from.                             *)
Remembers(p) ==
  /\ obs'[p] \in {obs[p], NoCp} \/ (obs'[p] = cp /\ UNCHANGED cp)
  /\ \/ com'[p] \in {com[p], NoCp, cp'}
     \/ UNCHANGED cp /\ com'[p] = [obs[p] EXCEPT !.status = "RUNNING", !.err = ""]
     \/ UNCHANGED cp /\ \E size \in Nat : com'[p] = NewGeneration(minted + 1, size)

LEMMA StepRemembers ==
  ASSUME EvidenceInv, NEW p \in Procs, Step(p)
  PROVE  Remembers(p)
<1>1. /\ Typed /\ obs \in [Procs -> Checkpoint] /\ com \in [Procs -> Checkpoint]
      /\ obs[p] \in Checkpoint
  BY DEF EvidenceInv, ChainInv, Typed, TypeOK
<1>2. Leave(p) => obs'[p] = NoCp /\ com'[p] = NoCp
  BY <1>1 DEF Leave
<1>3. ASSUME NEW resume, NEW size \in Sizes, Lookup(p, resume, size) PROVE Remembers(p)
  <2>1. obs'[p] = cp /\ UNCHANGED cp /\ size \in Nat
    BY <1>1, <1>3, SizesAssumption DEF Lookup, durable
  <2>2. \/ com' = com
        \/ \E b \in BOOLEAN : PlanNewGeneration(p, size, b)
    BY <1>3 DEF Lookup, Drifted
  <2>3. com'[p] = com[p] \/ com'[p] = NewGeneration(minted + 1, size)
    BY <1>1, <2>2 DEF PlanNewGeneration
  <2>4. QED
    BY <2>1, <2>3 DEF Remembers
<1>4. CASE Verify(p)
  <2>1. UNCHANGED cp /\ obs[p].size \in Nat
    BY <1>1, <1>4 DEF Verify, durable, Checkpoint
  <2>2. obs'[p] = obs[p] \/ obs'[p] = NoCp
    BY <1>1, <1>4 DEF Verify
  <2>3. \/ com' = com
        \/ com' = [com EXCEPT ![p] = [obs[p] EXCEPT !.status = "RUNNING", !.err = ""]]
        \/ PlanNewGeneration(p, obs[p].size, FALSE)
    BY <1>4 DEF Verify
  <2>4. \/ com'[p] = com[p]
        \/ com'[p] = [obs[p] EXCEPT !.status = "RUNNING", !.err = ""]
        \/ com'[p] = NewGeneration(minted + 1, obs[p].size)
    BY <1>1, <2>3 DEF PlanNewGeneration
  <2>5. QED
    BY <2>1, <2>2, <2>4 DEF Remembers
<1>5. CASE CommitPage(p)
  BY <1>1, <1>5 DEF CommitPage, Remembers
<1>6. CASE Leave(p) \/ UNCHANGED <<obs, com>>
  BY <1>2, <1>6 DEF Remembers
<1>7. \/ Leave(p) \/ UNCHANGED <<obs, com>> \/ Verify(p) \/ CommitPage(p)
      \/ \E resume \in BOOLEAN, size \in Sizes : Lookup(p, resume, size)
  BY DEF Step, Work, CompactReceipts, StartRead, StartWrite, ScanFullPage, Fetch, Interrupt, Fail,
     PageRead, SpendPageBudget, StopPage, PageRollback, FinishScope, FailRead, FailWrite, Crash, local
<1>8. QED
  BY <1>3, <1>4, <1>5, <1>6, <1>7

(* How a step moves the checkpoint.                                        *)
Moves(p) ==
  \/ cp'.gen = cp.gen /\ cp'.page = cp.page /\ Counters(cp', cp)
  \/ cp'.gen = cp.gen /\ cp'.page = cp.page + 1
  \/ Fresh(p) /\ cp' = com[p]

LEMMA StepMoves ==
  ASSUME EvidenceInv, NEW p \in Procs, Step(p)
  PROVE  Moves(p)
<1>1. CASE UNCHANGED cp
  BY <1>1 DEF Moves, Counters
<1>2. CASE Compacts
  <2>1. cp \in Checkpoint
    BY DEF EvidenceInv, ChainInv, Typed, TypeOK
  <2>2. QED
    BY <1>2, <2>1 DEF Compacts, Moves, Counters, Checkpoint
<1>3. CASE Begins(p)
  BY <1>3 DEF Begins, Moves
<1>4. CASE Rewrites
  BY <1>4 DEF Rewrites, SameScan, Moves
<1>5. CASE Stores(p)
  BY <1>5, StoresWrite DEF Moves
<1>6. QED
  BY <1>1, <1>2, <1>3, <1>4, <1>5, Kinds

LEMMA TracksMoves ==
  ASSUME EvidenceInv, NEW p \in Procs, Moves(p), NEW c \in Checkpoint, Tracks(c, cp),
         Fresh(p) => c.gen # com[p].gen \/ c = com[p]
  PROVE  Tracks(c, cp')
<1>1. c.page \in Nat /\ cp.page \in Nat
  BY DEF EvidenceInv, ChainInv, Typed, TypeOK, Checkpoint
<1>2. CASE cp'.gen = cp.gen /\ cp'.page = cp.page /\ Counters(cp', cp)
  BY <1>2 DEF Tracks, Counters
<1>3. CASE cp'.gen = cp.gen /\ cp'.page = cp.page + 1
  BY <1>1, <1>3 DEF Tracks
<1>4. CASE Fresh(p) /\ cp' = com[p]
  BY <1>1, <1>4 DEF Tracks, Counters
<1>5. QED
  BY <1>2, <1>3, <1>4 DEF Moves

LEMMA ForwardStep ==
  ASSUME EvidenceInv, NEW p \in Procs, Step(p)
  PROVE  Forward'
<1>1. Typed /\ Drawn /\ Forward /\ Moves(p) /\ Remembers(p) /\ Flow(p)
  BY StepMoves, StepRemembers, StepFlow DEF EvidenceInv, ChainInv
<1>2. /\ cp \in Checkpoint /\ \A q \in Procs : obs[q] \in Checkpoint /\ com[q] \in Checkpoint
      /\ minted \in Nat /\ cp.gen <= minted
  BY <1>1 DEF Typed, TypeOK, Drawn
<1>3. \A q \in Procs : Tracks(obs[q], cp')
  BY <1>1, <1>2, TracksMoves DEF Forward, Fresh
<1>4. \A q \in Procs : Tracks(com[q], cp')
  BY <1>1, <1>2, TracksMoves DEF Forward, Fresh
<1>5. Tracks(cp, cp)
  BY <1>2 DEF Tracks, Counters, Checkpoint
<1>6. Tracks(NoCp, cp')
  BY NoCpFields DEF Tracks
<1>7. Tracks(cp', cp')
  <2>1. cp' \in Checkpoint
    BY <1>1, StepTyped DEF Typed, TypeOK
  <2>2. QED
    BY <2>1 DEF Tracks, Counters, Checkpoint
<1>8. Tracks(obs'[p], cp')
  BY <1>1, <1>3, <1>5, <1>6 DEF Remembers
<1>9. Tracks(com'[p], cp')
  <2>1. CASE UNCHANGED cp /\ com'[p] = [obs[p] EXCEPT !.status = "RUNNING", !.err = ""]
    <3>1. com'[p].gen = obs[p].gen /\ com'[p].page = obs[p].page /\ Counters(com'[p], obs[p])
      BY <1>2, <2>1 DEF Checkpoint, Counters
    <3>2. QED
      BY <1>3, <3>1 DEF Tracks, Counters
  <2>2. CASE UNCHANGED cp /\ \E size \in Nat : com'[p] = NewGeneration(minted + 1, size)
    <3>0. com'[p].gen = minted + 1
      <4>1. PICK size \in Nat : com'[p] = NewGeneration(minted + 1, size)
        BY <2>2
      <4>2. QED
        BY <4>1, NewGenerationFields
    <3>1. cp'.gen <= minted /\ cp'.gen \in Nat
      BY <1>2, <2>2 DEF Checkpoint
    <3>2. QED
      BY <1>2, <3>0, <3>1 DEF Tracks
  <2>3. QED
    BY <1>1, <1>4, <1>6, <1>7, <2>1, <2>2 DEF Remembers
<1>10. ASSUME NEW q \in Procs PROVE Tracks(obs'[q], cp') /\ Tracks(com'[q], cp')
  <2>1. CASE q = p
    BY <1>8, <1>9, <2>1
  <2>2. CASE q # p
    BY <1>1, <1>3, <1>4, <2>2 DEF Flow
  <2>3. QED
    BY <2>1, <2>2
<1>11. QED
  BY <1>10 DEF Forward


(* Opening, for one process.                                               *)
OpensAt(at, c, o) ==
  /\ at \in Opened => Unended(c) /\ c.status = "RUNNING"
  /\ at \in {"start", "startw"} =>
       IF c.gen = o.gen THEN Unended(o) /\ Counters(c, o) ELSE c.saved = 0 /\ c.total = -1
  /\ at \in {"verify", "compact"} => o.marker = NoMarker

LEMMA OpeningIsLocal == Opening <=> \A p \in Procs : OpensAt(pc[p], com[p], obs[p])
  BY DEF Opening, OpensAt, Unended

LEMMA PlanOpens ==
  ASSUME Typed, NEW p \in Procs, NEW size, NEW b, PlanNewGeneration(p, size, b),
         NEW o \in Checkpoint, o.gen <= minted
  PROVE  OpensAt(pc'[p], com'[p], o)
<1>1. pc'[p] = "start" /\ com'[p] = NewGeneration(minted + 1, size)
  BY DEF PlanNewGeneration, Go, Typed, TypeOK
<1>2. com'[p].gen = minted + 1 /\ com'[p].saved = 0 /\ com'[p].total = -1
  BY <1>1, NewGenerationFields
<1>3. Unended(com'[p]) /\ com'[p].status = "RUNNING"
  BY <1>1, NewGenerationFields
<1>4. com'[p].gen # o.gen
  BY <1>2 DEF Typed, TypeOK, Checkpoint
<1>5. QED
  BY <1>1, <1>2, <1>3, <1>4 DEF OpensAt

LEMMA LookupOpens ==
  ASSUME EvidenceInv, NEW p \in Procs, NEW resume, NEW size \in Sizes, Lookup(p, resume, size)
  PROVE  OpensAt(pc'[p], com'[p], obs'[p])
<1>1. Typed /\ cp \in Checkpoint /\ cp.gen <= minted /\ obs'[p] = cp
  BY DEF EvidenceInv, ChainInv, Typed, TypeOK, Drawn, Lookup
<1>2. CASE \E b : PlanNewGeneration(p, size, b)
  BY <1>1, <1>2, PlanOpens
<1>3. CASE ~VerifiedCompact(cp) /\ Go(p, "verify")
  <2>1. cp.marker = NoMarker
    BY <1>3 DEF EvidenceInv, ChainInv, Markers, WriterMeetsVerifier
  <2>2. pc'[p] = "verify"
    BY <1>1, <1>3 DEF Go, Typed, TypeOK
  <2>3. QED
    BY <1>1, <2>1, <2>2 DEF OpensAt, Opened
<1>4. \/ \E b : PlanNewGeneration(p, size, b)
      \/ ~VerifiedCompact(cp) /\ Go(p, "verify")
  BY DEF Lookup
<1>5. QED
  BY <1>2, <1>3, <1>4

LEMMA VerifyOpens ==
  ASSUME EvidenceInv, NEW p \in Procs, Verify(p)
  PROVE  OpensAt(pc'[p], com'[p], obs'[p])
<1>1. /\ Typed /\ obs[p] \in Checkpoint /\ obs[p].gen <= minted /\ obs[p].marker = NoMarker
      /\ pc \in [Procs -> {"idle", "verify", "compact", "start", "startw", "opened",
                           "loop", "page", "pagew", "failing", "failw"}]
      /\ com \in [Procs -> Checkpoint]
  BY DEF EvidenceInv, ChainInv, Typed, TypeOK, Drawn, Opening, Verify
<1>2. CASE Go(p, "compact") /\ UNCHANGED <<obs, com>>
  BY <1>1, <1>2 DEF Go, OpensAt, Opened
<1>3. CASE Go(p, "idle")
  BY <1>1, <1>3 DEF Go, OpensAt, Opened
<1>4. CASE /\ Verified(obs[p], FALSE) /\ Go(p, "start") /\ UNCHANGED obs
           /\ com' = [com EXCEPT ![p] = [obs[p] EXCEPT !.status = "RUNNING", !.err = ""]]
  <2>1. Unended(obs[p])
    BY <1>4 DEF Verified, ReceiptsProve, Unended
  <2>2. pc'[p] = "start" /\ com'[p] = [obs[p] EXCEPT !.status = "RUNNING", !.err = ""]
    BY <1>1, <1>4 DEF Go
  <2>3. /\ com'[p].gen = obs[p].gen /\ Counters(com'[p], obs[p])
        /\ com'[p].status = "RUNNING" /\ com'[p].reason = obs[p].reason
    BY <1>1, <2>2 DEF Counters, Checkpoint
  <2>4. QED
    BY <1>4, <2>1, <2>2, <2>3 DEF OpensAt, Unended
<1>5. CASE PlanNewGeneration(p, obs[p].size, FALSE) /\ UNCHANGED obs
  BY <1>1, <1>5, PlanOpens
<1>6. QED
  BY <1>2, <1>3, <1>4, <1>5 DEF Verify

(* The other steps leave, or move on with the same checkpoints.            *)
LEMMA OpeningStep ==
  ASSUME EvidenceInv, NEW p \in Procs, Step(p)
  PROVE  Opening'
<1>1. Typed /\ Flow(p) /\ OpensAt(pc[p], com[p], obs[p])
  BY StepFlow, OpeningIsLocal DEF EvidenceInv, ChainInv
<1>2. /\ pc \in [Procs -> {"idle", "verify", "compact", "start", "startw", "opened",
                           "loop", "page", "pagew", "failing", "failw"}]
      /\ com \in [Procs -> Checkpoint] /\ com[p] \in Checkpoint
  BY <1>1 DEF Typed, TypeOK
<1>3. OpensAt(pc'[p], com'[p], obs'[p])
  <2>1. CASE Leave(p)
    BY <1>2, <2>1 DEF Leave, Go, OpensAt, Opened
  <2>2. CASE Verify(p)
    BY <2>2, VerifyOpens
  <2>3. CASE \E resume \in BOOLEAN, size \in Sizes : Lookup(p, resume, size)
    BY <2>3, LookupOpens
  <2>4. CASE pc[p] = "start" /\ pc'[p] = "startw" /\ UNCHANGED <<obs, com>>
    BY <1>1, <2>4 DEF OpensAt, Opened
  <2>5. CASE /\ pc[p] \in Opened
             /\ pc'[p] \in {"opened", "loop", "page", "pagew", "failing", "failw"}
             /\ UNCHANGED <<obs, com>>
    BY <1>1, <2>5 DEF OpensAt
  <2>6. CASE CommitPage(p)
    <3>1. pc[p] = "pagew" /\ pc'[p] = "loop" /\ com'[p] = NextCommitted(p)
      BY <1>2, <2>6 DEF CommitPage, PageAccepted, Go
    <3>2. com'[p].reason = com[p].reason /\ com'[p].status = com[p].status
      BY <1>2, <3>1 DEF NextCommitted, Checkpoint
    <3>3. QED
      BY <1>1, <3>1, <3>2 DEF OpensAt, Opened, Unended
  <2>7. CASE StartRead(p)
    <3>1. Go(p, "startw") => pc'[p] = "startw"
      BY <1>2 DEF Go
    <3>2. QED
      BY <2>1, <2>4, <2>7, <3>1 DEF StartRead, local
  <2>8. CASE StartWrite(p) \/ ScanFullPage(p) \/ Fetch(p)
    <3>1. /\ pc[p] \in Opened /\ UNCHANGED <<obs, com>>
          /\ pc'[p] \in {"opened", "loop", "page"}
      BY <1>2, <2>8 DEF StartWrite, ScanFullPage, Fetch, Go, Opened, local
    <3>2. QED
      BY <2>5, <3>1
  <2>9. CASE Interrupt(p) \/ PageRead(p) \/ PageRollback(p)
    <3>1. /\ pc[p] \in Opened /\ UNCHANGED <<obs, com>>
          /\ pc'[p] \in {"failing", "pagew"}
      BY <1>2, <2>9 DEF Interrupt, PageRead, PageRollback, Fail, Go, Opened
    <3>2. QED
      BY <2>5, <3>1
  <2>10. CASE FailRead(p)
    <3>1. Go(p, "failw") => pc'[p] = "failw"
      BY <1>2 DEF Go
    <3>2. QED
      BY <2>1, <2>5, <2>10, <3>1 DEF FailRead, local, Opened
  <2>11. CASE CompactReceipts(p) \/ SpendPageBudget(p) \/ StopPage(p) \/ FinishScope(p)
              \/ FailWrite(p) \/ Crash(p)
    BY <2>1, <2>11 DEF CompactReceipts, SpendPageBudget, StopPage, FinishScope, FailWrite, Crash
  <2>12. QED
    BY <2>2, <2>3, <2>6, <2>7, <2>8, <2>9, <2>10, <2>11 DEF Step, Work
<1>4. ASSUME NEW q \in Procs PROVE OpensAt(pc'[q], com'[q], obs'[q])
  <2>1. CASE q = p
    BY <1>3, <2>1
  <2>2. CASE q # p
    BY <1>1, <2>2, OpeningIsLocal DEF Flow, EvidenceInv
  <2>3. QED
    BY <2>1, <2>2
<1>5. QED
  BY <1>4 DEF Opening, OpensAt, Unended


LEMMA TotalsStep ==
  ASSUME EvidenceInv, NEW p \in Procs, Step(p)
  PROVE  Totals'
<1>1. Typed /\ Remembers(p) /\ Flow(p) /\ obs[p] \in Checkpoint /\ com[p] \in Checkpoint
      /\ Totals
  BY StepRemembers, StepFlow DEF EvidenceInv, ChainInv, Typed, TypeOK
<1>2. cp'.total # 0
  <2>1. CASE UNCHANGED cp
    BY <1>1, <2>1 DEF Totals
  <2>2. CASE Compacts
    <3>1. cp \in Checkpoint
      BY <1>1 DEF Typed, TypeOK
    <3>2. cp'.total = cp.total
      BY <2>2, <3>1 DEF Compacts, Checkpoint
    <3>3. QED
      BY <1>1, <3>2 DEF Totals
  <2>3. CASE Begins(p)
    BY <1>1, <2>3 DEF Begins, Totals
  <2>4. CASE Rewrites
    BY <1>1, <2>4 DEF Rewrites, SameScan, Counters, Totals
  <2>5. CASE Stores(p)
    <3>1. cp'.total = PageTotal(com[p], resp[p])
      BY <2>5, StoresWrite DEF Reaches
    <3>2. resp[p] \in Response /\ com[p].total # 0
      BY <1>1 DEF Typed, TypeOK, Totals
    <3>3. PageTotal(com[p], resp[p]) # 0
      BY <1>1, <3>2 DEF PageTotal, Known, Response, Checkpoint
    <3>4. QED
      BY <3>1, <3>3
  <2>6. QED
    BY <2>1, <2>2, <2>3, <2>4, <2>5, Kinds
<1>3. NoCp.total # 0
  BY DEF NoCp
<1>4. obs'[p].total # 0
  BY <1>1, <1>3 DEF Remembers, Totals
<1>5. com'[p].total # 0
  <2>1. CASE com'[p] = [obs[p] EXCEPT !.status = "RUNNING", !.err = ""]
    <3>1. com'[p].total = obs[p].total
      BY <1>1, <2>1 DEF Checkpoint
    <3>2. QED
      BY <1>1, <3>1 DEF Totals
  <2>2. CASE \E size \in Nat : com'[p] = NewGeneration(minted + 1, size)
    BY <2>2, NewGenerationFields
  <2>3. QED
    BY <1>1, <1>2, <1>3, <2>1, <2>2 DEF Remembers, Totals
<1>6. ASSUME NEW q \in Procs \ {p} PROVE obs'[q].total # 0 /\ com'[q].total # 0
  BY <1>1 DEF Flow, Totals
<1>7. QED
  BY <1>2, <1>4, <1>5, <1>6 DEF Totals

(* The steps that leave a process inside the page loop.                    *)
LEMMA LoopSteps ==
  ASSUME Typed, NEW p \in Procs, Step(p), pc'[p] \in {"loop", "page", "pagew"}
  PROVE  ScanFullPage(p) \/ Fetch(p) \/ PageRead(p) \/ CommitPage(p)
<1>1. pc \in [Procs -> {"idle", "verify", "compact", "start", "startw", "opened",
                        "loop", "page", "pagew", "failing", "failw"}]
  BY DEF Typed, TypeOK
<1>2. Leave(p) => pc'[p] = "idle"
  BY <1>1 DEF Leave, Go
<1>3. \A at : Go(p, at) => pc'[p] = at
  BY <1>1 DEF Go
<1>4. \A resume \in BOOLEAN, size \in Sizes : ~Lookup(p, resume, size)
  BY <1>3 DEF Lookup, PlanNewGeneration
<1>5. ~Verify(p)
  BY <1>3 DEF Verify, PlanNewGeneration
<1>6. ~StartRead(p) /\ ~FailRead(p)
  BY <1>2, <1>3 DEF StartRead, FailRead
<1>7. ~StartWrite(p) /\ ~Interrupt(p) /\ ~PageRollback(p)
  BY <1>3 DEF StartWrite, Interrupt, PageRollback, Fail
<1>8. ~CompactReceipts(p) /\ ~StopPage(p) /\ ~FinishScope(p) /\ ~FailWrite(p)
      /\ ~SpendPageBudget(p) /\ ~Crash(p)
  BY <1>2 DEF CompactReceipts, StopPage, FinishScope, FailWrite, SpendPageBudget, Crash
<1>9. QED
  BY <1>4, <1>5, <1>6, <1>7, <1>8 DEF Step, Work

LEMMA CheckedStep ==
  ASSUME EvidenceInv, NEW p \in Procs, Step(p)
  PROVE  Checked'
<1>1. Typed /\ Flow(p) /\ Checked
  BY StepFlow DEF EvidenceInv, ChainInv
<1>2. /\ pc \in [Procs -> {"idle", "verify", "compact", "start", "startw", "opened",
                           "loop", "page", "pagew", "failing", "failw"}]
      /\ problem \in [Procs -> Problems]
  BY <1>1 DEF Typed, TypeOK
<1>3. ASSUME pc'[p] \in {"page", "pagew"}, problem'[p] = ""
      PROVE  SourceProblem(com'[p], resp'[p]) = ""
  <2>1. Fetch(p) \/ PageRead(p)
    <3>1. ~ScanFullPage(p) /\ ~CommitPage(p)
      BY <1>2, <1>3 DEF ScanFullPage, CommitPage, Go
    <3>2. QED
      BY <1>1, <1>3, <3>1, LoopSteps
  <2>2. CASE Fetch(p)
    <3>1. problem'[p] = SourceProblem(com[p], resp'[p]) /\ com' = com
      BY <1>2, <2>2 DEF Fetch
    <3>2. QED
      BY <1>3, <3>1
  <2>3. CASE PageRead(p)
    <3>1. pc[p] = "page" /\ com' = com /\ resp' = resp
      BY <2>3 DEF PageRead, Fail
    <3>2. problem[p] = ""
      BY <1>2, <1>3, <2>3 DEF PageRead, Fail
    <3>3. QED
      BY <1>1, <3>1, <3>2 DEF Checked
  <2>4. QED
    BY <2>1, <2>2, <2>3
<1>4. ASSUME NEW q \in Procs \ {p}, pc'[q] \in {"page", "pagew"}, problem'[q] = ""
      PROVE  SourceProblem(com'[q], resp'[q]) = ""
  <2>1. pc'[q] = pc[q] /\ com'[q] = com[q] /\ resp'[q] = resp[q] /\ problem'[q] = problem[q]
    BY <1>1, StepLocals DEF Flow
  <2>2. QED
    BY <1>1, <1>4, <2>1 DEF Checked
<1>5. QED
  BY <1>3, <1>4 DEF Checked

LEMMA FiniteStep ==
  ASSUME EvidenceInv, NEW p \in Procs, Step(p)
  PROVE  IsFiniteSet(receipts)'
<1>1. IsFiniteSet(receipts)
  BY DEF EvidenceInv
<1>2. IsFiniteSet(receipts \cup {NewReceipt(p)})
  BY <1>1, FS_AddElement
<1>3. receipts' \in SUBSET (receipts \cup {NewReceipt(p)})
  <2>1. CASE UNCHANGED <<cp, receipts, records>> \/ Compacts \/ Begins(p) \/ Rewrites
    BY <2>1 DEF Compacts, Begins, Rewrites
  <2>2. CASE Stores(p)
    BY <2>2, StoresWrite
  <2>3. QED
    BY <2>1, <2>2, Kinds
<1>4. QED
  BY <1>2, <1>3, FS_Subset


(* A full page stays seen: the only receipts that enter the generation of  *)
(* a process inside the loop are its own.                                  *)
LEMMA FullSeenStep ==
  ASSUME EvidenceInv, NEW p \in Procs, Step(p)
  PROVE  FullSeen'
<1>1. Typed /\ Flow(p) /\ FullSeen /\ Forward
  BY StepFlow DEF EvidenceInv, ChainInv
<1>2. /\ cp \in Checkpoint /\ \A q \in Procs : com[q] \in Checkpoint
      /\ full \in [Procs -> BOOLEAN]
      /\ pc \in [Procs -> {"idle", "verify", "compact", "start", "startw", "opened",
                           "loop", "page", "pagew", "failing", "failw"}]
  BY <1>1 DEF Typed, TypeOK
<1>3. ASSUME pc'[p] \in {"loop", "page", "pagew"}, com'[p].gen = cp'.gen,
             com'[p].page = cp'.page, cp'.status # "COMPLETE"
      PROVE  full'[p] <=> HasFull(PagesOf(receipts', cp'.gen))
  <2>1. CASE ScanFullPage(p)
    <3>1. full'[p] = HasFull(PagesOf(receipts, com[p].gen)) /\ UNCHANGED <<cp, receipts, com>>
      BY <1>2, <2>1 DEF ScanFullPage, durable, HasFull
    <3>2. QED
      BY <1>3, <3>1
  <2>2. CASE Fetch(p) \/ PageRead(p)
    <3>1. /\ UNCHANGED <<cp, receipts, com, full>> /\ pc[p] \in {"loop", "page"}
      BY <2>2 DEF Fetch, PageRead, Fail, durable
    <3>2. QED
      BY <1>1, <1>3, <3>1 DEF FullSeen
  <2>3. CASE CommitPage(p)
    <3>1. Stores(p)
      BY <2>3, StoreKind
    <3>2. /\ cp'.gen = com[p].gen /\ receipts' = receipts \cup {NewReceipt(p)}
      BY <1>3, <3>1, StoresWrite
    <3>3. full[p] = HasFull(PagesOf(receipts, com[p].gen))
      BY <3>1 DEF Stores, Proper
    <3>4. full'[p] = (full[p] \/ Cardinality(resp[p].rows) = com[p].size)
      BY <1>2, <2>3 DEF CommitPage
    <3>5. PagesOf(receipts', cp'.gen) = PagesOf(receipts, com[p].gen) \cup {NewReceipt(p)}
      BY <3>2 DEF PagesOf, NewReceipt
    <3>6. NewReceipt(p).rows = resp[p].rows /\ NewReceipt(p).size = com[p].size
      BY DEF NewReceipt
    <3>7. HasFull(PagesOf(receipts', cp'.gen))
            <=> HasFull(PagesOf(receipts, com[p].gen)) \/ Cardinality(resp[p].rows) = com[p].size
      BY <3>5, <3>6 DEF HasFull
    <3>8. QED
      BY <3>3, <3>4, <3>7
  <2>4. QED
    BY <1>1, <1>3, <2>1, <2>2, <2>3, LoopSteps
<1>4. ASSUME NEW q \in Procs \ {p}, pc'[q] \in {"loop", "page", "pagew"}, com'[q].gen = cp'.gen,
             com'[q].page = cp'.page, cp'.status # "COMPLETE"
      PROVE  full'[q] <=> HasFull(PagesOf(receipts', cp'.gen))
  <2>1. pc'[q] = pc[q] /\ com'[q] = com[q] /\ full'[q] = full[q]
    BY <1>1, StepLocals DEF Flow
  <2>2. CASE UNCHANGED <<cp, receipts, records>>
    BY <1>1, <1>4, <2>1, <2>2 DEF FullSeen
  <2>3. CASE Compacts
    BY <1>2, <1>4, <2>3 DEF Compacts, Checkpoint
  <2>4. CASE Begins(p)
    BY <1>4, <2>1, <2>4 DEF Begins, Fresh
  <2>5. CASE Rewrites
    <3>1. /\ cp'.gen = cp.gen /\ cp'.page = cp.page /\ receipts' = receipts
          /\ cp.status # "COMPLETE"
      BY <2>5 DEF Rewrites, SameScan, Working
    <3>2. QED
      BY <1>1, <1>4, <2>1, <3>1 DEF FullSeen
  <2>6. CASE Stores(p)
    <3>1. cp'.gen = cp.gen /\ cp'.page = cp.page + 1
      BY <2>6, StoresWrite
    <3>2. com[q].gen # 0
      BY <1>1, <1>4, <2>1 DEF Typed, Shape, Opened, Started, Gens
    <3>3. com[q].page <= cp.page
      BY <1>1, <1>4, <2>1, <3>1, <3>2 DEF Forward, Tracks
    <3>4. QED
      BY <1>2, <1>4, <2>1, <3>1, <3>3 DEF Checkpoint
  <2>7. QED
    BY <2>2, <2>3, <2>4, <2>5, <2>6, Kinds
<1>5. QED
  BY <1>3, <1>4 DEF FullSeen


-----------------------------------------------------------------------------
(* What the page loop writes is what the verifier accepts.                 *)

(* No two rows of an accepted page share an identity, and none has one of  *)
(* an earlier page: every item finds its own payload in the records.       *)
LEMMA PreservedBinds ==
  ASSUME EvidenceInv, NEW p \in Procs, Proper(p),
         RecordsBind(PagesOf(receipts, com[p].gen)),
         records' = Preserved(resp[p].rows)
  PROVE  LET all == PagesOf(receipts \cup {NewReceipt(p)}, com[p].gen)
         IN  \A i \in (UNION {r.rows : r \in all}) \cap Target : records'[i.key].payload = i.payload
<1> DEFINE rows == resp[p].rows
           old == PagesOf(receipts, com[p].gen)
           all == PagesOf(receipts \cup {NewReceipt(p)}, com[p].gen)
<1>1. resp[p] \in Response /\ rows \in SUBSET Row /\ receipts \in SUBSET Receipt
  BY DEF EvidenceInv, ChainInv, Typed, TypeOK, Response
<1>2. all = old \cup {NewReceipt(p)} /\ NewReceipt(p).rows = rows
  BY DEF PagesOf, NewReceipt
<1>3. old \in SUBSET Receipt /\ UNION {r.rows : r \in old} \in SUBSET Row
  BY <1>1, ItemsAreRows DEF PagesOf
<1>4. UNION {r.rows : r \in all} = (UNION {r.rows : r \in old}) \cup rows
  BY <1>2
<1>5. Cardinality(KeysOf(rows)) = Cardinality(rows)
  BY DEF Proper, SourceProblem
<1>6. ASSUME NEW i \in rows, i \in Target
      PROVE  records'[i.key].payload = i.payload
  <2> DEFINE j == CHOOSE j \in rows \cap Target : j.key = i.key
  <2>1. i.key \in Keys
    BY <1>1 DEF Row
  <2>2. j \in rows /\ j.key = i.key
    BY <1>6
  <2>3. j = i
    BY <1>1, <1>5, <2>2, KeysDistinct
  <2>4. records'[i.key].payload = j.payload
    BY <1>6, <2>1 DEF Preserved
  <2> HIDE DEF j
  <2>5. QED
    BY <2>3, <2>4
<1>7. ASSUME NEW i \in UNION {r.rows : r \in old}, i \in Target
      PROVE  records'[i.key].payload = i.payload
  <2>1. i.key \in Keys
    BY <1>3 DEF Row
  <2>2. ~\E j \in rows \cap Target : j.key = i.key
    <3>1. i.key \in KeysOf(ItemsOf(receipts, com[p].gen))
      BY DEF KeysOf, ItemsOf
    <3>2. KeysOf(rows) \cap KeysOf(ItemsOf(receipts, com[p].gen)) = {}
      BY DEF Proper, KeyConflict
    <3>3. QED
      BY <3>1, <3>2 DEF KeysOf
  <2>3. records'[i.key] = records[i.key]
    BY <2>1, <2>2 DEF Preserved
  <2>4. records[i.key].payload = i.payload
    BY <1>7 DEF RecordsBind
  <2>5. QED
    BY <2>3, <2>4
<1>8. QED
  BY <1>4, <1>6, <1>7

LEMMA WorkingIsVerified ==
  ASSUME EvidenceInv, Working(cp)
  PROVE  /\ ReceiptsProve(PagesOf(receipts, cp.gen), cp, FALSE)
         /\ RecordsBind(PagesOf(receipts, cp.gen))
  BY DEF EvidenceInv, WriterMeetsVerifier, Verified, Working

LEMMA WorkingMeets ==
  ASSUME Working(cp'), ReceiptsProve(PagesOf(receipts', cp'.gen), cp', FALSE),
         \A i \in (UNION {r.rows : r \in PagesOf(receipts', cp'.gen)}) \cap Target :
           records'[i.key].payload = i.payload
  PROVE  WriterMeetsVerifier'
  BY DEF WriterMeetsVerifier, Verified, RecordsBind, Working

LEMMA CompleteMeets ==
  ASSUME cp' \in Checkpoint, cp'.status = "COMPLETE", cp'.total # 0,
         ReceiptsProve(Evidence', cp', TRUE), Evidence' \in SUBSET Receipt
  PROVE  WriterMeetsVerifier'
<1> DEFINE d == cp'
           rs == Evidence'
<1>1. /\ d.page >= 2 /\ d.saved <= d.fetched
      /\ \/ d.reason = "TOTAL_REACHED" /\ d.total > 0 /\ d.fetched = d.total
         \/ d.reason = "EMPTY_PAGE" /\ d.total < 0
         \/ d.reason = "SHORT_PAGE_UNKNOWN_TOTAL" /\ d.total < 0 /\ d.fetched > 0
  <2>1. d \in Checkpoint /\ rs \in SUBSET Receipt /\ ReceiptsProve(rs, d, TRUE) /\ d.total # 0
    OBVIOUS
  <2> HIDE DEF d, rs
  <2>2. QED
    BY <2>1, ProvenIsComplete
<1>2. QED
  BY <1>1 DEF WriterMeetsVerifier, VerifiedCompact

LEMMA StoresMeet ==
  ASSUME EvidenceInv, NEW p \in Procs, Step(p), Stores(p)
  PROVE  WriterMeetsVerifier'
<1> DEFINE all == receipts \cup {NewReceipt(p)}
           mine == PagesOf(all, cp.gen)
<1>1. Typed /\ IsFiniteSet(receipts) /\ Proper(p) /\ Typed' /\ Totals'
  BY StepTyped, TotalsStep DEF EvidenceInv, ChainInv, Stores
<1>2. com[p].gen = cp.gen /\ cp'.gen = cp.gen /\ Reaches(p, cp')
  BY StoresWrite
<1>3. PICK d : d = cp'
  OBVIOUS
<1>4. ReceiptsProve(mine, d, ScanEnds(p))
  BY <1>1, <1>2, <1>3, ProofExtends
<1>5. CASE ~ScanEnds(p)
  <2>1. receipts' = all /\ cp'.status = "RUNNING"
    BY <1>5, StoresWrite
  <2>2. ScanEnds(p) = FALSE
    BY <1>5 DEF ScanEnds
  <2>3. ReceiptsProve(PagesOf(receipts', cp'.gen), cp', FALSE)
    BY <1>2, <1>3, <1>4, <2>1, <2>2
  <2>4. records' = Preserved(resp[p].rows)
    BY <1>5 DEF Stores, CommitPage
  <2>5. RecordsBind(PagesOf(receipts, com[p].gen))
    BY <1>2, WorkingIsVerified DEF Stores
  <2>6. \A i \in (UNION {r.rows : r \in mine}) \cap Target : records'[i.key].payload = i.payload
    BY <1>1, <1>2, <2>4, <2>5, PreservedBinds
  <2>7. QED
    BY <1>2, <2>1, <2>3, <2>6, WorkingMeets DEF Working
<1>6. CASE ScanEnds(p)
  <2>1. ScanEnds(p) = TRUE
    BY <1>6 DEF ScanEnds
  <2>2. mine # {}
    <3>1. NewReceipt(p).gen = cp.gen
      BY <1>2 DEF NewReceipt
    <3>2. NewReceipt(p) \in mine
      BY <3>1 DEF PagesOf
    <3>3. QED
      BY <3>2
  <2>3. Evidence' = mine
    BY <1>2, <1>6, <2>2, StoresWrite DEF Evidence, NoMarker
  <2>4. cp' \in Checkpoint /\ cp'.total # 0 /\ cp'.status = "COMPLETE"
    BY <1>1, <1>6, StoresWrite DEF Typed, TypeOK, Totals
  <2>5. mine \in SUBSET Receipt
    BY <1>1, PageWritesTyped DEF Typed, TypeOK, PagesOf, Proper
  <2>6. QED
    BY <1>3, <1>4, <2>1, <2>3, <2>4, <2>5, CompleteMeets
<1>7. QED
  BY <1>5, <1>6

LEMMA MeetsStep ==
  ASSUME EvidenceInv, NEW p \in Procs, Step(p)
  PROVE  WriterMeetsVerifier'
<1>1. /\ Typed /\ Typed' /\ Totals' /\ WriterMeetsVerifier /\ cp \in Checkpoint
      /\ receipts \in SUBSET Receipt /\ cp.total # 0
  BY StepTyped, TotalsStep DEF EvidenceInv, ChainInv, Typed, TypeOK, Totals
<1>2. CASE UNCHANGED <<cp, receipts, records>>
  BY <1>1, <1>2 DEF WriterMeetsVerifier, Verified, RecordsBind, Evidence
<1>3. CASE Compacts
  <2>1. Evidence = PagesOf(receipts, cp.gen) /\ ReceiptsProve(Evidence, cp, TRUE)
    BY <1>1, <1>3 DEF Compacts, Evidence, WriterMeetsVerifier
  <2>2. PagesOf(receipts, cp.gen) # {} /\ PagesOf(receipts, cp.gen) \in SUBSET Receipt
    <3>1. PagesOf(receipts, cp.gen) \in SUBSET Receipt
      BY <1>1 DEF PagesOf
    <3>2. QED
      BY <1>1, <2>1, <3>1, ProvenIsComplete
  <2>3. /\ Counters(cp', cp) /\ cp'.page = cp.page /\ cp'.reason = cp.reason
        /\ cp'.status = "COMPLETE" /\ cp'.marker = PagesOf(receipts, cp.gen)
    BY <1>1, <1>3 DEF Compacts, Counters, Checkpoint
  <2>4. Evidence' = PagesOf(receipts, cp.gen)
    BY <2>2, <2>3 DEF Evidence, NoMarker
  <2>5. PICK d : d = cp'
    OBVIOUS
  <2>6. ReceiptsProve(PagesOf(receipts, cp.gen), d, TRUE)
    BY <2>1, <2>3, <2>5, SameProof
  <2>7. QED
    BY <1>1, <2>2, <2>3, <2>4, <2>5, <2>6, CompleteMeets DEF Typed, TypeOK, Totals
<1>4. CASE Begins(p)
  <2>1. PICK d : d = cp'
    OBVIOUS
  <2>2. d = com[p] /\ PagesOf(receipts', d.gen) = {}
    BY <1>4, <2>1 DEF Begins, Fresh, PagesOf
  <2>3. Unended(d) /\ d.page = 1 /\ d.fetched = 0 /\ d.saved = 0 /\ d.total = -1
    BY <1>4, <2>2 DEF Begins, Fresh
  <2>4. ReceiptsProve(PagesOf(receipts', d.gen), d, FALSE)
    BY <2>2, <2>3, NothingProves
  <2>5. Working(cp') /\ PagesOf(receipts', cp'.gen) = {}
    BY <1>4, <2>1, <2>2 DEF Begins
  <2>6. QED
    BY <2>1, <2>4, <2>5, WorkingMeets
<1>5. CASE Rewrites
  <2>1. PICK d : d = cp'
    OBVIOUS
  <2>2. /\ Counters(d, cp) /\ d.page = cp.page /\ d.reason = cp.reason /\ d.gen = cp.gen
        /\ Working(cp) /\ Working(cp') /\ UNCHANGED <<receipts, records>>
    BY <1>5, <2>1 DEF Rewrites, SameScan
  <2>3. /\ ReceiptsProve(PagesOf(receipts, cp.gen), cp, FALSE)
        /\ RecordsBind(PagesOf(receipts, cp.gen))
    BY <2>2, WorkingIsVerified
  <2>4. ReceiptsProve(PagesOf(receipts, cp.gen), d, FALSE)
    BY <2>2, <2>3, SameProof
  <2>5. \A i \in (UNION {r.rows : r \in PagesOf(receipts, cp.gen)}) \cap Target :
          records'[i.key].payload = i.payload
    BY <2>2, <2>3 DEF RecordsBind
  <2>6. QED
    BY <2>1, <2>2, <2>4, <2>5, WorkingMeets
<1>6. CASE Stores(p)
  BY <1>6, StoresMeet
<1>7. QED
  BY <1>2, <1>3, <1>4, <1>5, <1>6, Kinds


LEMMA InitEvidence == Init => EvidenceInv
<1>1. SUFFICES ASSUME Init
               PROVE  /\ Forward /\ Opening /\ Totals /\ Checked /\ FullSeen
                      /\ IsFiniteSet(receipts) /\ WriterMeetsVerifier
  BY InitChain DEF EvidenceInv
<1>2. /\ cp = NoCp /\ receipts = {}
      /\ \A p \in Procs : pc[p] = "idle" /\ obs[p] = NoCp /\ com[p] = NoCp
  BY <1>1 DEF Init
<1>3. Forward
  BY <1>2, NoCpFields DEF Forward, Tracks
<1>4. Opening
  BY <1>2 DEF Opening, Opened
<1>5. Totals
  <2>1. NoCp.total = -1
    BY DEF NoCp
  <2>2. QED
    BY <1>2, <2>1 DEF Totals
<1>6. Checked /\ FullSeen
  BY <1>2 DEF Checked, FullSeen
<1>7. IsFiniteSet(receipts)
  BY <1>2, FS_EmptySet
<1>8. WriterMeetsVerifier
  BY <1>2, NoCpFields DEF WriterMeetsVerifier
<1>9. QED
  BY <1>3, <1>4, <1>5, <1>6, <1>7, <1>8

LEMMA NextEvidence ==
  ASSUME Serial \/ Exclusive
  PROVE  EvidenceInv /\ [Next]_vars => EvidenceInv'
<1>1. SUFFICES ASSUME EvidenceInv, [Next]_vars PROVE EvidenceInv'
  OBVIOUS
<1>2. ChainInv'
  BY <1>1, NextChain DEF EvidenceInv
<1>3. CASE UNCHANGED vars
  <2>1. (Forward /\ Totals)'
    BY <1>1, <1>3 DEF EvidenceInv, vars, Forward, Totals
  <2>2. (Opening /\ Checked /\ FullSeen)'
    BY <1>1, <1>3 DEF EvidenceInv, vars, Opening, Checked, FullSeen
  <2>3. (IsFiniteSet(receipts) /\ WriterMeetsVerifier)'
    BY <1>1, <1>3 DEF EvidenceInv, vars, WriterMeetsVerifier, Verified, RecordsBind, Evidence
  <2>4. QED
    BY <1>2, <2>1, <2>2, <2>3 DEF EvidenceInv
<1>4. CASE Next
  <2>1. PICK p \in Procs : Step(p)
    BY <1>4 DEF Next, Step
  <2>2. /\ Forward' /\ Opening' /\ Totals' /\ Checked' /\ FullSeen'
        /\ IsFiniteSet(receipts)' /\ WriterMeetsVerifier'
    BY <1>1, <2>1, ForwardStep, OpeningStep, TotalsStep, CheckedStep, FullSeenStep,
       FiniteStep, MeetsStep
  <2>3. QED
    BY <1>2, <2>2 DEF EvidenceInv
<1>5. QED
  BY <1>1, <1>3, <1>4

(* What the page loop writes is what the verifier of a later process       *)
(* accepts, so a restart never throws away an honest partial scope.        *)
THEOREM WriterMeetsVerifierHolds ==
  ASSUME Serial \/ Exclusive
  PROVE  Spec => []WriterMeetsVerifier
<1>1. EvidenceInv => WriterMeetsVerifier
  BY DEF EvidenceInv
<1>2. Init => EvidenceInv
  BY InitEvidence
<1>3. EvidenceInv /\ [Next]_vars => EvidenceInv'
  BY NextEvidence
<1>4. QED
  BY <1>1, <1>2, <1>3, PTL DEF Spec

LEMMA CompleteProof ==
  ASSUME EvidenceInv
  PROVE  CompleteIsCovered
<1>1. SUFFICES ASSUME cp.status = "COMPLETE"
               PROVE  /\ {r.page : r \in Evidence} = 1..(cp.page - 1)
                      /\ cp.fetched = Cardinality(EvidenceItems)
                      /\ cp.total > 0 => cp.fetched = cp.total
  BY DEF CompleteIsCovered
<1>2. cp \in Checkpoint /\ receipts \in SUBSET Receipt /\ cp.total # 0
  BY DEF EvidenceInv, ChainInv, Typed, TypeOK, Totals
<1>3. Evidence \in SUBSET Receipt
  BY <1>2 DEF Evidence, PagesOf, Checkpoint
<1>4. ReceiptsProve(Evidence, cp, TRUE)
  BY <1>1 DEF EvidenceInv, WriterMeetsVerifier
<1>5. /\ {r.page : r \in Evidence} = 1..(cp.page - 1)
      /\ cp.fetched = Cardinality(EvidenceItems)
  BY <1>4 DEF ReceiptsProve, EvidenceItems
<1>6. cp.total > 0 => cp.fetched = cp.total
  BY <1>2, <1>3, <1>4, ProvenIsComplete
<1>7. QED
  BY <1>5, <1>6

(* A COMPLETE scope was covered by one generation: every page from the     *)
(* first to the last, and as many rows as the source announced.            *)
THEOREM CompleteIsCoveredHolds ==
  ASSUME Serial \/ Exclusive
  PROVE  Spec => []CompleteIsCovered
<1>1. EvidenceInv => CompleteIsCovered
  BY CompleteProof
<1>2. Init => EvidenceInv
  BY InitEvidence
<1>3. EvidenceInv /\ [Next]_vars => EvidenceInv'
  BY NextEvidence
<1>4. QED
  BY <1>1, <1>2, <1>3, PTL DEF Spec

-----------------------------------------------------------------------------
(* Deactivation.                                                           *)

(* The rows behind the checkpoint an accepted page leaves.                 *)
LEMMA StoredEvidence ==
  ASSUME EvidenceInv, NEW p \in Procs, Stores(p)
  PROVE  EvidenceItems' = ItemsOf(receipts \cup {NewReceipt(p)}, com[p].gen)
<1> DEFINE all == receipts \cup {NewReceipt(p)}
           mine == PagesOf(all, com[p].gen)
<1>1. com[p].gen = cp.gen /\ cp'.gen = cp.gen
  BY StoresWrite
<1>2. mine # {}
  <2>1. NewReceipt(p).gen = com[p].gen
    BY DEF NewReceipt
  <2>2. NewReceipt(p) \in mine
    BY <2>1 DEF PagesOf
  <2>3. QED
    BY <2>2
<1>3. \/ cp'.marker = NoMarker /\ receipts' = all
      \/ cp'.marker = mine
  BY <1>1, StoresWrite
<1>4. Evidence' = mine
  BY <1>1, <1>2, <1>3 DEF Evidence, NoMarker
<1>5. QED
  BY <1>4 DEF EvidenceItems, ItemsOf

LEMMA DeactivationStep ==
  ASSUME EvidenceInv, CompleteIsCovered', NEW p \in Procs, Step(p),
         NEW k \in Keys, records[k].active, ~records'[k].active
  PROVE  /\ cp'.status = "COMPLETE" /\ cp'.fetched > 0
         /\ {r.page : r \in Evidence'} = 1..(cp'.page - 1)
         /\ Cardinality(EvidenceItems') = cp'.fetched
         /\ ~\E i \in EvidenceItems' \cap Target : i.key = k
<1> DEFINE items == ItemsOf(receipts \cup {NewReceipt(p)}, com[p].gen)
           kept == Preserved(resp[p].rows)
<1>1. Stores(p)
  BY Kinds DEF Compacts, Begins, Rewrites
<1>2. kept[k].active
  <2>1. records \in [Keys -> Record]
    BY DEF EvidenceInv, ChainInv, Typed, TypeOK
  <2>2. QED
    BY <2>1 DEF Preserved
<1>3. FinishScope(p) /\ ScanEnds(p)
  <2>1. CommitPage(p) => records' = kept
    BY DEF CommitPage
  <2>2. QED
    BY <1>1, <1>2, <2>1 DEF Stores
<1>4. records' = Deactivated(kept, items, Fetched(p))
  BY <1>3 DEF FinishScope
<1>5. Fetched(p) # 0 /\ ~\E i \in items \cap Target : i.key = k
  BY <1>2, <1>4 DEF Deactivated
<1>6. cp'.status = "COMPLETE" /\ cp'.fetched = Fetched(p)
  BY <1>1, <1>3, StoresWrite DEF Reaches
<1>7. cp'.fetched > 0
  <2>1. Fetched(p) \in Nat
    BY <1>1, PageWritesTyped DEF Stores, Proper, EvidenceInv, ChainInv
  <2>2. QED
    BY <1>5, <1>6, <2>1
<1>8. EvidenceItems' = items
  BY <1>1, StoredEvidence
<1>9. QED
  BY <1>5, <1>6, <1>7, <1>8 DEF CompleteIsCovered

(* A record becomes inactive only in the step that completes a scan which  *)
(* covered the whole scope, saw at least one row and did not store that    *)
(* identity.                                                               *)
THEOREM DeactivationIsProvenHolds ==
  ASSUME Serial \/ Exclusive
  PROVE  Spec => DeactivationIsProven
<1> DEFINE Proven ==
             \A k \in Keys : records[k].active /\ ~records'[k].active =>
               /\ cp'.status = "COMPLETE" /\ cp'.fetched > 0
               /\ {r.page : r \in Evidence'} = 1..(cp'.page - 1)
               /\ Cardinality(EvidenceItems') = cp'.fetched
               /\ ~\E i \in EvidenceItems' \cap Target : i.key = k
<1>1. EvidenceInv => CompleteIsCovered
  BY CompleteProof
<1>2. EvidenceInv /\ CompleteIsCovered' /\ [Next]_vars => [Proven]_vars
  <2>1. SUFFICES ASSUME EvidenceInv, CompleteIsCovered', Next PROVE Proven
    OBVIOUS
  <2>2. PICK p \in Procs : Step(p)
    BY <2>1 DEF Next, Step
  <2>3. QED
    BY <2>1, <2>2, DeactivationStep
<1>3. Init => EvidenceInv
  BY InitEvidence
<1>4. EvidenceInv /\ [Next]_vars => EvidenceInv'
  BY NextEvidence
<1>5. QED
  BY <1>1, <1>2, <1>3, <1>4, PTL DEF Spec, DeactivationIsProven

-----------------------------------------------------------------------------
(* The collector implements ScopeIngestion.                                *)

Phase(status) ==
  IF status = "ABSENT" THEN "none" ELSE IF status = "COMPLETE" THEN "done" ELSE "open"

LEMMA WorkingIsOpen ==
  ASSUME NEW c, Working(c)
  PROVE  Phase(c.status) = "open"
  BY DEF Working, Phase

(* A page that adds nothing ends the scope.                                *)
LEMMA EmptyPageEnds ==
  ASSUME Typed, NEW p \in Procs, Proper(p), resp[p].rows = {}
  PROVE  ScanEnds(p)
<1> DEFINE total == PageTotal(com[p], resp[p])
<1>1. total > 0 => Fetched(p) = total
  BY PageFits
<1>2. Cardinality(resp[p].rows) = 0
  BY FS_EmptySet
<1>3. CASE total > 0
  BY <1>1, <1>3 DEF ScanEnds, ReasonOf, DoneReason, Fetched
<1>4. CASE ~(total > 0)
  BY <1>2, <1>4 DEF ScanEnds, ReasonOf, DoneReason
<1>5. QED
  BY <1>3, <1>4

(* A page gathers.                                                         *)
LEMMA StoresGather ==
  ASSUME EvidenceInv, CompleteIsCovered', NEW p \in Procs, Stores(p), EvidenceItems' \in SUBSET Row
  PROVE  /\ Phase(cp.status) = "open" /\ EvidenceItems \subseteq EvidenceItems'
         /\ cp'.total >= cp.total
         /\ cp'.total > 0 => Cardinality(EvidenceItems') <= cp'.total
         /\ \/ Phase(cp'.status) = "open" /\ EvidenceItems' # EvidenceItems
            \/ Phase(cp'.status) = "done"
                /\ (cp'.total > 0 => Cardinality(EvidenceItems') = cp'.total)
<1> DEFINE old == ItemsOf(receipts, cp.gen)
           rows == resp[p].rows
<1>1. /\ Typed /\ Proper(p) /\ Working(cp) /\ com[p] \in Checkpoint /\ resp[p] \in Response
  BY DEF EvidenceInv, ChainInv, Typed, TypeOK, Stores
<1>2. /\ com[p].gen = cp.gen /\ Counters(com[p], cp) /\ cp.marker = NoMarker
  BY DEF Stores, SameScan
<1>3. EvidenceItems = old
  BY <1>2 DEF EvidenceItems, Evidence, ItemsOf
<1>4. EvidenceItems' = old \cup rows /\ old \cap rows = {}
  <2>1. EvidenceItems' = ItemsOf(receipts \cup {NewReceipt(p)}, cp.gen)
    BY <1>2, StoredEvidence
  <2>2. NewReceipt(p).gen = cp.gen /\ NewReceipt(p).rows = rows
    BY <1>2 DEF NewReceipt
  <2>3. PagesOf(receipts \cup {NewReceipt(p)}, cp.gen) = PagesOf(receipts, cp.gen) \cup {NewReceipt(p)}
    BY <2>2 DEF PagesOf
  <2>4. old \cap rows = {}
    BY <1>1, <1>2 DEF Proper, KeyConflict, KeysOf
  <2>5. QED
    BY <2>1, <2>2, <2>3, <2>4 DEF ItemsOf
<1>5. cp'.total = PageTotal(com[p], resp[p]) /\ cp'.fetched = Fetched(p)
  BY StoresWrite DEF Reaches
<1>6. cp'.total >= cp.total
  BY <1>1, <1>2, <1>5, PageTotalType DEF Counters
<1>7. Cardinality(EvidenceItems') = Fetched(p)
  <2>1. /\ pc[p] = "pagew" /\ ~KeyConflict(p)
        /\ ReceiptsProve(PagesOf(receipts, com[p].gen), com[p], FALSE)
    BY <1>1 DEF Proper
  <2>2. /\ {r.page : r \in PagesOf(receipts, com[p].gen)} = 1..(com[p].page - 1)
        /\ com[p].fetched = Cardinality(ItemsOf(receipts, com[p].gen))
    BY <2>1 DEF ReceiptsProve, ItemsOf
  <2>3. Fetched(p) = Cardinality(ItemsOf(receipts \cup {NewReceipt(p)}, com[p].gen))
    BY <1>1, <2>1, <2>2, ChainExtends
  <2>4. QED
    BY <2>3, StoredEvidence
<1>8. cp'.total > 0 => Cardinality(EvidenceItems') <= cp'.total
  BY <1>1, <1>5, <1>7, PageFits
<1>9. CASE ~ScanEnds(p)
  <2>1. cp'.status = "RUNNING"
    BY <1>9, StoresWrite
  <2>2. rows # {}
    BY <1>1, <1>9, EmptyPageEnds
  <2>3. EvidenceItems' # EvidenceItems
    BY <1>3, <1>4, <2>2
  <2>4. Phase(cp'.status) = "open"
    BY <2>1 DEF Phase
  <2>5. QED
    BY <1>1, <1>3, <1>4, <1>6, <1>8, <2>3, <2>4, WorkingIsOpen
<1>10. CASE ScanEnds(p)
  <2>1. cp'.status = "COMPLETE"
    BY <1>10, StoresWrite
  <2>2. cp'.total > 0 => Cardinality(EvidenceItems') = cp'.total
    BY <2>1 DEF CompleteIsCovered
  <2>3. Phase(cp'.status) = "done"
    BY <2>1 DEF Phase
  <2>4. QED
    BY <1>1, <1>3, <1>4, <1>6, <1>8, <2>2, <2>3, WorkingIsOpen
<1>11. QED
  BY <1>9, <1>10

LEMMA EvidenceTyped ==
  ASSUME Typed
  PROVE  EvidenceItems \in SUBSET Row
<1>1. Evidence \in SUBSET Receipt
  BY DEF Typed, TypeOK, Evidence, PagesOf, Checkpoint
<1>2. QED
  BY <1>1, ItemsAreRows DEF EvidenceItems

(* The instance counts as the collector does.                              *)
LEMMA SameCardinality ==
  ASSUME NEW S
  PROVE  Ingestion!Cardinality(S) = Cardinality(S)
  BY DEF Cardinality, Ingestion!Cardinality

LEMMA StepIngests ==
  ASSUME EvidenceInv, CompleteIsCovered', EvidenceItems' \in SUBSET Row, NEW p \in Procs, Step(p)
  PROVE  [Ingestion!Next]_(Ingestion!ivars)
<1>1. cp \in Checkpoint
  BY DEF EvidenceInv, ChainInv, Typed, TypeOK
<1>2. ASSUME Phase(cp'.status) = Phase(cp.status), EvidenceItems' = EvidenceItems, cp'.total = cp.total
      PROVE  UNCHANGED Ingestion!ivars
  BY <1>2, Zenon DEF Ingestion!ivars, Phase
<1>3. CASE UNCHANGED <<cp, receipts, records>>
  BY <1>2, <1>3 DEF EvidenceItems, Evidence
<1>4. CASE Compacts
  <2>1. /\ cp'.status = cp.status /\ cp'.total = cp.total
        /\ cp'.marker = PagesOf(receipts, cp.gen) /\ cp'.gen = cp.gen
        /\ receipts' = receipts \ PagesOf(receipts, cp.gen) /\ cp.marker = NoMarker
    BY <1>1, <1>4 DEF Compacts, Checkpoint
  <2>2. Evidence' = Evidence
    BY <2>1 DEF Evidence, PagesOf, NoMarker
  <2>3. QED
    BY <1>2, <2>1, <2>2 DEF EvidenceItems
<1>5. CASE Begins(p)
  <2>1. cp' = com[p] /\ com[p].marker = NoMarker /\ com[p].total = -1 /\ Working(com[p])
    BY <1>5 DEF Begins, Fresh
  <2>2. PagesOf(receipts', cp'.gen) = {}
    BY <1>5 DEF Begins, Fresh, PagesOf
  <2>3. EvidenceItems' = {}
    BY <2>1, <2>2 DEF EvidenceItems, Evidence
  <2>4. Phase(cp'.status) = "open"
    BY <2>1, WorkingIsOpen
  <2>5. Ingestion!Open
    BY <2>1, <2>3, <2>4 DEF Ingestion!Open, Phase
  <2>6. QED
    BY <2>5 DEF Ingestion!Next
<1>6. CASE Rewrites
  <2>1. /\ cp'.gen = cp.gen /\ cp'.marker = cp.marker /\ cp'.total = cp.total
        /\ receipts' = receipts /\ Working(cp) /\ Working(cp')
    BY <1>6 DEF Rewrites, SameScan, Counters
  <2>2. Phase(cp.status) = "open" /\ Phase(cp'.status) = "open"
    BY <2>1, WorkingIsOpen
  <2>3. EvidenceItems' = EvidenceItems
    BY <2>1 DEF EvidenceItems, Evidence
  <2>4. QED
    BY <1>2, <2>1, <2>2, <2>3
<1>7. CASE Stores(p)
  <2>1. /\ Phase(cp.status) = "open" /\ EvidenceItems \subseteq EvidenceItems'
        /\ cp'.total >= cp.total
        /\ cp'.total > 0 => Cardinality(EvidenceItems') <= cp'.total
        /\ \/ Phase(cp'.status) = "open" /\ EvidenceItems' # EvidenceItems
           \/ Phase(cp'.status) = "done"
               /\ (cp'.total > 0 => Cardinality(EvidenceItems') = cp'.total)
    BY <1>7, StoresGather
  <2>2. Ingestion!Gather
    BY <2>1, SameCardinality DEF Ingestion!Gather, Phase
  <2>3. QED
    BY <2>2 DEF Ingestion!Next
<1>8. QED
  BY <1>3, <1>4, <1>5, <1>6, <1>7, Kinds

(* The collector keeps what ScopeIngestion promises of one scope: rows are *)
(* only gathered, abandoned as a whole, and declared done only with all    *)
(* the source announced.                                                   *)
THEOREM RefinesIngestionHolds ==
  ASSUME Serial \/ Exclusive
  PROVE  Spec => RefinesIngestion
<1>1. EvidenceInv => CompleteIsCovered /\ EvidenceItems \in SUBSET Row
  BY CompleteProof, EvidenceTyped DEF EvidenceInv, ChainInv
<1>2. Init => EvidenceInv
  BY InitEvidence
<1>3. EvidenceInv /\ [Next]_vars => EvidenceInv'
  BY NextEvidence
<1>4. Init => Ingestion!Init
  <2>1. SUFFICES ASSUME Init PROVE Ingestion!Init
    OBVIOUS
  <2>2. cp = NoCp /\ receipts = {}
    BY <2>1 DEF Init
  <2>3. NoCp.total = -1
    BY DEF NoCp
  <2>4. EvidenceItems = {}
    BY <2>2, NoCpFields DEF EvidenceItems, Evidence, PagesOf
  <2>5. QED
    BY <2>2, <2>3, <2>4, NoCpFields DEF Ingestion!Init
<1>5. /\ EvidenceInv /\ CompleteIsCovered' /\ (EvidenceItems \in SUBSET Row)'
      /\ [Next]_vars
      => [Ingestion!Next]_(Ingestion!ivars)
  <2>1. SUFFICES ASSUME EvidenceInv, CompleteIsCovered', (EvidenceItems \in SUBSET Row)', [Next]_vars
                 PROVE  [Ingestion!Next]_(Ingestion!ivars)
    OBVIOUS
  <2>2. CASE UNCHANGED vars
    <3>1. EvidenceItems' = EvidenceItems /\ cp' = cp
      BY <2>2 DEF vars, EvidenceItems, Evidence
    <3>2. QED
      BY <3>1 DEF Ingestion!ivars
  <2>3. CASE Next
    <3>1. PICK p \in Procs : Step(p)
      BY <2>3 DEF Next, Step
    <3>2. QED
      BY <2>1, <3>1, StepIngests
  <2>4. QED
    BY <2>1, <2>2, <2>3
<1>6. QED
  BY <1>1, <1>2, <1>3, <1>4, <1>5, PTL DEF Spec, RefinesIngestion, Ingestion!Spec


=============================================================================
