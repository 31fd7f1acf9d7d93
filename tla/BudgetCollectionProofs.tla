----------------------- MODULE BudgetCollectionProofs -----------------------
(***************************************************************************)
(* Proofs about BudgetCollection under the budget lease, for any number of *)
(* processes, rows, page sizes, generations and disturbances.              *)
(***************************************************************************)
EXTENDS BudgetCollection, FiniteSetTheorems, TLAPS

-----------------------------------------------------------------------------
(* The inductive invariant.                                                *)

(* The lease: nobody else is inside the collector.                         *)
Alone == \A p, q \in Procs : p # q => pc[p] = "idle" \/ pc[q] = "idle"

Begun(c) == c.gen \in 1..MaxGens /\ c.page >= 1 /\ c.status # "ABSENT"
Unended(c) == c.reason = ""
Running(c) == c.status = "RUNNING" /\ c.err = "" /\ Unended(c)
Blank(c) == c.page = 1 /\ c.fetched = 0 /\ c.total = -1
HasFull(rs) == \E r \in rs : Cardinality(r.rows) = Size
Overlaps(p) == KeysOf(resp[p].rows) \cap KeysOf(ItemsOf(com[p].gen)) # {}

Drawn == cp.gen <= minted /\ \A r \in receipts : r.gen <= minted

(* The checkpoint row, whoever reads it next.                              *)
Sound ==
  /\ cp.status # "ABSENT" => Begun(cp)
  /\ cp.status = "COMPLETE" => cp.err = ""
  /\ WriterMeetsVerifier

(* Before the claim a process knows the checkpoint it looked up, and the   *)
(* one it wants to claim is proven or about to be blank; a closed scope is *)
(* claimed from page one of a new generation only.                         *)
Claiming(p) ==
  /\ pc[p] \in {"verify", "clear", "start"} => obs[p] = cp
  /\ pc[p] = "verify" =>
       /\ cp.status # "ABSENT" /\ cp.err # Exhausted
       /\ kind = "history" => cp.status # "COMPLETE"
  /\ pc[p] \in {"clear", "start"} =>
       /\ Begun(com[p]) /\ Running(com[p]) /\ com[p].gen <= minted
       /\ Closed(cp) => Afresh(com[p], cp)
  /\ pc[p] = "clear" => Blank(com[p])
  /\ pc[p] = "start" => Verified(com[p])

(* In the page loop the stored checkpoint is the one the process believes  *)
(* in, and the verifier would accept it.                                   *)
Holding(p) ==
  /\ pc[p] \in {"opened", "loop", "page", "pagew", "failing", "failw"} =>
       cp = com[p] /\ Begun(cp) /\ Running(cp) /\ Verified(cp)
  /\ pc[p] \in {"loop", "page", "pagew"} => (full[p] <=> HasFull(PagesOf(com[p].gen)))

(* What is known of the page in hand.                                      *)
Checking(p) ==
  /\ pc[p] \in {"page", "pagew"} /\ problem[p] = "" => SourceProblem(com[p], resp[p]) = ""
  /\ pc[p] = "page" => problem[p] \notin {Overlap, Exhausted}
  /\ pc[p] = "pagew" =>
       IF Overlaps(p) THEN problem[p] = RepeatProblem(com[p])
       ELSE problem[p] \notin {Overlap, Exhausted}

(* Rows are removed after a proven complete snapshot only.                 *)
Removing(p) ==
  pc[p] = "reconcile" => cp.status = "COMPLETE" /\ kind = "current" /\ Verified(cp)

Local(p) == Claiming(p) /\ Holding(p) /\ Checking(p) /\ Removing(p)

Stored == TypeOK /\ Drawn /\ Sound /\ IsFiniteSet(receipts)
BudgetInv == Stored /\ Alone /\ \A p \in Procs : Local(p)

-----------------------------------------------------------------------------
(* The verifier.                                                           *)

LEMMA RowsFinite ==
  ASSUME NEW S \in SUBSET Row
  PROVE  IsFiniteSet(S) /\ Cardinality(S) \in Nat
  BY DataAssumption, FS_Subset, FS_CardinalityType

LEMMA ItemsAreRows ==
  ASSUME NEW rs \in SUBSET Receipt
  PROVE  UNION {r.rows : r \in rs} \in SUBSET Row
  BY DEF Receipt

(* As many keys as rows: no two rows of the page share a key.              *)
LEMMA KeysDistinct ==
  ASSUME NEW rows \in SUBSET Row, Cardinality(KeysOf(rows)) = Cardinality(rows),
         NEW i \in rows, NEW j \in rows, i.key = j.key
  PROVE  i = j
<1> DEFINE f == [r \in rows |-> r.key]
<1>1. f \in Surjection(rows, KeysOf(rows))
  BY DEF Surjection, KeysOf
<1>2. f \in Injection(rows, KeysOf(rows))
  BY <1>1, RowsFinite, FS_SurjSameCardinalityImpliesInj
<1>3. QED
  BY <1>2 DEF Injection, IsInjective

(* A checkpoint at page one has no receipts and counts nothing.            *)
LEMMA BlankIsProven ==
  ASSUME NEW c, NEW rs, rs = {}, Blank(c), Running(c)
  PROVE  ReceiptsProve(rs, c)
<1>1. UNION {r.rows : r \in rs} = {} /\ {r.page : r \in rs} = {}
  OBVIOUS
<1>2. c.page - 1 = 0 /\ 1..(c.page - 1) = {}
  <2>1. c.page - 1 = 0
    BY DEF Blank
  <2>2. 1..0 = {}
    OBVIOUS
  <2>3. QED
    BY <2>1, <2>2
<1>3. Cardinality({}) = 0 /\ Cardinality(rs) = 0 /\ c.fetched = 0 /\ c.total = -1
  BY FS_EmptySet DEF Blank
<1>4. c.reason = "" /\ c.status # "COMPLETE"
  BY DEF Running, Unended
<1>5. QED
  BY <1>1, <1>2, <1>3, <1>4 DEF ReceiptsProve

LEMMA FirstHasNone ==
  ASSUME NEW c, NEW rs, ReceiptsProve(rs, c), c.page = 1
  PROVE  rs = {}
<1>1. {r.page : r \in rs} = 1..(c.page - 1)
  BY DEF ReceiptsProve
<1>2. 1..(c.page - 1) = {}
  OBVIOUS
<1>3. QED
  BY <1>1, <1>2

(* Only the counters, the reason and completeness matter.                  *)
Alike(c, d) ==
  /\ c.page = d.page /\ c.fetched = d.fetched /\ c.total = d.total /\ c.reason = d.reason
  /\ c.status = "COMPLETE" <=> d.status = "COMPLETE"
LEMMA SameProof ==
  ASSUME NEW c, NEW d, NEW rs, Alike(c, d), ReceiptsProve(rs, d)
  PROVE  ReceiptsProve(rs, c)
  BY DEF ReceiptsProve, Alike

LEMMA ProvenIsCovered ==
  ASSUME NEW c \in Checkpoint, NEW rs \in SUBSET Receipt, ReceiptsProve(rs, c),
         c.status = "COMPLETE"
  PROVE  /\ {r.page : r \in rs} = 1..(c.page - 1)
         /\ Cardinality(UNION {r.rows : r \in rs}) = c.fetched
         /\ c.total > 0 => c.fetched = c.total
<1> DEFINE items == UNION {r.rows : r \in rs}
           upTo(n) == UNION {r.rows : r \in {s \in rs : s.page <= n}}
           full_(n) == \E r \in rs : r.page < n /\ Cardinality(r.rows) = Size
<1>1. c.page \in Nat /\ c.fetched \in Nat /\ c.total \in Int
  BY DEF Checkpoint
<1>2. rs # {} /\ {r.page : r \in rs} = 1..(c.page - 1) /\ c.reason # ""
      /\ c.fetched = Cardinality(items)
  BY DEF ReceiptsProve
<1>3. c.page - 1 >= 1
  <2>1. PICK r \in rs : r.page \in 1..(c.page - 1)
    BY <1>2
  <2>2. QED
    BY <1>1, <2>1
<1>4. PICK r \in rs : r.page = c.page - 1
  <2>1. c.page - 1 \in 1..(c.page - 1)
    BY <1>1, <1>3
  <2>2. QED
    BY <1>2, <2>1
<1>5. {s \in rs : s.page <= r.page} = rs
  <2>1. \A s \in rs : s.page \in 1..(c.page - 1)
    BY <1>2
  <2>2. \A s \in rs : s.page <= r.page
    BY <1>1, <1>4, <2>1
  <2>3. QED
    BY <2>2
<1>6. /\ r.total = c.total /\ r.reason = c.reason
      /\ r.reason = DoneReason(r.total, Cardinality(upTo(r.page)), Cardinality(r.rows),
                               full_(r.page))
  BY <1>4 DEF ReceiptsProve
<1>7. c.reason = DoneReason(c.total, c.fetched, Cardinality(r.rows), full_(r.page))
  BY <1>2, <1>5, <1>6
<1>8. c.total > 0 => c.fetched = c.total
  <2> HIDE DEF full_
  <2>1. QED
    BY <1>2, <1>7 DEF DoneReason
<1>9. QED
  BY <1>2, <1>8

-----------------------------------------------------------------------------
(* A page that passed the tests, and the checkpoint it leads to.           *)
Proper(p) ==
  /\ com[p] \in Checkpoint /\ Begun(com[p]) /\ Unended(com[p])
  /\ resp[p].rows \in SUBSET Row /\ resp[p].total \in Nat
  /\ ~KeyConflict(p) /\ SourceProblem(com[p], resp[p]) = ""
  /\ ReceiptsProve(PagesOf(com[p].gen), com[p])
  /\ full[p] = HasFull(PagesOf(com[p].gen))

Reaches(p, c) ==
  /\ c.page = com[p].page + 1 /\ c.total = PageTotal(com[p], resp[p])
  /\ c.fetched = Fetched(p) /\ c.reason = ReasonOf(p)
  /\ c.status = "COMPLETE" <=> c.reason # ""

LEMMA PageFits ==
  ASSUME NEW p \in Procs, Proper(p)
  PROVE  /\ Cardinality(resp[p].rows) <= Size
         /\ Cardinality(KeysOf(resp[p].rows)) = Cardinality(resp[p].rows)
         /\ com[p].total > 0 => PageTotal(com[p], resp[p]) = com[p].total
<1>1. /\ resp[p].rows \in SUBSET Row /\ com[p].total \in Int /\ com[p].fetched \in Nat
      /\ resp[p].total \in Nat
  BY DEF Proper, Checkpoint
<1>2. Cardinality(resp[p].rows) \in Nat
  BY <1>1, RowsFinite
<1>3. SourceProblem(com[p], resp[p]) = ""
  BY DEF Proper
<1>4. ~(Cardinality(resp[p].rows) > Size)
  BY <1>3 DEF SourceProblem
<1>5. Cardinality(KeysOf(resp[p].rows)) = Cardinality(resp[p].rows)
  BY <1>3 DEF SourceProblem
<1>6. ~(resp[p].total > 0 /\ com[p].total > 0 /\ com[p].total # resp[p].total)
  BY <1>3 DEF SourceProblem
<1>7. QED
  BY <1>1, <1>2, <1>4, <1>5, <1>6, BoundsAssumption DEF PageTotal

LEMMA ProofExtends ==
  ASSUME IsFiniteSet(receipts), receipts \subseteq Receipt,
         NEW p \in Procs, Proper(p), NEW c, Reaches(p, c)
  PROVE  ReceiptsProve(PagesOf(com[p].gen) \cup {NewReceipt(p)}, c)
<1> DEFINE rows == resp[p].rows
           new == NewReceipt(p)
           old == PagesOf(com[p].gen)
           all == old \cup {new}
           items == UNION {r.rows : r \in old}
           total == PageTotal(com[p], resp[p])
           upTo(rs, n) == UNION {r.rows : r \in {s \in rs : s.page <= n}}
           full_(rs, n) == \E r \in rs : r.page < n /\ Cardinality(r.rows) = Size
<1>1. /\ com[p].page \in Nat \ {0} /\ com[p].fetched \in Nat /\ com[p].total \in Int
      /\ rows \in SUBSET Row /\ resp[p].total \in Nat /\ total \in Int
  <2>1. com[p].page \in Nat /\ com[p].fetched \in Nat /\ com[p].total \in Int
    BY DEF Proper, Checkpoint
  <2>2. com[p].page >= 1 /\ rows \in SUBSET Row /\ resp[p].total \in Nat
    BY DEF Proper, Begun
  <2>3. total \in Int
    BY <2>1, <2>2 DEF PageTotal
  <2>4. QED
    BY <2>1, <2>2, <2>3
<1>2. /\ c.page = com[p].page + 1 /\ c.total = total /\ c.fetched = Fetched(p)
  BY DEF Reaches
<1>3. /\ new.page = com[p].page /\ new.rows = rows /\ new.total = total
      /\ new.reason = c.reason
  BY DEF NewReceipt, Reaches
<1>4. old \in SUBSET Receipt /\ IsFiniteSet(old)
  BY FS_Subset DEF PagesOf
<1>5. /\ {r.page : r \in old} = 1..(com[p].page - 1) /\ Cardinality(old) = com[p].page - 1
      /\ com[p].fetched = Cardinality(items)
  BY DEF Proper, ReceiptsProve
<1>6. \A r \in old : r.page \in Nat \ {0} /\ r.page < com[p].page /\ r.total \in Int
  <2>1. \A r \in old : r.page \in 1..(com[p].page - 1) /\ r.total \in Int
    BY <1>4, <1>5 DEF Receipt
  <2>2. QED
    BY <1>1, <2>1
<1>7. {r.page : r \in all} = 1..(c.page - 1)
  <2>1. {r.page : r \in all} = (1..(com[p].page - 1)) \cup {com[p].page}
    BY <1>3, <1>5
  <2>2. c.page - 1 = com[p].page
    BY <1>1, <1>2
  <2>3. (1..(com[p].page - 1)) \cup {com[p].page} = 1..com[p].page
    BY <1>1
  <2>4. QED
    BY <2>1, <2>2, <2>3
<1>8. Cardinality(all) = c.page - 1
  <2>1. new \notin old
    BY <1>3, <1>6
  <2>2. Cardinality(all) = Cardinality(old) + 1
    BY <1>4, <2>1, FS_AddElement
  <2>3. QED
    BY <1>1, <1>2, <1>5, <2>2
<1>9. UNION {r.rows : r \in all} = items \cup rows
  BY <1>3
<1>10. c.fetched = Cardinality(UNION {r.rows : r \in all})
  <2>1. items \cap rows = {} /\ items \in SUBSET Row
    <3>1. items \in SUBSET Row
      BY <1>4, ItemsAreRows
    <3>2. KeysOf(rows) \cap KeysOf(items) = {}
      BY DEF Proper, KeyConflict, ItemsOf
    <3>3. QED
      BY <3>1, <3>2 DEF KeysOf
  <2>2. /\ IsFiniteSet(items) /\ IsFiniteSet(rows)
        /\ Cardinality(items) \in Nat /\ Cardinality(rows) \in Nat
    BY <1>1, <2>1, RowsFinite
  <2>3. Cardinality(items \cup rows)
          = Cardinality(items) + Cardinality(rows) - Cardinality(items \cap rows)
    BY <2>2, FS_Union
  <2>4. Cardinality(items \cap rows) = 0
    BY <2>1, FS_EmptySet
  <2>5. Cardinality(items \cup rows) = Cardinality(items) + Cardinality(rows)
    BY <2>2, <2>3, <2>4
  <2>6. QED
    BY <1>2, <1>5, <1>9, <2>5 DEF Fetched
<1>11. Cardinality(rows) <= Size /\ (com[p].total > 0 => total = com[p].total)
  BY PageFits
(* What the old receipts see does not change.                              *)
<1>12. \A r \in old : r.reason = ""
  BY DEF Proper, ReceiptsProve, Unended
<1>13. ASSUME NEW r \in old, r.total > 0
       PROVE  total = r.total
  <2>1. com[p].page - 1 \in 1..(com[p].page - 1)
    BY <1>1, <1>6
  <2>2. PICK l \in old : l.page = com[p].page - 1
    BY <1>5, <2>1
  <2>3. l.total = com[p].total
    BY <2>2 DEF Proper, ReceiptsProve
  <2>4. r.total = com[p].total
    <3>1. CASE r.page = com[p].page - 1
      BY <3>1 DEF Proper, ReceiptsProve
    <3>2. CASE r.page # com[p].page - 1
      <4>1. l.page > r.page
        BY <1>1, <1>6, <2>2, <3>2
      <4>2. QED
        BY <1>13, <2>3, <4>1 DEF Proper, ReceiptsProve
    <3>3. QED
      BY <3>1, <3>2
  <2>5. QED
    BY <1>11, <1>13, <2>4
<1>14. ASSUME NEW r \in old
       PROVE  /\ Cardinality(r.rows) <= Size
              /\ \A s \in all : s.page > r.page /\ r.total > 0 => s.total = r.total
              /\ r.reason = DoneReason(r.total, Cardinality(upTo(all, r.page)),
                                       Cardinality(r.rows), full_(all, r.page))
              /\ r.reason # "" => r.page = c.page - 1
              /\ r.page = c.page - 1 => r.total = c.total /\ r.reason = c.reason
  <2>1. {s \in all : s.page <= r.page} = {s \in old : s.page <= r.page}
    BY <1>1, <1>3, <1>6
  <2>2. full_(all, r.page) <=> full_(old, r.page)
    BY <1>1, <1>3, <1>6
  <2>3. r.page # c.page - 1
    BY <1>1, <1>2, <1>6
  <2>4. /\ Cardinality(r.rows) <= Size
        /\ \A s \in old : s.page > r.page /\ r.total > 0 => s.total = r.total
        /\ r.reason = DoneReason(r.total, Cardinality(upTo(old, r.page)),
                                 Cardinality(r.rows), full_(old, r.page))
    BY DEF Proper, ReceiptsProve
  <2>5. \A s \in all : s.page > r.page /\ r.total > 0 => s.total = r.total
    BY <1>3, <1>13, <2>4
  <2>6. upTo(all, r.page) = upTo(old, r.page)
    BY <2>1
  <2>7. full_(all, r.page) = full_(old, r.page)
    BY <2>2
  <2>8. QED
    BY <1>12, <2>3, <2>4, <2>5, <2>6, <2>7
<1>15. /\ Cardinality(new.rows) <= Size
       /\ \A s \in all : s.page > new.page /\ new.total > 0 => s.total = new.total
       /\ new.reason = DoneReason(new.total, Cardinality(upTo(all, new.page)),
                                  Cardinality(new.rows), full_(all, new.page))
       /\ new.page = c.page - 1 /\ new.total = c.total /\ new.reason = c.reason
  <2>1. \A s \in all : s.page <= new.page /\ ~(s.page > new.page)
    BY <1>1, <1>3, <1>6
  <2>2. {s \in all : s.page <= new.page} = all
    BY <2>1
  <2>3. Cardinality(upTo(all, new.page)) = Fetched(p)
    BY <1>2, <1>10, <2>2
  <2>4. full_(all, new.page) <=> HasFull(old)
    BY <1>1, <1>3, <1>6 DEF HasFull
  <2>5. full_(all, new.page) = full[p]
    BY <2>4 DEF Proper, HasFull
  <2>6. c.reason = DoneReason(total, Fetched(p), Cardinality(rows), full[p])
    BY DEF Reaches, ReasonOf
  <2>7. new.page = c.page - 1
    BY <1>1, <1>2, <1>3
  <2>8. QED
    BY <1>2, <1>3, <1>11, <2>1, <2>3, <2>5, <2>6, <2>7
<1>16. all # {} /\ (c.status = "COMPLETE" <=> c.reason # "")
  BY DEF Reaches
<1>17. \A r \in all : r \in old \/ r = new
  OBVIOUS
<1>18. QED
  BY <1>7, <1>8, <1>10, <1>14, <1>15, <1>16, <1>17 DEF ReceiptsProve

-----------------------------------------------------------------------------
(* The steps.  Under the lease only the process that steps is inside the   *)
(* collector, so that only its own part of the invariant is at stake.      *)
Only(p) == \A q \in Procs : q # p => pc[q] = "idle"

StoredTypes ==
  /\ cp.err = Exhausted => cp.replays = ReplayLimit
  /\ cp.err = Overlap => cp.replays < ReplayLimit
  /\ kind \in Kinds /\ cp \in Checkpoint /\ receipts \subseteq Receipt
  /\ states \in [Keys -> Payloads \cup {"none"}]
CountTypes == minted \in 0..MaxGens /\ upsets \in 0..MaxUpsets
LocalTypes ==
  /\ pc \in [Procs -> {"idle", "verify", "clear", "start", "opened", "loop", "page",
                       "pagew", "failing", "failw", "reconcile", "compact", "mark"}]
  /\ obs \in [Procs -> Checkpoint] /\ com \in [Procs -> Checkpoint]
  /\ replay \in [Procs -> BOOLEAN] /\ full \in [Procs -> BOOLEAN]
  /\ resp \in [Procs -> [rows : SUBSET Row, total : Nat]]
  /\ problem \in [Procs -> Problems]

LEMMA TypeParts == TypeOK <=> StoredTypes /\ CountTypes /\ LocalTypes
  BY DEF TypeOK, StoredTypes, CountTypes, LocalTypes

LEMMA BlankTyped ==
  NoCp \in Checkpoint /\ NoResponse \in [rows : SUBSET Row, total : Nat]
  BY BoundsAssumption DEF NoCp, NoResponse, Checkpoint, Problems, Reasons, Statuses,
                          ReplayLimit

(* Nothing stored changes.                                                 *)
LEMMA StoredStays ==
  ASSUME BudgetInv, UNCHANGED durable, minted' >= minted, minted \in Int, minted' \in Int
  PROVE  StoredTypes' /\ Drawn' /\ Sound' /\ IsFiniteSet(receipts)'
<1>1. cp' = cp /\ receipts' = receipts /\ states' = states /\ kind' = kind
  BY DEF durable
<1>2. StoredTypes'
  BY <1>1, TypeParts DEF BudgetInv, Stored, StoredTypes
<1>3. Drawn'
  <2>1. cp \in Checkpoint /\ receipts \subseteq Receipt
    BY DEF BudgetInv, Stored, TypeOK
  <2>2. cp.gen \in Int /\ \A r \in receipts : r.gen \in Int
    BY <2>1 DEF Checkpoint, Receipt
  <2>3. Drawn
    BY DEF BudgetInv, Stored
  <2>4. QED
    BY <1>1, <2>2, <2>3 DEF Drawn
<1>4. Sound'
  BY <1>1 DEF BudgetInv, Stored, Sound, Begun, WriterMeetsVerifier, Closed, Verified,
              PagesOf, CurrentBinds
<1>5. QED
  BY <1>1, <1>2, <1>3, <1>4 DEF BudgetInv, Stored

(* The process leaves the collector.                                       *)
LEMMA LeavesClean ==
  ASSUME LocalTypes, NEW p \in Procs, NEW at \in {"idle", "reconcile", "compact"},
         LeaveTo(p, at)
  PROVE  /\ LocalTypes' /\ Claiming(p)' /\ Holding(p)' /\ Checking(p)'
         /\ at # "reconcile" => Removing(p)'
<1>1. pc'[p] = at
  BY DEF LocalTypes, LeaveTo, Go
<1>2. NoCp \in Checkpoint /\ NoResponse \in [rows : SUBSET Row, total : Nat]
  BY BlankTyped
<1>3. LocalTypes'
  BY <1>2 DEF LocalTypes, LeaveTo, Go, Problems
<1>4. QED
  BY <1>1, <1>3 DEF Claiming, Holding, Checking, Removing

(* A new generation: blank, and without receipts before it is claimed.     *)
LEMMA NewScopeClaims ==
  ASSUME BudgetInv, NEW p \in Procs, NEW isReplay \in BOOLEAN, NEW replays \in 0..ReplayLimit,
         NewScope(p, isReplay, replays), UNCHANGED durable,
         obs' \in [Procs -> Checkpoint], obs'[p] = cp, UNCHANGED <<resp, problem, full>>,
         Closed(cp) => replays = 0,
         upsets' \in 0..MaxUpsets
  PROVE  Stored' /\ Local(p)'
<1> DEFINE new == [NoCp EXCEPT !.gen = minted + 1, !.page = 1, !.replays = replays,
                               !.status = "RUNNING"]
<1>1. LocalTypes /\ CountTypes /\ Drawn /\ receipts \subseteq Receipt
  BY TypeParts DEF BudgetInv, Stored, TypeOK
<1>2. minted < MaxGens /\ minted' = minted + 1 /\ minted \in Nat /\ minted' \in 1..MaxGens
  BY <1>1, BoundsAssumption DEF CountTypes, NewScope
<1>3. StoredTypes' /\ Drawn' /\ Sound' /\ IsFiniteSet(receipts)'
  BY <1>2, StoredStays
<1>4. /\ new.gen = minted + 1 /\ new.page = 1 /\ new.replays = replays /\ new.fetched = 0
      /\ new.total = -1 /\ new.reason = "" /\ new.status = "RUNNING" /\ new.err = ""
  BY DEF NoCp
<1>5. new \in Checkpoint
  <2>1. NoCp \in Checkpoint
    BY BlankTyped
  <2>2. minted + 1 \in 0..MaxGens /\ 1 \in Nat
    BY <1>2, BoundsAssumption
  <2>3. "RUNNING" \in Statuses
    BY DEF Statuses, Unfinished
  <2>4. QED
    BY <2>1, <2>2, <2>3 DEF Checkpoint
<1>6. com' = [com EXCEPT ![p] = new] /\ com'[p] = new
  BY <1>1 DEF NewScope, LocalTypes
<1>7. pc'[p] = IF isReplay THEN "start" ELSE "clear"
  BY <1>1 DEF NewScope, Go, LocalTypes
<1>8. LocalTypes'
  <2>1. com' \in [Procs -> Checkpoint]
    BY <1>1, <1>5, <1>6 DEF LocalTypes
  <2>2. replay' \in [Procs -> BOOLEAN]
    BY <1>1 DEF LocalTypes, NewScope
  <2>3. pc' \in [Procs -> {"idle", "verify", "clear", "start", "opened", "loop", "page",
                           "pagew", "failing", "failw", "reconcile", "compact", "mark"}]
    BY <1>1 DEF LocalTypes, NewScope, Go
  <2>4. QED
    BY <1>1, <2>1, <2>2, <2>3 DEF LocalTypes
<1>9. Begun(new) /\ Running(new) /\ Blank(new) /\ new.gen = minted'
  <2>1. new.gen = minted' /\ new.page = 1
    BY <1>2 DEF NoCp
  <2>2. new.status # "ABSENT"
    BY <1>4
  <2>3. Running(new)
    BY <1>4 DEF Running, Unended
  <2>4. Blank(new)
    BY DEF NoCp, Blank
  <2>5. new.gen \in 1..MaxGens /\ new.page >= 1
    BY <1>2, <2>1
  <2>6. QED
    BY <2>1, <2>2, <2>3, <2>4, <2>5 DEF Begun
<1>10. {r \in receipts : r.gen = new.gen} = {}
  <2>1. \A r \in receipts : r.gen \in Int /\ r.gen <= minted
    BY <1>1 DEF Drawn, Receipt
  <2>2. new.gen = minted + 1
    BY DEF NoCp
  <2>3. \A r \in receipts : r.gen # minted + 1
    BY <1>2, <2>1
  <2>4. QED
    BY <2>2, <2>3
<1>11. Verified(com[p])'
  <2>1. PagesOf(com[p].gen)' = {}
    BY <1>6, <1>10 DEF PagesOf, durable
  <2>2. ReceiptsProve({}, com'[p])
    BY <1>6, <1>9, BlankIsProven
  <2>3. CurrentBinds({})'
    BY DEF CurrentBinds
  <2>4. QED
    BY <2>1, <2>2, <2>3 DEF Verified, PagesOf, CurrentBinds
<1>12. cp' = cp
  BY DEF durable
<1>13. Claiming(p)'
  <2>1. pc'[p] \in {"clear", "start"}
    BY <1>7
  <2>2. Begun(com'[p]) /\ Running(com'[p]) /\ Blank(com'[p]) /\ com'[p].gen <= minted'
    <3> HIDE DEF new
    <3>1. minted' <= minted'
      BY <1>2
    <3>2. QED
      BY <1>6, <1>9, <3>1
  <2>3. Closed(cp) => Afresh(new, cp)
    <3>1. cp.gen \in Int /\ cp.gen <= minted
      BY <1>1 DEF BudgetInv, Stored, TypeOK, Checkpoint, Drawn
    <3>2. new.gen > cp.gen
      <4>1. new.gen = minted + 1
        BY DEF NoCp
      <4>2. minted + 1 > cp.gen
        BY <1>2, <3>1
      <4>3. QED
        BY <4>1, <4>2
    <3>3. QED
      BY <1>4, <3>2 DEF Afresh
  <2>4. Closed(cp)' => Afresh(com[p], cp)'
    <3> HIDE DEF new
    <3>1. QED
      BY <1>6, <1>12, <2>3 DEF Closed, Afresh
  <2>5. QED
    BY <1>11, <1>12, <2>1, <2>2, <2>4 DEF Claiming, Begun, Running, Unended, Blank
<1>14. Holding(p)' /\ Checking(p)' /\ Removing(p)'
  BY <1>7 DEF Holding, Checking, Removing
<1>15. CountTypes'
  BY <1>2, BoundsAssumption DEF CountTypes
<1>16. TypeOK'
  BY <1>3, <1>8, <1>15 DEF TypeOK, StoredTypes, CountTypes, LocalTypes
<1>17. QED
  BY <1>3, <1>13, <1>14, <1>16 DEF Stored, Local

LEMMA LookupKeeps ==
  ASSUME BudgetInv, NEW p \in Procs, NEW resume \in BOOLEAN, Lookup(p, resume)
  PROVE  Stored' /\ Local(p)'
<1>1. /\ StoredTypes /\ LocalTypes /\ CountTypes /\ Drawn /\ Sound
      /\ cp \in Checkpoint /\ minted \in Int
  BY TypeParts, BoundsAssumption DEF BudgetInv, Stored, CountTypes, StoredTypes
<1>2. UNCHANGED durable /\ UNCHANGED <<resp, problem, full>>
  BY DEF Lookup
<1>3. obs' = [obs EXCEPT ![p] = cp]
  BY DEF Lookup
<1>4. obs' \in [Procs -> Checkpoint] /\ obs'[p] = cp
  BY <1>1, <1>3 DEF LocalTypes
<1>5. 0 \in 0..ReplayLimit
  BY DEF ReplayLimit
<1>6. upsets' \in 0..MaxUpsets
  <2>1. upsets' = upsets \/ Upset
    BY DEF Lookup
  <2>2. QED
    BY <1>1, <2>1, BoundsAssumption DEF Upset, CountTypes
<1>7. CASE NewScope(p, FALSE, 0)
  BY <1>2, <1>4, <1>5, <1>6, <1>7, NewScopeClaims
<1>8. CASE Drifted(cp) /\ NewScope(p, TRUE, cp.replays + 1)
  <2>1. cp.replays + 1 \in 0..ReplayLimit /\ ~Closed(cp)
    BY <1>1, <1>8 DEF Drifted, Checkpoint, ReplayLimit, Overlap, Exhausted, Closed
  <2>2. QED
    BY <1>2, <1>4, <1>6, <1>8, <2>1, NewScopeClaims
<1>9. CASE /\ resume /\ cp.status # "ABSENT" /\ ~Drifted(cp) /\ ~GaveUp(cp) /\ Go(p, "verify")
           /\ UNCHANGED <<upsets, minted, com, replay>>
  <2>1. pc'[p] = "verify" /\ pc' = [pc EXCEPT ![p] = "verify"]
    BY <1>1, <1>9 DEF Go, LocalTypes
  <2>2. LocalTypes'
    BY <1>1, <1>2, <1>4, <1>9, <2>1 DEF LocalTypes
  <2>3. StoredTypes' /\ Drawn' /\ Sound' /\ IsFiniteSet(receipts)'
    BY <1>1, <1>2, <1>9, StoredStays
  <2>4. CountTypes'
    BY <1>1, <1>9 DEF CountTypes
  <2>5. cp' = cp /\ kind' = kind /\ (kind = "history" => cp.status # "COMPLETE")
    BY <1>2 DEF durable, Lookup
  <2>6. Local(p)'
    BY <1>4, <1>9, <2>1, <2>5 DEF Local, Claiming, Holding, Checking, Removing, GaveUp
  <2>7. QED
    BY <2>2, <2>3, <2>4, <2>6 DEF Stored, TypeOK, StoredTypes, CountTypes, LocalTypes
<1>10. QED
  BY <1>7, <1>8, <1>9 DEF Lookup

LEMMA VerifyKeeps ==
  ASSUME BudgetInv, NEW p \in Procs, Verify(p), Local(p)
  PROVE  Stored' /\ Local(p)'
<1>1. /\ LocalTypes /\ CountTypes /\ Drawn /\ Sound /\ cp \in Checkpoint /\ minted \in Int
  BY TypeParts, BoundsAssumption DEF BudgetInv, Stored, CountTypes, StoredTypes
<1>2. UNCHANGED durable /\ upsets' = upsets /\ upsets' \in 0..MaxUpsets
  BY <1>1 DEF Verify, CountTypes
<1>3. /\ pc[p] = "verify" /\ obs[p] = cp /\ cp.status # "ABSENT" /\ cp.err # Exhausted
      /\ kind = "history" => cp.status # "COMPLETE"
  BY DEF Verify, Local, Claiming
<1>4. cp' = cp /\ kind' = kind /\ receipts' = receipts /\ states' = states
  BY <1>2 DEF durable
<1>5. CASE Verified(cp) /\ cp.status = "COMPLETE" /\ LeaveTo(p, "reconcile")
           /\ minted' = minted
  <2>1. LocalTypes' /\ Claiming(p)' /\ Holding(p)' /\ Checking(p)'
    BY <1>1, <1>5, LeavesClean
  <2>2. kind = "current"
    BY <1>3, <1>5, TypeParts, DataAssumption DEF BudgetInv, Stored, StoredTypes
  <2>3. Verified(cp)'
    BY <1>4, <1>5 DEF Verified, PagesOf, CurrentBinds
  <2>4. Removing(p)'
    BY <1>4, <1>5, <2>2, <2>3 DEF Removing
  <2>5. StoredTypes' /\ Drawn' /\ Sound' /\ IsFiniteSet(receipts)'
    BY <1>1, <1>2, <1>5, StoredStays
  <2>6. CountTypes'
    BY <1>1, <1>2, <1>5 DEF CountTypes
  <2>7. QED
    BY <2>1, <2>4, <2>5, <2>6 DEF Stored, TypeOK, StoredTypes, CountTypes, LocalTypes, Local
<1>6. CASE /\ Verified(cp) /\ Resumable(cp)
           /\ com' = [com EXCEPT ![p] = [cp EXCEPT !.status = "RUNNING", !.err = ""]]
           /\ Go(p, "start") /\ UNCHANGED <<minted, obs, replay, resp, problem, full>>
  <2> DEFINE new == [cp EXCEPT !.status = "RUNNING", !.err = ""]
  <2>1. /\ new.gen = cp.gen /\ new.page = cp.page /\ new.fetched = cp.fetched
        /\ new.total = cp.total /\ new.reason = cp.reason /\ new.replays = cp.replays
        /\ new.status = "RUNNING" /\ new.err = ""
    BY <1>1 DEF Checkpoint
  <2>2. new \in Checkpoint
    BY <1>1 DEF Checkpoint, Statuses, Unfinished, Problems
  <2>3. com'[p] = new /\ com' \in [Procs -> Checkpoint]
    BY <1>1, <1>6, <2>2 DEF LocalTypes
  <2>4. pc'[p] = "start" /\ pc' = [pc EXCEPT ![p] = "start"]
    BY <1>1, <1>6 DEF Go, LocalTypes
  <2>5. LocalTypes'
    BY <1>1, <1>6, <2>3, <2>4 DEF LocalTypes
  <2>6. ReceiptsProve(PagesOf(cp.gen), cp) /\ (kind = "current" => CurrentBinds(PagesOf(cp.gen)))
    BY <1>6 DEF Verified
  <2>7. Unended(cp) /\ ~Closed(cp) /\ cp.status # "COMPLETE"
    BY <1>3, <1>6, <2>6 DEF ReceiptsProve, Unended, Resumable, Unfinished, Closed
  <2>8. Alike(new, cp)
    BY <2>1, <2>7 DEF Alike
  <2>9. ReceiptsProve(PagesOf(cp.gen), new)
    <3> HIDE DEF new
    <3>1. QED
      BY <2>6, <2>8, SameProof
  <2>10. Verified(com[p])'
    <3> HIDE DEF new
    <3>1. QED
      BY <1>4, <2>1, <2>3, <2>6, <2>9 DEF Verified, PagesOf, CurrentBinds
  <2>11. Begun(cp) /\ cp.gen <= minted
    BY <1>1, <1>3 DEF Sound, Drawn
  <2>12. Begun(com'[p]) /\ com'[p].gen <= minted
    <3> HIDE DEF new
    <3>1. new.status # "ABSENT"
      BY <2>1
    <3>2. QED
      BY <2>1, <2>3, <2>11, <3>1 DEF Begun
  <2>13. Running(com'[p])
    BY <2>1, <2>3, <2>7 DEF Running, Unended
  <2>14. Claiming(p)'
    BY <1>3, <1>4, <1>6, <2>4, <2>7, <2>10, <2>12, <2>13
       DEF Claiming, Begun, Running, Unended, Closed
  <2>15. Holding(p)' /\ Checking(p)' /\ Removing(p)'
    BY <2>4 DEF Holding, Checking, Removing
  <2>16. StoredTypes' /\ Drawn' /\ Sound' /\ IsFiniteSet(receipts)'
    BY <1>1, <1>2, <1>6, StoredStays
  <2>17. CountTypes'
    BY <1>1, <1>2, <1>6 DEF CountTypes
  <2>18. QED
    BY <2>5, <2>14, <2>15, <2>16, <2>17
       DEF Stored, TypeOK, StoredTypes, CountTypes, LocalTypes, Local
<1>7. CASE NewScope(p, FALSE, 0) /\ UNCHANGED <<obs, resp, problem, full>>
  <2>1. obs' \in [Procs -> Checkpoint] /\ obs'[p] = cp /\ 0 \in 0..ReplayLimit
    BY <1>1, <1>3, <1>7 DEF LocalTypes, ReplayLimit
  <2>2. QED
    BY <1>2, <1>3, <1>7, <2>1, NewScopeClaims
<1>8. QED
  BY <1>3, <1>5, <1>6, <1>7 DEF Verify

(* Receipts may go at any time: a checkpoint past page one is then no      *)
(* longer held against them.                                               *)
LEMMA ClearedIsSound ==
  ASSUME BudgetInv, receipts' = {}, UNCHANGED <<kind, cp, states>>
  PROVE  StoredTypes' /\ Sound' /\ IsFiniteSet(receipts)'
<1>1. StoredTypes' /\ IsFiniteSet(receipts)'
  BY TypeParts, FS_EmptySet DEF BudgetInv, Stored, StoredTypes
<1>2. PagesOf(cp.gen)' = {}
  BY DEF PagesOf
<1>3. WriterMeetsVerifier'
  <2> SUFFICES ASSUME cp'.status # "ABSENT", cp'.err # Overlap, ~Closed(cp)',
                      PagesOf(cp.gen)' # {} \/ cp'.page = 1
               PROVE  Verified(cp)'
    BY DEF WriterMeetsVerifier
  <2>1. cp.page = 1 /\ Verified(cp)
    BY <1>2 DEF BudgetInv, Stored, Sound, WriterMeetsVerifier, Closed
  <2>2. ReceiptsProve(PagesOf(cp.gen), cp) /\ PagesOf(cp.gen) = {}
    BY <2>1, FirstHasNone DEF Verified
  <2>3. CurrentBinds({})'
    BY DEF CurrentBinds
  <2>4. QED
    BY <1>2, <2>2, <2>3 DEF Verified
<1>4. QED
  BY <1>1, <1>3 DEF BudgetInv, Stored, Sound, Begun

LEMMA ClearKeeps ==
  ASSUME BudgetInv, NEW p \in Procs, Clear(p), Local(p)
  PROVE  Stored' /\ Local(p)'
<1>1. LocalTypes /\ CountTypes /\ Drawn
  BY TypeParts DEF BudgetInv, Stored
<1>2. /\ receipts' = {} /\ UNCHANGED <<kind, cp, states>> /\ UNCHANGED <<minted, upsets>>
      /\ UNCHANGED local
  BY DEF Clear
<1>3. StoredTypes' /\ Sound' /\ IsFiniteSet(receipts)'
  BY <1>2, ClearedIsSound
<1>4. Drawn' /\ CountTypes'
  BY <1>1, <1>2 DEF Drawn, CountTypes
<1>5. pc'[p] = "start" /\ pc' = [pc EXCEPT ![p] = "start"] /\ pc[p] = "clear"
  BY <1>1 DEF Clear, Go, LocalTypes
<1>6. LocalTypes'
  BY <1>1, <1>2, <1>5 DEF LocalTypes, local
<1>7. /\ obs[p] = cp /\ Begun(com[p]) /\ Running(com[p]) /\ com[p].gen <= minted
      /\ Blank(com[p]) /\ (Closed(cp) => Afresh(com[p], cp))
  BY <1>5 DEF Local, Claiming
<1>8. com' = com /\ obs' = obs /\ cp' = cp /\ minted' = minted
  BY <1>2 DEF local
<1>9. Verified(com[p])'
  <2>1. PagesOf(com[p].gen)' = {} /\ CurrentBinds({})'
    BY <1>2 DEF PagesOf, CurrentBinds
  <2>2. ReceiptsProve({}, com[p])
    BY <1>7, BlankIsProven
  <2>3. QED
    BY <1>8, <2>1, <2>2 DEF Verified
<1>10. Claiming(p)'
  BY <1>5, <1>7, <1>8, <1>9 DEF Claiming, Begun, Running, Unended, Closed, Afresh
<1>11. Holding(p)' /\ Checking(p)' /\ Removing(p)'
  BY <1>5 DEF Holding, Checking, Removing
<1>12. QED
  BY <1>3, <1>4, <1>6, <1>10, <1>11
     DEF Stored, TypeOK, StoredTypes, CountTypes, LocalTypes, Local

(* A checkpoint that the verifier accepts is stored.                       *)
LEMMA ProvenIsSound ==
  ASSUME NEW c, cp' = c, Begun(c), c.status # "COMPLETE" \/ c.err = "", Verified(c)'
  PROVE  Sound'
<1>1. Verified(cp)'
  BY DEF Verified
<1>2. QED
  BY <1>1 DEF Sound, Begun, WriterMeetsVerifier

LEMMA StartKeeps ==
  ASSUME BudgetInv, NEW p \in Procs, Start(p), Local(p)
  PROVE  Stored' /\ Local(p)'
<1>1. /\ StoredTypes /\ LocalTypes /\ CountTypes /\ Drawn /\ minted \in Int
      /\ com[p] \in Checkpoint
  BY TypeParts, BoundsAssumption DEF BudgetInv, Stored, CountTypes, LocalTypes
<1>2. /\ UNCHANGED <<kind, receipts, states, minted, upsets>> /\ pc[p] = "start"
  BY DEF Start
<1>3. CountTypes'
  BY <1>1, <1>2 DEF CountTypes
<1>4. CASE SameStart(cp, obs[p])
  <2>1. cp' = com[p] /\ Go(p, "opened") /\ UNCHANGED local
    BY <1>4 DEF Start
  <2>2. /\ Begun(com[p]) /\ Running(com[p]) /\ com[p].gen <= minted /\ Verified(com[p])
    BY <1>2 DEF Local, Claiming
  <2>3. pc'[p] = "opened" /\ pc' = [pc EXCEPT ![p] = "opened"] /\ com' = com
    BY <1>1, <2>1 DEF Go, LocalTypes, local
  <2>4. LocalTypes'
    BY <1>1, <2>1, <2>3 DEF LocalTypes, local
  <2>5. StoredTypes'
    <3>1. com[p].err = ""
      BY <2>2 DEF Running
    <3>2. QED
      BY <1>1, <1>2, <2>1, <3>1 DEF StoredTypes, Overlap, Exhausted
  <2>6. Drawn'
    BY <1>1, <1>2, <2>1, <2>2 DEF Drawn
  <2>7. Verified(com[p])'
    BY <1>2, <2>2, <2>3 DEF Verified, PagesOf, CurrentBinds
  <2>8. PICK c : c = com[p]
    OBVIOUS
  <2>9. Verified(c)' /\ cp' = c /\ Begun(c) /\ Running(c)
    BY <2>1, <2>2, <2>3, <2>7, <2>8 DEF Verified, PagesOf
  <2>10. Sound'
    BY <2>9, ProvenIsSound DEF Running
  <2>11. Claiming(p)' /\ Checking(p)' /\ Removing(p)'
    BY <2>3 DEF Claiming, Checking, Removing
  <2>12. Holding(p)'
    BY <2>1, <2>2, <2>3, <2>7 DEF Holding, Verified, Begun, Running, Unended
  <2>13. IsFiniteSet(receipts)'
    BY <1>2 DEF BudgetInv, Stored
  <2>14. QED
    BY <1>3, <2>4, <2>5, <2>6, <2>10, <2>11, <2>12, <2>13
       DEF Stored, TypeOK, StoredTypes, CountTypes, LocalTypes, Local
<1>5. CASE ~SameStart(cp, obs[p])
  <2>1. Leave(p) /\ UNCHANGED cp
    BY <1>5 DEF Start
  <2>2. LocalTypes' /\ Local(p)'
    BY <1>1, <2>1, LeavesClean DEF Leave, Local
  <2>3. StoredTypes' /\ Drawn' /\ Sound' /\ IsFiniteSet(receipts)'
    BY <1>1, <1>2, <2>1, StoredStays DEF durable
  <2>4. QED
    BY <1>3, <2>2, <2>3 DEF Stored, TypeOK, StoredTypes, CountTypes, LocalTypes
<1>6. QED
  BY <1>4, <1>5

(* Between two writes the process keeps holding the stored checkpoint.     *)
Held(p) == cp = com[p] /\ Begun(cp) /\ Running(cp) /\ Verified(cp)

LEMMA HeldStays ==
  ASSUME NEW p \in Procs, Held(p), UNCHANGED durable, com'[p] = com[p]
  PROVE  Held(p)'
  BY DEF durable, Held, Begun, Running, Unended, Verified, PagesOf, CurrentBinds

LEMMA ScanFullPageKeeps ==
  ASSUME BudgetInv, NEW p \in Procs, ScanFullPage(p), Local(p)
  PROVE  Stored' /\ Local(p)'
<1>1. LocalTypes /\ CountTypes /\ minted \in Int
  BY TypeParts DEF BudgetInv, Stored, CountTypes
<1>2. /\ UNCHANGED durable /\ UNCHANGED <<minted, upsets, obs, com, replay, resp, problem>>
      /\ pc[p] = "opened" /\ Go(p, "loop")
      /\ full' = [full EXCEPT ![p] = HasFull(PagesOf(com[p].gen))]
  BY DEF ScanFullPage, HasFull
<1>3. pc'[p] = "loop" /\ pc' = [pc EXCEPT ![p] = "loop"]
  BY <1>1, <1>2 DEF Go, LocalTypes
<1>4. full'[p] = HasFull(PagesOf(com[p].gen)) /\ full' \in [Procs -> BOOLEAN]
  BY <1>1, <1>2 DEF LocalTypes, HasFull
<1>5. LocalTypes'
  BY <1>1, <1>2, <1>3, <1>4 DEF LocalTypes
<1>6. Held(p)'
  BY <1>2, HeldStays DEF Local, Holding, Held
<1>7. full'[p] = HasFull(PagesOf(com[p].gen))'
  BY <1>2, <1>4 DEF HasFull, PagesOf, durable
<1>8. Local(p)'
  BY <1>3, <1>6, <1>7 DEF Local, Claiming, Holding, Checking, Removing, Held
<1>9. StoredTypes' /\ Drawn' /\ Sound' /\ IsFiniteSet(receipts)'
  BY <1>1, <1>2, StoredStays
<1>10. QED
  BY <1>1, <1>2, <1>5, <1>8, <1>9
     DEF Stored, TypeOK, StoredTypes, CountTypes, LocalTypes

(* Neither test of the source finds an overlap.                            *)
LEMMA SourceProblemTyped ==
  ASSUME NEW c, NEW r
  PROVE  SourceProblem(c, r) \in Problems \ {Overlap, Exhausted}
  BY DEF SourceProblem, Problems, Overlap, Exhausted

LEMMA SettledPageTyped ==
  ASSUME NEW n \in Int
  PROVE  SettledPage(n) \in [rows : SUBSET Row, total : Nat]
<1>1. \A i \in DOMAIN Source : Source[i] \in Row
  BY DataAssumption
<1>2. Len(Source) \in Nat
  BY DataAssumption
<1>3. {Source[i] : i \in {j \in DOMAIN Source : j > (n - 1) * Size /\ j <= n * Size}}
        \in SUBSET Row
  BY <1>1
<1>4. QED
  BY <1>2, <1>3 DEF SettledPage

LEMMA FetchKeeps ==
  ASSUME BudgetInv, NEW p \in Procs, Fetch(p), Local(p)
  PROVE  Stored' /\ Local(p)'
<1>1. LocalTypes /\ CountTypes /\ minted \in Int /\ com[p].page \in Int
  BY TypeParts DEF BudgetInv, Stored, CountTypes, LocalTypes, Checkpoint
<1>2. /\ UNCHANGED durable /\ UNCHANGED <<minted, obs, com, replay, full>>
      /\ pc[p] = "loop" /\ Go(p, "page")
      /\ problem' = [problem EXCEPT ![p] = SourceProblem(com[p], resp'[p])]
  BY DEF Fetch
<1>3. pc'[p] = "page" /\ pc' = [pc EXCEPT ![p] = "page"]
  BY <1>1, <1>2 DEF Go, LocalTypes
<1>4. problem'[p] = SourceProblem(com[p], resp'[p]) /\ problem' \in [Procs -> Problems]
  BY <1>1, <1>2, SourceProblemTyped DEF LocalTypes
<1>5. resp' \in [Procs -> [rows : SUBSET Row, total : Nat]]
  <2>1. CASE resp' = [resp EXCEPT ![p] = SettledPage(com[p].page)]
    BY <1>1, <2>1, SettledPageTyped DEF LocalTypes
  <2>2. CASE \E r \in DisturbedPages : resp' = [resp EXCEPT ![p] = r]
    <3>1. PICK r \in DisturbedPages : resp' = [resp EXCEPT ![p] = r]
      BY <2>2
    <3>2. r \in [rows : SUBSET Row, total : Nat]
      BY BoundsAssumption DEF DisturbedPages
    <3>3. QED
      BY <1>1, <3>1, <3>2 DEF LocalTypes
  <2>3. QED
    BY <2>1, <2>2 DEF Fetch
<1>6. LocalTypes'
  BY <1>1, <1>2, <1>3, <1>4, <1>5 DEF LocalTypes
<1>7. CountTypes'
  <2>1. upsets' = upsets \/ Upset
    BY DEF Fetch
  <2>2. QED
    BY <1>1, <1>2, <2>1, BoundsAssumption DEF Upset, CountTypes
<1>8. Held(p)'
  BY <1>2, HeldStays DEF Local, Holding, Held
<1>9. full'[p] = HasFull(PagesOf(com[p].gen))'
  <2>1. full[p] \in BOOLEAN /\ HasFull(PagesOf(com[p].gen)) \in BOOLEAN
    BY <1>1 DEF LocalTypes, HasFull
  <2>2. full[p] = HasFull(PagesOf(com[p].gen))
    BY <1>2, <2>1 DEF Local, Holding
  <2>3. QED
    BY <1>2, <2>2 DEF HasFull, PagesOf, durable
<1>10. Checking(p)'
  <2>1. SourceProblem(com[p], resp[p])' = problem'[p]
    BY <1>2, <1>4 DEF SourceProblem, PageTotal
  <2>2. problem'[p] \notin {Overlap, Exhausted}
    BY <1>4, SourceProblemTyped
  <2>3. QED
    BY <1>3, <2>1, <2>2 DEF Checking
<1>11. Local(p)'
  BY <1>3, <1>8, <1>9, <1>10 DEF Local, Claiming, Holding, Removing, Held
<1>12. StoredTypes' /\ Drawn' /\ Sound' /\ IsFiniteSet(receipts)'
  BY <1>1, <1>2, StoredStays
<1>13. QED
  BY <1>6, <1>7, <1>11, <1>12
     DEF Stored, TypeOK, StoredTypes, CountTypes, LocalTypes

LEMMA PageReadKeeps ==
  ASSUME BudgetInv, NEW p \in Procs, PageRead(p), Local(p)
  PROVE  Stored' /\ Local(p)'
<1>1. LocalTypes /\ CountTypes /\ minted \in Int
  BY TypeParts DEF BudgetInv, Stored, CountTypes
<1>2. /\ UNCHANGED durable /\ UNCHANGED <<minted, upsets, obs, com, replay, resp, full>>
      /\ pc[p] = "page"
  BY DEF PageRead
<1>3. StoredTypes' /\ Drawn' /\ Sound' /\ IsFiniteSet(receipts)' /\ CountTypes'
  BY <1>1, <1>2, StoredStays DEF CountTypes
<1>4. Held(p)'
  BY <1>2, HeldStays DEF Local, Holding, Held
<1>5. full[p] = HasFull(PagesOf(com[p].gen))
  <2>1. full[p] \in BOOLEAN /\ HasFull(PagesOf(com[p].gen)) \in BOOLEAN
    BY <1>1 DEF LocalTypes, HasFull
  <2>2. QED
    BY <1>2, <2>1 DEF Local, Holding
<1>6. full'[p] = HasFull(PagesOf(com[p].gen))'
  BY <1>2, <1>5 DEF HasFull, PagesOf, durable
<1>7. CASE SamePage(cp, com[p]) /\ cp.status = "RUNNING"
  <2>1. /\ Go(p, "pagew")
        /\ problem' = [problem EXCEPT ![p] = IF Overlaps(p) THEN RepeatProblem(com[p]) ELSE @]
    BY <1>7 DEF PageRead, Overlaps
  <2>2. pc'[p] = "pagew" /\ pc' = [pc EXCEPT ![p] = "pagew"]
    BY <1>1, <2>1 DEF Go, LocalTypes
  <2>3. RepeatProblem(com[p]) \in Problems /\ RepeatProblem(com[p]) # ""
    BY DEF RepeatProblem, Problems, Overlap, Exhausted
  <2>4. /\ problem'[p] = IF Overlaps(p) THEN RepeatProblem(com[p]) ELSE problem[p]
        /\ problem' \in [Procs -> Problems]
    BY <1>1, <2>1, <2>3 DEF LocalTypes
  <2>5. LocalTypes'
    BY <1>1, <1>2, <2>2, <2>4 DEF LocalTypes
  <2>6. Checking(p)'
    <3>1. Overlaps(p)' <=> Overlaps(p)
      BY <1>2 DEF Overlaps, durable, ItemsOf, PagesOf
    <3>2. RepeatProblem(com[p])' = RepeatProblem(com[p])
      BY <1>2 DEF RepeatProblem
    <3>3. SourceProblem(com[p], resp[p])' = SourceProblem(com[p], resp[p])
      BY <1>2 DEF SourceProblem, PageTotal
    <3>4. problem'[p] = "" => SourceProblem(com[p], resp[p]) = ""
      BY <1>2, <2>3, <2>4 DEF Local, Checking
    <3>5. ~Overlaps(p) => problem'[p] \notin {Overlap, Exhausted}
      BY <1>2, <2>4 DEF Local, Checking
    <3>6. QED
      BY <2>2, <2>4, <3>1, <3>2, <3>3, <3>4, <3>5 DEF Checking
  <2>7. Local(p)'
    BY <1>4, <1>6, <2>2, <2>6 DEF Local, Claiming, Holding, Removing, Held
  <2>8. QED
    BY <1>3, <2>5, <2>7 DEF Stored, TypeOK, StoredTypes, CountTypes, LocalTypes
<1>8. CASE ~(SamePage(cp, com[p]) /\ cp.status = "RUNNING")
  <2>1. Go(p, "failing") /\ UNCHANGED problem
    BY <1>8 DEF PageRead
  <2>2. pc'[p] = "failing" /\ pc' = [pc EXCEPT ![p] = "failing"]
    BY <1>1, <2>1 DEF Go, LocalTypes
  <2>3. LocalTypes'
    BY <1>1, <1>2, <2>1, <2>2 DEF LocalTypes
  <2>4. Local(p)'
    BY <1>4, <2>2 DEF Local, Claiming, Holding, Checking, Removing, Held
  <2>5. QED
    BY <1>3, <2>3, <2>4 DEF Stored, TypeOK, StoredTypes, CountTypes, LocalTypes
<1>9. QED
  BY <1>7, <1>8

(* The steps that end or interrupt the work without a write.               *)
LEMMA GivesUpKeeps ==
  ASSUME BudgetInv, NEW p \in Procs, Leave(p), UNCHANGED <<durable, minted>>,
         upsets' = upsets \/ Upset
  PROVE  Stored' /\ Local(p)'
<1>1. LocalTypes /\ CountTypes /\ minted \in Int
  BY TypeParts DEF BudgetInv, Stored, CountTypes
<1>2. LocalTypes' /\ Local(p)'
  BY <1>1, LeavesClean DEF Leave, Local
<1>3. CountTypes'
  BY <1>1, BoundsAssumption DEF Upset, CountTypes
<1>4. StoredTypes' /\ Drawn' /\ Sound' /\ IsFiniteSet(receipts)'
  BY <1>1, StoredStays
<1>5. QED
  BY <1>2, <1>3, <1>4 DEF Stored, TypeOK, StoredTypes, CountTypes, LocalTypes

LEMMA FailsKeeps ==
  ASSUME BudgetInv, NEW p \in Procs, Local(p), NEW at \in {"failing", "failw"},
         pc[p] \in {"loop", "page", "pagew", "failing"}, Go(p, at),
         UNCHANGED <<durable, minted, local>>, upsets' = upsets \/ Upset
  PROVE  Stored' /\ Local(p)'
<1>1. LocalTypes /\ CountTypes /\ minted \in Int
  BY TypeParts DEF BudgetInv, Stored, CountTypes
<1>2. pc'[p] = at /\ pc' = [pc EXCEPT ![p] = at]
  BY <1>1 DEF Go, LocalTypes
<1>3. LocalTypes'
  BY <1>1, <1>2 DEF LocalTypes, local
<1>4. Held(p)'
  BY HeldStays DEF Local, Holding, Held, local
<1>5. Local(p)'
  BY <1>2, <1>4 DEF Local, Claiming, Holding, Checking, Removing, Held
<1>6. CountTypes'
  BY <1>1, BoundsAssumption DEF Upset, CountTypes
<1>7. StoredTypes' /\ Drawn' /\ Sound' /\ IsFiniteSet(receipts)'
  BY <1>1, StoredStays
<1>8. QED
  BY <1>3, <1>5, <1>6, <1>7 DEF Stored, TypeOK, StoredTypes, CountTypes, LocalTypes

LEMMA FailReadKeeps ==
  ASSUME BudgetInv, NEW p \in Procs, FailRead(p), Local(p)
  PROVE  Stored' /\ Local(p)'
<1>1. pc[p] = "failing" /\ UNCHANGED <<durable, minted, upsets>>
  BY DEF FailRead
<1>2. CASE Go(p, "failw") /\ UNCHANGED local
  BY <1>1, <1>2, FailsKeeps
<1>3. CASE Leave(p)
  BY <1>1, <1>3, GivesUpKeeps
<1>4. QED
  BY <1>2, <1>3 DEF FailRead

LEMMA FailWriteKeeps ==
  ASSUME BudgetInv, NEW p \in Procs, FailWrite(p), Local(p)
  PROVE  Stored' /\ Local(p)'
<1>1. /\ StoredTypes /\ LocalTypes /\ CountTypes /\ Drawn /\ minted \in Int
      /\ com[p] \in Checkpoint
  BY TypeParts, BoundsAssumption DEF BudgetInv, Stored, CountTypes, LocalTypes
<1>2. UNCHANGED <<kind, receipts, states, minted, upsets>> /\ Leave(p) /\ pc[p] = "failw"
  BY DEF FailWrite
<1>3. PICK status \in {"FAILED", "INCOMPLETE"} :
        cp' = [com[p] EXCEPT !.status = status, !.err = "ERROR"]
  BY DEF FailWrite
<1>4. cp = com[p] /\ Begun(cp) /\ Running(cp) /\ Verified(cp)
  BY <1>2 DEF Local, Holding
<1>5. PICK c : c = [com[p] EXCEPT !.status = status, !.err = "ERROR"]
  OBVIOUS
<1>6. /\ c.gen = cp.gen /\ c.page = cp.page /\ c.fetched = cp.fetched
      /\ c.total = cp.total /\ c.reason = cp.reason /\ c.status = status /\ c.err = "ERROR"
      /\ c \in Checkpoint
  BY <1>1, <1>4, <1>5 DEF Checkpoint, Statuses, Unfinished
<1>7. StoredTypes'
  BY <1>1, <1>2, <1>3, <1>5, <1>6 DEF StoredTypes, Overlap, Exhausted
<1>8. Alike(c, cp)
  BY <1>4, <1>6 DEF Alike, Running
<1>9. Begun(c)
  <2>1. c.status # "ABSENT"
    BY <1>6
  <2>2. QED
    BY <1>4, <1>6, <2>1 DEF Begun
<1>10. Verified(c)'
  <2>1. ReceiptsProve(PagesOf(cp.gen), c)
    BY <1>4, <1>8, SameProof DEF Verified
  <2>2. QED
    BY <1>2, <1>4, <1>6, <2>1 DEF Verified, PagesOf, CurrentBinds
<1>11. Sound'
  BY <1>3, <1>5, <1>6, <1>9, <1>10, ProvenIsSound
<1>12. Drawn'
  BY <1>1, <1>2, <1>3, <1>4, <1>5, <1>6 DEF Drawn
<1>13. LocalTypes' /\ Local(p)'
  BY <1>1, <1>2, LeavesClean DEF Leave, Local
<1>14. IsFiniteSet(receipts)' /\ CountTypes'
  BY <1>1, <1>2 DEF BudgetInv, Stored, CountTypes
<1>15. QED
  BY <1>7, <1>11, <1>12, <1>13, <1>14
     DEF Stored, TypeOK, StoredTypes, CountTypes, LocalTypes

(* A page is advanced over keys of its own; the rest of the current state  *)
(* stays.                                                                  *)
LEMMA AdvancedStates ==
  ASSUME NEW rows \in SUBSET Row, states' \in Advanced(rows),
         states \in [Keys -> Payloads \cup {"none"}]
  PROVE  /\ states' \in [Keys -> Payloads \cup {"none"}]
         /\ kind # "history" => \A k \in Keys :
              IF k \in KeysOf(rows) THEN [key |-> k, payload |-> states'[k]] \in rows
              ELSE states'[k] = states[k]
  BY DEF Advanced

LEMMA StopPageKeeps ==
  ASSUME BudgetInv, NEW p \in Procs, StopPage(p), Local(p)
  PROVE  Stored' /\ Local(p)'
<1>1. /\ StoredTypes /\ LocalTypes /\ CountTypes /\ Drawn /\ minted \in Int
      /\ com[p] \in Checkpoint /\ resp[p].rows \in SUBSET Row /\ problem[p] \in Problems
  BY TypeParts, BoundsAssumption DEF BudgetInv, Stored, CountTypes, LocalTypes
<1>2. /\ UNCHANGED <<kind, receipts, minted, upsets>> /\ Leave(p)
      /\ pc[p] = "pagew" /\ problem[p] # "" /\ states' \in Advanced(resp[p].rows)
  BY DEF StopPage
<1>3. PICK c : c = [com[p] EXCEPT !.status = "INCOMPLETE", !.err = problem[p]]
  OBVIOUS
<1>4. cp' = c
  BY <1>3 DEF StopPage
<1>5. cp = com[p] /\ Begun(cp) /\ Running(cp) /\ Verified(cp)
  BY <1>2 DEF Local, Holding
<1>6. /\ c.gen = cp.gen /\ c.page = cp.page /\ c.fetched = cp.fetched
      /\ c.total = cp.total /\ c.reason = cp.reason /\ c.replays = cp.replays
      /\ c.status = "INCOMPLETE" /\ c.err = problem[p] /\ c \in Checkpoint
  BY <1>1, <1>3, <1>5 DEF Checkpoint, Statuses, Unfinished
<1>7. states' \in [Keys -> Payloads \cup {"none"}]
  BY <1>1, <1>2, AdvancedStates DEF StoredTypes
<1>8. (c.err = Exhausted => c.replays = ReplayLimit) /\ (c.err = Overlap => c.replays < ReplayLimit)
  <2>1. problem[p] \in {Overlap, Exhausted} => problem[p] = RepeatProblem(com[p])
    BY <1>2 DEF Local, Checking
  <2>2. cp.replays \in 0..ReplayLimit
    BY <1>1, <1>5 DEF Checkpoint
  <2>3. problem[p] = Exhausted => cp.replays >= ReplayLimit
    BY <1>5, <2>1 DEF RepeatProblem, Overlap, Exhausted
  <2>4. problem[p] = Overlap => ~(cp.replays >= ReplayLimit)
    BY <1>5, <2>1 DEF RepeatProblem, Overlap, Exhausted
  <2>5. ReplayLimit \in Nat
    BY DEF ReplayLimit
  <2>6. QED
    BY <1>6, <2>2, <2>3, <2>4, <2>5
<1>9. StoredTypes'
  BY <1>1, <1>2, <1>4, <1>6, <1>7, <1>8 DEF StoredTypes
<1>10. Begun(c)
  <2>1. c.status # "ABSENT"
    BY <1>6
  <2>2. QED
    BY <1>5, <1>6, <2>1 DEF Begun
<1>11. ReceiptsProve(PagesOf(c.gen), c)
  <2>1. Alike(c, cp)
    BY <1>5, <1>6 DEF Alike, Running
  <2>2. QED
    BY <1>5, <1>6, <2>1, SameProof DEF Verified
<1>12. ASSUME problem[p] \notin {Overlap, Exhausted}, kind = "current"
       PROVE  CurrentBinds(PagesOf(c.gen))'
  <2>1. ~Overlaps(p)
    BY <1>2, <1>12 DEF Local, Checking, RepeatProblem
  <2>2. CurrentBinds(PagesOf(c.gen))
    BY <1>5, <1>6, <1>12 DEF Verified
  <2>3. UNION {r.rows : r \in PagesOf(c.gen)} \in SUBSET Row
    BY <1>1 DEF StoredTypes, Receipt, PagesOf
  <2>4. \A i \in UNION {r.rows : r \in PagesOf(c.gen)} :
          i.key \in Keys /\ i.key \notin KeysOf(resp[p].rows)
    BY <1>5, <1>6, <2>1, <2>3 DEF Row, Overlaps, KeysOf, ItemsOf
  <2>5. \A k \in Keys : k \notin KeysOf(resp[p].rows) => states'[k] = states[k]
    BY <1>1, <1>2, <1>12, AdvancedStates DEF StoredTypes
  <2>6. QED
    BY <1>2, <2>2, <2>4, <2>5 DEF CurrentBinds, PagesOf
<1>13. WriterMeetsVerifier'
  <2> SUFFICES ASSUME cp'.status # "ABSENT", cp'.err \notin {Overlap, Exhausted}
               PROVE  Verified(cp)'
    BY DEF WriterMeetsVerifier, Closed
  <2>1. ReceiptsProve(PagesOf(cp.gen), cp)'
    BY <1>2, <1>4, <1>11 DEF PagesOf
  <2>2. kind' = "current" => CurrentBinds(PagesOf(cp.gen))'
    BY <1>2, <1>4, <1>6, <1>12 DEF CurrentBinds, PagesOf
  <2>3. QED
    BY <2>1, <2>2 DEF Verified
<1>14. Sound'
  BY <1>4, <1>6, <1>10, <1>13 DEF Sound, Begun
<1>15. Drawn'
  BY <1>1, <1>2, <1>4, <1>5, <1>6 DEF Drawn
<1>16. LocalTypes' /\ Local(p)'
  BY <1>1, <1>2, LeavesClean DEF Leave, Local
<1>17. IsFiniteSet(receipts)' /\ CountTypes'
  BY <1>1, <1>2 DEF BudgetInv, Stored, CountTypes
<1>18. QED
  BY <1>9, <1>14, <1>15, <1>16, <1>17
     DEF Stored, TypeOK, StoredTypes, CountTypes, LocalTypes

(* Reconciliation removes only keys the complete generation has not seen.  *)
LEMMA ReconcileKeeps ==
  ASSUME BudgetInv, NEW p \in Procs, Reconcile(p), Local(p)
  PROVE  Stored' /\ Local(p)'
<1>1. StoredTypes /\ LocalTypes /\ CountTypes /\ Drawn
  BY TypeParts DEF BudgetInv, Stored
<1>2. UNCHANGED <<kind, cp, receipts, minted, upsets>> /\ Leave(p)
  BY DEF Reconcile
<1>3. /\ states' \in [Keys -> Payloads \cup {"none"}]
      /\ \A k \in Keys : k \in KeysOf(ItemsOf(cp.gen)) => states'[k] = states[k]
  BY <1>1 DEF Reconcile, StoredTypes
<1>4. StoredTypes'
  BY <1>1, <1>2, <1>3 DEF StoredTypes
<1>5. CurrentBinds(PagesOf(cp.gen)) => CurrentBinds(PagesOf(cp.gen))'
  <2>1. UNION {r.rows : r \in PagesOf(cp.gen)} \in SUBSET Row
    BY <1>1 DEF StoredTypes, Receipt, PagesOf
  <2>2. \A i \in UNION {r.rows : r \in PagesOf(cp.gen)} :
          i.key \in Keys /\ i.key \in KeysOf(ItemsOf(cp.gen))
    BY <2>1 DEF Row, KeysOf, ItemsOf
  <2>3. QED
    BY <1>2, <1>3, <2>2 DEF CurrentBinds, PagesOf
<1>6. WriterMeetsVerifier'
  <2> SUFFICES ASSUME cp'.status # "ABSENT", cp'.err # Overlap, ~Closed(cp)',
                      PagesOf(cp.gen)' # {} \/ cp'.page = 1
               PROVE  Verified(cp)'
    BY DEF WriterMeetsVerifier
  <2>1. Verified(cp)
    BY <1>2 DEF BudgetInv, Stored, Sound, WriterMeetsVerifier, PagesOf, Closed
  <2>2. QED
    BY <1>2, <1>5, <2>1 DEF Verified, PagesOf
<1>7. Sound' /\ Drawn' /\ IsFiniteSet(receipts)' /\ CountTypes'
  BY <1>1, <1>2, <1>6 DEF BudgetInv, Stored, Sound, Begun, Drawn, CountTypes
<1>8. LocalTypes' /\ Local(p)'
  BY <1>1, <1>2, LeavesClean DEF Leave, Local
<1>9. QED
  BY <1>4, <1>7, <1>8 DEF Stored, TypeOK, StoredTypes, CountTypes, LocalTypes

LEMMA CompactKeeps ==
  ASSUME BudgetInv, NEW p \in Procs, Compact(p)
  PROVE  Stored' /\ Local(p)'
<1>1. LocalTypes /\ CountTypes /\ Drawn /\ minted \in Int
  BY TypeParts DEF BudgetInv, Stored, CountTypes
<1>2. UNCHANGED <<kind, cp, states, minted, upsets>> /\ Leave(p)
  BY DEF Compact
<1>3. CASE receipts' = {}
  <2>1. StoredTypes' /\ Sound' /\ IsFiniteSet(receipts)'
    BY <1>2, <1>3, ClearedIsSound
  <2>2. Drawn' /\ CountTypes'
    BY <1>1, <1>2, <1>3 DEF Drawn, CountTypes
  <2>3. LocalTypes' /\ Local(p)'
    BY <1>1, <1>2, LeavesClean DEF Leave, Local
  <2>4. QED
    BY <2>1, <2>2, <2>3 DEF Stored, TypeOK, StoredTypes, CountTypes, LocalTypes
<1>4. CASE receipts' = receipts
  BY <1>2, <1>4, GivesUpKeeps DEF durable
<1>5. QED
  BY <1>3, <1>4 DEF Compact

(* The other writers: a region moves current rows, and a scope that is     *)
(* closed is no longer held against its receipts.                          *)
LEMMA ReadRegionsKeeps ==
  ASSUME BudgetInv, NEW p \in Procs, ReadRegions(p)
  PROVE  Stored' /\ Local(p)'
<1>1. StoredTypes /\ LocalTypes /\ CountTypes /\ Drawn /\ minted \in Int
  BY TypeParts DEF BudgetInv, Stored, CountTypes
<1>2. UNCHANGED <<kind, cp, receipts, minted, upsets, local>> /\ cp.err = Exhausted
  BY DEF ReadRegions
<1>3. states' \in [Keys -> Payloads \cup {"none"}]
  BY <1>1 DEF ReadRegions, Moves, StoredTypes
<1>4. pc' = pc \/ pc' = [pc EXCEPT ![p] = "mark"]
  BY DEF ReadRegions, Go
<1>5. pc'[p] \in {"idle", "mark"}
  BY <1>1, <1>4 DEF ReadRegions, LocalTypes
<1>6. StoredTypes' /\ LocalTypes' /\ CountTypes'
  BY <1>1, <1>2, <1>3, <1>4 DEF StoredTypes, LocalTypes, CountTypes, local
<1>7. Sound'
  BY <1>2 DEF BudgetInv, Stored, Sound, Begun, WriterMeetsVerifier, Closed
<1>8. Drawn' /\ IsFiniteSet(receipts)'
  BY <1>1, <1>2 DEF BudgetInv, Stored, Drawn
<1>9. Local(p)'
  BY <1>5 DEF Local, Claiming, Holding, Checking, Removing
<1>10. QED
  BY <1>6, <1>7, <1>8, <1>9 DEF Stored, TypeOK, StoredTypes, CountTypes, LocalTypes

LEMMA ClosedIsSound ==
  ASSUME BudgetInv, cp.status \in Unfinished, UNCHANGED <<kind, minted>>,
         receipts' \subseteq receipts, states' \in [Keys -> Payloads \cup {"none"}],
         \/ cp' = [cp EXCEPT !.status = "PARTITION_COMPLETE", !.err = Partitioned]
         \/ cp' = [cp EXCEPT !.status = "SUPERSEDED", !.err = Overtaken]
  PROVE  StoredTypes' /\ Drawn' /\ Sound' /\ IsFiniteSet(receipts)'
<1>1. StoredTypes /\ Drawn /\ IsFiniteSet(receipts) /\ Begun(cp) /\ cp \in Checkpoint
  BY TypeParts DEF BudgetInv, Stored, Sound, Unfinished, StoredTypes
<1>2. /\ cp'.gen = cp.gen /\ cp'.page = cp.page /\ cp' \in Checkpoint
      /\ cp'.status \in {"PARTITION_COMPLETE", "SUPERSEDED"}
      /\ cp'.err \notin {Overlap, Exhausted}
  BY <1>1 DEF Checkpoint, Statuses, Partitioned, Overtaken, Overlap, Exhausted
<1>3. StoredTypes'
  BY <1>1, <1>2 DEF StoredTypes
<1>4. Begun(cp)' /\ cp'.status # "COMPLETE" /\ Closed(cp)'
  BY <1>1, <1>2 DEF Begun, Closed
<1>5. Sound'
  BY <1>4 DEF Sound, WriterMeetsVerifier
<1>6. Drawn' /\ IsFiniteSet(receipts)'
  BY <1>1, <1>2, FS_Subset DEF Drawn
<1>7. QED
  BY <1>3, <1>5, <1>6

LEMMA MarkPartitionKeeps ==
  ASSUME BudgetInv, NEW p \in Procs, MarkPartition(p)
  PROVE  Stored' /\ Local(p)'
<1>1. StoredTypes /\ LocalTypes /\ CountTypes /\ minted \in Int
  BY TypeParts DEF BudgetInv, Stored, CountTypes
<1>2. UNCHANGED <<kind, receipts, states, minted, upsets>> /\ Leave(p)
  BY DEF MarkPartition
<1>3. CASE cp.status \in Unfinished
  <2>1. StoredTypes' /\ Drawn' /\ Sound' /\ IsFiniteSet(receipts)'
    BY <1>1, <1>2, <1>3, ClosedIsSound DEF MarkPartition, StoredTypes
  <2>2. LocalTypes' /\ Local(p)' /\ CountTypes'
    BY <1>1, <1>2, LeavesClean DEF Leave, Local, CountTypes
  <2>3. QED
    BY <2>1, <2>2 DEF Stored, TypeOK, StoredTypes, CountTypes, LocalTypes
<1>4. CASE cp.status \notin Unfinished
  BY <1>2, <1>4, GivesUpKeeps DEF MarkPartition, durable
<1>5. QED
  BY <1>3, <1>4

LEMMA SupersedeKeeps ==
  ASSUME BudgetInv, Supersede
  PROVE  BudgetInv'
<1>1. StoredTypes /\ LocalTypes /\ CountTypes
  BY TypeParts DEF BudgetInv, Stored
<1>2. /\ UNCHANGED <<kind, minted, pc, local>> /\ cp.status \in Unfinished
      /\ receipts' = {} /\ upsets < MaxUpsets /\ upsets' = upsets + 1
      /\ cp' = [cp EXCEPT !.status = "SUPERSEDED", !.err = Overtaken]
      /\ \A p \in Procs : pc'[p] = "idle"
  BY DEF Supersede, Upset
<1>3. states' \in [Keys -> Payloads \cup {"none"}]
  BY DEF Supersede, Moves
<1>4. StoredTypes' /\ Drawn' /\ Sound' /\ IsFiniteSet(receipts)'
  BY <1>2, <1>3, ClosedIsSound
<1>5. LocalTypes' /\ CountTypes'
  BY <1>1, <1>2, BoundsAssumption DEF LocalTypes, CountTypes, local
<1>6. Alone' /\ \A p \in Procs : Local(p)'
  BY <1>2 DEF Alone, Local, Claiming, Holding, Checking, Removing
<1>7. QED
  BY <1>4, <1>5, <1>6 DEF BudgetInv, Stored, TypeOK, StoredTypes, CountTypes, LocalTypes

(* A committed page extends the proof.                                     *)
LEMMA ReceiptTyped ==
  ASSUME NEW p \in Procs, Proper(p)
  PROVE  NewReceipt(p) \in Receipt /\ Fetched(p) \in Nat
         /\ PageTotal(com[p], resp[p]) \in Int /\ ReasonOf(p) \in Reasons
<1>1. /\ com[p].page \in Nat /\ com[p].fetched \in Nat /\ com[p].total \in Int
      /\ com[p].gen \in 1..MaxGens /\ com[p].page >= 1
      /\ resp[p].rows \in SUBSET Row /\ resp[p].total \in Nat
  <2>1. com[p].page \in Nat /\ com[p].fetched \in Nat /\ com[p].total \in Int
    BY DEF Proper, Checkpoint
  <2>2. QED
    BY <2>1 DEF Proper, Begun
<1>2. ReasonOf(p) \in Reasons
  BY DEF ReasonOf, DoneReason, Reasons
<1>3. PageTotal(com[p], resp[p]) \in Int
  BY <1>1 DEF PageTotal
<1>4. Cardinality(resp[p].rows) \in Nat
  BY <1>1, RowsFinite
<1>5. Fetched(p) \in Nat
  BY <1>1, <1>4 DEF Fetched
<1>6. com[p].page \in Nat \ {0}
  BY <1>1
<1>7. QED
  BY <1>1, <1>2, <1>3, <1>5, <1>6, Zenon DEF NewReceipt, Receipt

LEMMA NextCommittedFields ==
  ASSUME NEW p \in Procs, Proper(p)
  PROVE  /\ NextCommitted(p).gen = com[p].gen /\ NextCommitted(p).err = com[p].err
         /\ NextCommitted(p).replays = com[p].replays
         /\ NextCommitted(p).page = com[p].page + 1
         /\ NextCommitted(p).status = IF ReasonOf(p) = "" THEN "RUNNING" ELSE "COMPLETE"
         /\ NextCommitted(p).reason = ReasonOf(p)
         /\ Reaches(p, NextCommitted(p)) /\ NextCommitted(p) \in Checkpoint
<1> DEFINE c == NextCommitted(p)
           s == IF ReasonOf(p) = "" THEN "RUNNING" ELSE "COMPLETE"
<1>1. com[p] \in Checkpoint /\ com[p].page \in Nat
  BY DEF Proper, Checkpoint
<1>2. /\ c.gen = com[p].gen /\ c.err = com[p].err /\ c.replays = com[p].replays
      /\ c.page = com[p].page + 1
      /\ c.total = PageTotal(com[p], resp[p]) /\ c.fetched = Fetched(p)
      /\ c.reason = ReasonOf(p) /\ c.status = s
  BY <1>1 DEF NextCommitted, Checkpoint
<1>3. com[p].page + 1 \in Nat
  BY <1>1
<1>4. s \in Statuses
  BY DEF Statuses, Unfinished
<1>5. c \in Checkpoint
  BY <1>1, <1>3, <1>4, ReceiptTyped DEF NextCommitted, Checkpoint
<1>6. Reaches(p, c)
  BY <1>2 DEF Reaches
<1>7. QED
  BY <1>2, <1>5, <1>6

LEMMA CommitPageKeeps ==
  ASSUME BudgetInv, NEW p \in Procs, CommitPage(p), Local(p)
  PROVE  Stored' /\ Local(p)'
<1>1. /\ StoredTypes /\ LocalTypes /\ CountTypes /\ Drawn /\ minted \in Int
      /\ com[p] \in Checkpoint /\ resp[p].rows \in SUBSET Row /\ resp[p].total \in Nat
      /\ full[p] \in BOOLEAN /\ IsFiniteSet(receipts)
  BY TypeParts, BoundsAssumption DEF BudgetInv, Stored, CountTypes, LocalTypes
<1>2. UNCHANGED <<kind, minted, upsets>> /\ pc[p] = "pagew" /\ problem[p] = ""
  BY DEF CommitPage
<1>3. cp = com[p] /\ Begun(cp) /\ Running(cp) /\ Verified(cp)
  BY <1>2 DEF Local, Holding
<1>4. CASE KeyConflict(p)
  <2>1. Go(p, "failing") /\ UNCHANGED <<cp, receipts, states, local>>
    BY <1>4 DEF CommitPage
  <2>2. QED
    BY <1>2, <2>1, FailsKeeps DEF durable
<1>5. CASE ~KeyConflict(p)
  <2>1. /\ states' \in Advanced(resp[p].rows)
        /\ receipts' = receipts \cup {NewReceipt(p)}
        /\ cp' = NextCommitted(p)
    BY <1>5 DEF CommitPage
  <2>2. Proper(p)
    <3>1. full[p] = HasFull(PagesOf(com[p].gen))
      <4>1. HasFull(PagesOf(com[p].gen)) \in BOOLEAN
        BY DEF HasFull
      <4>2. QED
        BY <1>1, <1>2, <4>1 DEF Local, Holding
    <3>2. SourceProblem(com[p], resp[p]) = ""
      BY <1>2 DEF Local, Checking
    <3>3. ReceiptsProve(PagesOf(com[p].gen), com[p])
      BY <1>3 DEF Verified
    <3>4. QED
      BY <1>1, <1>3, <1>5, <3>1, <3>2, <3>3 DEF Proper, Running
  <2>3. PICK c : c = NextCommitted(p)
    OBVIOUS
  <2>4. /\ c.gen = cp.gen /\ c.err = "" /\ c.page = com[p].page + 1
        /\ c.status = IF ReasonOf(p) = "" THEN "RUNNING" ELSE "COMPLETE"
        /\ c.reason = ReasonOf(p) /\ Reaches(p, c) /\ c \in Checkpoint
    BY <1>3, <2>2, <2>3, NextCommittedFields DEF Running
  <2>5. cp' = c
    BY <2>1, <2>3
  <2>6. Begun(c)
    <3>1. c.status # "ABSENT"
      BY <2>4
    <3>2. com[p].page \in Nat
      BY <1>1 DEF Checkpoint
    <3>3. c.page >= 1
      <4>1. c.page = com[p].page + 1
        BY <2>4
      <4>2. QED
        BY <3>2, <4>1
    <3>4. QED
      BY <1>3, <2>4, <3>1, <3>3 DEF Begun
  <2>7. {r \in receipts' : r.gen = cp.gen} = PagesOf(cp.gen) \cup {NewReceipt(p)}
    BY <1>3, <2>1 DEF PagesOf, NewReceipt
  <2>8. ReceiptsProve(PagesOf(c.gen)', c)
    <3>1. ReceiptsProve(PagesOf(com[p].gen) \cup {NewReceipt(p)}, c)
      BY <1>1, <2>2, <2>4, ProofExtends DEF StoredTypes
    <3>2. PagesOf(c.gen)' = PagesOf(com[p].gen) \cup {NewReceipt(p)}
      BY <1>3, <2>4, <2>7 DEF PagesOf
    <3>3. QED
      BY <3>1, <3>2
  <2>9. /\ states' \in [Keys -> Payloads \cup {"none"}]
        /\ kind = "current" => \A k \in Keys :
             IF k \in KeysOf(resp[p].rows)
             THEN [key |-> k, payload |-> states'[k]] \in resp[p].rows
             ELSE states'[k] = states[k]
    BY <1>1, <2>1, AdvancedStates DEF StoredTypes
  <2>10. ASSUME kind = "current", NEW r \in PagesOf(c.gen)', NEW i \in r.rows
         PROVE  states'[i.key] = i.payload
    <3>1. r \in PagesOf(cp.gen) \/ r = NewReceipt(p)
      BY <2>4, <2>7, <2>10 DEF PagesOf
    <3>2. CASE r \in PagesOf(cp.gen)
      <4>1. states[i.key] = i.payload
        BY <1>3, <2>10, <3>2 DEF Verified, CurrentBinds
      <4>2. i.key \in Keys
        BY <1>1, <2>10, <3>2 DEF StoredTypes, Receipt, PagesOf, Row
      <4>3. i.key \notin KeysOf(resp[p].rows)
        BY <1>3, <1>5, <2>10, <3>2 DEF KeyConflict, ItemsOf, KeysOf
      <4>4. QED
        BY <2>9, <2>10, <4>1, <4>2, <4>3
    <3>3. CASE r = NewReceipt(p)
      <4>1. i \in resp[p].rows /\ i \in Row
        BY <1>1, <2>10, <3>3 DEF NewReceipt
      <4>2. i.key \in Keys /\ i.key \in KeysOf(resp[p].rows)
        BY <4>1 DEF Row, KeysOf
      <4>3. PICK j \in resp[p].rows : j = [key |-> i.key, payload |-> states'[i.key]]
        BY <2>9, <2>10, <4>2
      <4>4. j.key = i.key /\ j.payload = states'[i.key]
        BY <4>3
      <4>5. j = i
        BY <1>1, <2>2, <4>1, <4>4, PageFits, KeysDistinct
      <4>6. QED
        BY <4>4, <4>5
    <3>4. QED
      BY <3>1, <3>2, <3>3
  <2>11. Verified(c)'
    BY <1>2, <2>8, <2>10 DEF Verified, CurrentBinds, PagesOf
  <2>12. Sound'
    BY <2>4, <2>5, <2>6, <2>11, ProvenIsSound
  <2>13. StoredTypes'
    <3>1. receipts' \subseteq Receipt
      BY <1>1, <2>1, <2>2, ReceiptTyped DEF StoredTypes
    <3>2. cp'.err = "" /\ cp' \in Checkpoint
      BY <2>4, <2>5
    <3>3. QED
      BY <1>1, <1>2, <2>9, <3>1, <3>2 DEF StoredTypes, Overlap, Exhausted
  <2>14. Drawn'
    <3>1. NewReceipt(p).gen = cp.gen
      BY <1>3 DEF NewReceipt
    <3>2. QED
      BY <1>1, <1>2, <2>1, <2>4, <2>5, <3>1 DEF Drawn
  <2>15. IsFiniteSet(receipts)' /\ CountTypes'
    BY <1>1, <1>2, <2>1, FS_AddElement DEF CountTypes
  <2>16. CASE ReasonOf(p) = ""
    <3>1. /\ com' = [com EXCEPT ![p] = c] /\ Go(p, "loop")
          /\ full' = [full EXCEPT ![p] = @ \/ Cardinality(resp[p].rows) = Size]
          /\ resp' = [resp EXCEPT ![p] = NoResponse]
          /\ UNCHANGED <<obs, replay, problem>>
      BY <1>5, <2>3, <2>16 DEF CommitPage
    <3>2. pc'[p] = "loop" /\ pc' = [pc EXCEPT ![p] = "loop"] /\ com'[p] = c
      BY <1>1, <3>1 DEF Go, LocalTypes
    <3>3. LocalTypes'
      <4>1. com' \in [Procs -> Checkpoint]
        BY <1>1, <2>4, <3>1 DEF LocalTypes
      <4>2. full' \in [Procs -> BOOLEAN]
        BY <1>1, <3>1 DEF LocalTypes
      <4>3. resp' \in [Procs -> [rows : SUBSET Row, total : Nat]]
        BY <1>1, <3>1, BlankTyped DEF LocalTypes
      <4>4. pc' \in [Procs -> {"idle", "verify", "clear", "start", "opened", "loop", "page",
                               "pagew", "failing", "failw", "reconcile", "compact", "mark"}]
        BY <1>1, <3>2 DEF LocalTypes
      <4>5. QED
        BY <1>1, <3>1, <4>1, <4>2, <4>3, <4>4 DEF LocalTypes
    <3>4. Running(c)
      BY <2>4, <2>16 DEF Running, Unended
    <3>5. full'[p] <=> HasFull(PagesOf(com[p].gen))'
      <4>1. PagesOf(com[p].gen)' = PagesOf(com[p].gen) \cup {NewReceipt(p)}
        BY <1>3, <2>4, <2>7, <3>2 DEF PagesOf
      <4>2. NewReceipt(p).rows = resp[p].rows
        BY DEF NewReceipt
      <4>3. HasFull(PagesOf(com[p].gen))'
              <=> HasFull(PagesOf(com[p].gen)) \/ Cardinality(resp[p].rows) = Size
        BY <4>1, <4>2 DEF HasFull
      <4>4. full'[p] <=> full[p] \/ Cardinality(resp[p].rows) = Size
        BY <1>1, <3>1, Zenon DEF LocalTypes
      <4>5. full[p] <=> HasFull(PagesOf(com[p].gen))
        BY <1>2 DEF Local, Holding
      <4>6. QED
        BY <4>3, <4>4, <4>5
    <3>6. Holding(p)'
      <4>1. Verified(cp)'
        BY <2>5, <2>11 DEF Verified
      <4>2. Begun(cp)' /\ Running(cp)' /\ cp' = com'[p]
        BY <2>5, <2>6, <3>2, <3>4 DEF Begun, Running, Unended
      <4>3. QED
        BY <3>2, <3>5, <4>1, <4>2 DEF Holding
    <3>7. Claiming(p)' /\ Checking(p)' /\ Removing(p)'
      BY <3>2 DEF Claiming, Checking, Removing
    <3>8. QED
      BY <2>12, <2>13, <2>14, <2>15, <3>3, <3>6, <3>7
         DEF Stored, TypeOK, StoredTypes, CountTypes, LocalTypes, Local
  <2>17. CASE ReasonOf(p) # ""
    <3>1. LeaveTo(p, IF kind = "current" THEN "reconcile" ELSE "compact")
      BY <1>5, <2>17 DEF CommitPage
    <3>2. LocalTypes' /\ Claiming(p)' /\ Holding(p)' /\ Checking(p)'
          /\ (kind # "current" => Removing(p)')
      BY <1>1, <3>1, LeavesClean
    <3>3. kind = "current" => Removing(p)'
      <4>1. Verified(cp)'
        BY <2>5, <2>11 DEF Verified
      <4>2. cp'.status = "COMPLETE"
        BY <2>4, <2>5, <2>17
      <4>3. QED
        BY <1>2, <4>1, <4>2 DEF Removing
    <3>4. QED
      BY <2>12, <2>13, <2>14, <2>15, <3>2, <3>3
         DEF Stored, TypeOK, StoredTypes, CountTypes, LocalTypes, Local
  <2>18. QED
    BY <2>16, <2>17
<1>6. QED
  BY <1>4, <1>5

-----------------------------------------------------------------------------
(* The invariant.                                                          *)

LEMMA InitInv == Init => BudgetInv
<1> SUFFICES ASSUME Init PROVE BudgetInv
  OBVIOUS
<1>1. NoCp \in Checkpoint /\ NoResponse \in [rows : SUBSET Row, total : Nat]
  BY BlankTyped
<1>2. states \in [Keys -> Payloads \cup {"none"}]
  <2>1. PICK payload \in {"none", Old} : states = [k \in Keys |-> payload]
    BY DEF Init
  <2>2. payload \in Payloads \cup {"none"}
    BY DataAssumption
  <2>3. QED
    BY <2>1, <2>2
<1>3. StoredTypes
  BY <1>1, <1>2 DEF Init, StoredTypes, NoCp, Overlap, Exhausted
<1>4. CountTypes
  <2>1. minted = 0 /\ upsets = 0
    BY DEF Init
  <2>2. QED
    BY <2>1, BoundsAssumption DEF CountTypes
<1>5. LocalTypes
  BY <1>1 DEF Init, LocalTypes, Problems
<1>6. Drawn
  <2>1. cp.gen = 0 /\ minted = 0 /\ receipts = {}
    BY DEF Init, NoCp
  <2>2. QED
    BY <2>1 DEF Drawn
<1>7. cp.status = "ABSENT"
  BY DEF Init, NoCp
<1>8. Sound /\ IsFiniteSet(receipts)
  BY <1>7, FS_EmptySet DEF Init, Sound, WriterMeetsVerifier
<1>9. \A p \in Procs : pc[p] = "idle"
  BY DEF Init
<1>10. Alone /\ \A p \in Procs : Local(p)
  BY <1>9 DEF Alone, Local, Claiming, Holding, Checking, Removing
<1>11. QED
  BY <1>3, <1>4, <1>5, <1>6, <1>8, <1>10, TypeParts DEF BudgetInv, Stored

(* Whoever steps is alone, and moves nobody else.                          *)
LEMMA StepsAlone ==
  ASSUME Exclusive, BudgetInv, NEW p \in Procs,
         \/ \E resume \in BOOLEAN : Lookup(p, resume)
         \/ Work(p) \/ ReadRegions(p)
         \/ SpendPageBudget(p) \/ Interrupt(p) \/ Crash(p)
  PROVE  Only(p) /\ \A q \in Procs \ {p} : pc'[q] = pc[q]
<1>1. LocalTypes /\ Alone
  BY TypeParts DEF BudgetInv, Stored
<1>2. CASE \E resume \in BOOLEAN : Lookup(p, resume)
  <2>1. Only(p)
    BY <1>2 DEF Lookup, LeaseFree, Only
  <2>2. \A q \in Procs \ {p} : pc'[q] = pc[q]
    BY <1>1, <1>2 DEF Lookup, NewScope, Go, LocalTypes
  <2>3. QED
    BY <2>1, <2>2
<1>3. CASE ReadRegions(p)
  BY <1>1, <1>3 DEF ReadRegions, LeaseFree, Only, Go, LocalTypes
<1>4. CASE Work(p) \/ SpendPageBudget(p) \/ Interrupt(p) \/ Crash(p)
  <2>1. pc[p] # "idle"
    BY <1>4 DEF Work, Verify, Clear, Start, ScanFullPage, Fetch, PageRead, StopPage,
                CommitPage, FailRead, FailWrite, Reconcile, Compact, MarkPartition,
                SpendPageBudget, Interrupt, Crash
  <2>2. Only(p)
    BY <1>1, <2>1 DEF Alone, Only
  <2>3. \E at : pc' = [pc EXCEPT ![p] = at]
    <3>1. CASE Verify(p) \/ Clear(p) \/ Start(p) \/ ScanFullPage(p) \/ Fetch(p)
      BY <3>1 DEF Verify, Clear, Start, ScanFullPage, Fetch, NewScope, Leave, LeaveTo, Go
    <3>2. CASE PageRead(p) \/ StopPage(p) \/ CommitPage(p) \/ FailRead(p) \/ FailWrite(p)
      BY <3>2 DEF PageRead, StopPage, CommitPage, FailRead, FailWrite, Leave, LeaveTo, Go
    <3>3. CASE Reconcile(p) \/ Compact(p) \/ MarkPartition(p) \/ SpendPageBudget(p)
               \/ Interrupt(p) \/ Crash(p)
      BY <3>3 DEF Reconcile, Compact, MarkPartition, SpendPageBudget, Interrupt, Crash,
                  Leave, LeaveTo, Go
    <3>4. QED
      BY <1>4, <3>1, <3>2, <3>3 DEF Work
  <2>4. QED
    BY <1>1, <2>2, <2>3 DEF LocalTypes
<1>5. QED
  BY <1>2, <1>3, <1>4

LEMMA StepKeeps ==
  ASSUME BudgetInv, NEW p \in Procs,
         \/ \E resume \in BOOLEAN : Lookup(p, resume)
         \/ Work(p) \/ ReadRegions(p)
         \/ SpendPageBudget(p) \/ Interrupt(p) \/ Crash(p)
  PROVE  Stored' /\ Local(p)'
<1>1. Local(p)
  BY DEF BudgetInv
<1>2. CASE \E resume \in BOOLEAN : Lookup(p, resume)
  BY <1>2, LookupKeeps
<1>3. CASE Work(p)
  BY <1>1, <1>3, VerifyKeeps, ClearKeeps, StartKeeps, ScanFullPageKeeps, FetchKeeps,
     PageReadKeeps, StopPageKeeps, CommitPageKeeps, FailReadKeeps, FailWriteKeeps,
     ReconcileKeeps, CompactKeeps, MarkPartitionKeeps DEF Work
<1>4. CASE SpendPageBudget(p)
  <2>1. Leave(p) /\ UNCHANGED <<durable, minted>> /\ upsets' = upsets
    BY <1>4 DEF SpendPageBudget
  <2>2. QED
    BY <2>1, GivesUpKeeps
<1>5. CASE Crash(p)
  <2>1. Leave(p) /\ UNCHANGED <<durable, minted>> /\ Upset
    BY <1>5 DEF Crash
  <2>2. QED
    BY <2>1, GivesUpKeeps
<1>6. CASE Interrupt(p)
  <2>1. /\ pc[p] \in {"loop", "page", "pagew", "failing"} /\ Go(p, "failing")
        /\ UNCHANGED <<durable, minted, local>> /\ Upset
    BY <1>6 DEF Interrupt
  <2>2. QED
    BY <1>1, <2>1, FailsKeeps
<1>7. CASE ReadRegions(p)
  BY <1>7, ReadRegionsKeeps
<1>8. QED
  BY <1>2, <1>3, <1>4, <1>5, <1>6, <1>7

LEMMA NextInv ==
  ASSUME Exclusive, BudgetInv, [Next]_vars
  PROVE  BudgetInv'
<1>1. CASE UNCHANGED vars
  <2>1. /\ UNCHANGED durable /\ UNCHANGED <<minted, upsets, pc, obs, com, replay, resp>>
        /\ UNCHANGED <<problem, full>> /\ UNCHANGED <<kind, cp, receipts, states>>
    BY <1>1 DEF vars, durable, local
  <2>2. Stored'
    BY <2>1 DEF BudgetInv, Stored, TypeOK, Drawn, Sound, Begun, WriterMeetsVerifier,
                Closed, Verified, CurrentBinds, PagesOf
  <2>3. Alone'
    BY <2>1 DEF BudgetInv, Alone
  <2>4. ASSUME NEW p \in Procs PROVE Local(p)'
    <3>1. Local(p)
      BY DEF BudgetInv
    <3>2. Claiming(p)'
      BY <2>1, <3>1 DEF Local, Claiming, Begun, Running, Unended, Blank, Closed, Afresh,
                        Verified, CurrentBinds, PagesOf
    <3>3. Holding(p)'
      BY <2>1, <3>1 DEF Local, Holding, Begun, Running, Unended, Verified, CurrentBinds,
                        PagesOf, HasFull
    <3>4. Checking(p)'
      BY <2>1, <3>1 DEF Local, Checking, Overlaps, ItemsOf, PagesOf, SourceProblem,
                        PageTotal, RepeatProblem
    <3>5. Removing(p)'
      BY <2>1, <3>1 DEF Local, Removing, Verified, CurrentBinds, PagesOf
    <3>6. QED
      BY <3>2, <3>3, <3>4, <3>5 DEF Local
  <2>5. QED
    BY <2>2, <2>3, <2>4 DEF BudgetInv
<1>2. CASE Supersede
  BY <1>2, SupersedeKeeps
<1>3. CASE Next /\ ~Supersede
  <2>1. PICK p \in Procs :
          \/ \E resume \in BOOLEAN : Lookup(p, resume)
          \/ Work(p) \/ ReadRegions(p)
          \/ SpendPageBudget(p) \/ Interrupt(p) \/ Crash(p)
    BY <1>3 DEF Next
  <2>2. Stored' /\ Local(p)'
    BY <2>1, StepKeeps
  <2>3. \A q \in Procs \ {p} : pc'[q] = "idle"
    BY <2>1, StepsAlone DEF Only
  <2>4. Alone'
    BY <2>3 DEF Alone
  <2>5. ASSUME NEW q \in Procs, q # p PROVE Local(q)'
    <3>1. pc'[q] = "idle"
      BY <2>3, <2>5
    <3>2. QED
      BY <3>1 DEF Local, Claiming, Holding, Checking, Removing
  <2>6. \A q \in Procs : Local(q)'
    BY <2>2, <2>5
  <2>7. QED
    BY <2>2, <2>4, <2>6 DEF BudgetInv
<1>4. QED
  BY <1>1, <1>2, <1>3

THEOREM BudgetInvHolds == ASSUME Exclusive PROVE Spec => []BudgetInv
<1>1. Init => BudgetInv
  BY InitInv
<1>2. BudgetInv /\ [Next]_vars => BudgetInv'
  BY NextInv
<1>3. QED
  BY <1>1, <1>2, PTL DEF Spec

-----------------------------------------------------------------------------
(* The properties.                                                         *)

LEMMA InvGivesProven ==
  ASSUME BudgetInv
  PROVE  PagesAreProven
<1>1. TypeOK /\ WriterMeetsVerifier
  BY DEF BudgetInv, Stored, Sound
<1>2. LoopHasReceipts
  <2> SUFFICES ASSUME NEW p \in Procs, pc[p] \in {"opened", "loop", "page", "pagew"}
               PROVE  /\ {r.page : r \in PagesOf(com[p].gen)} = 1..(com[p].page - 1)
                      /\ Cardinality(ItemsOf(com[p].gen)) = com[p].fetched
    BY DEF LoopHasReceipts
  <2>1. ReceiptsProve(PagesOf(com[p].gen), com[p])
    BY DEF BudgetInv, Local, Holding, Verified
  <2>2. QED
    BY <2>1 DEF ReceiptsProve, ItemsOf
<1>3. CompleteIsCovered
  <2> SUFFICES ASSUME cp.status = "COMPLETE", PagesOf(cp.gen) # {}
               PROVE  /\ {r.page : r \in PagesOf(cp.gen)} = 1..(cp.page - 1)
                      /\ Cardinality(ItemsOf(cp.gen)) = cp.fetched
                      /\ cp.total > 0 => cp.fetched = cp.total
    BY DEF CompleteIsCovered
  <2>1. cp.err # Overlap /\ ~Closed(cp)
    BY DEF BudgetInv, Stored, Sound, Overlap, Exhausted, Closed
  <2>2. ReceiptsProve(PagesOf(cp.gen), cp)
    BY <1>1, <2>1 DEF WriterMeetsVerifier, Verified
  <2>3. cp \in Checkpoint /\ PagesOf(cp.gen) \in SUBSET Receipt
    BY <1>1 DEF TypeOK, PagesOf
  <2>4. QED
    BY <2>2, <2>3, ProvenIsCovered DEF ItemsOf
<1>4. QED
  BY <1>1, <1>2, <1>3 DEF PagesAreProven

(* Under the lease the page loop, the verifier of the next process and the *)
(* complete scope agree, whatever was cleared, replayed, failed or crashed *)
(* before: budget_pg_collection.collect_pages.                             *)
THEOREM PagesAreProvenHolds == ASSUME Exclusive PROVE Spec => []PagesAreProven
<1>1. BudgetInv => PagesAreProven
  BY InvGivesProven
<1>2. QED
  BY <1>1, BudgetInvHolds, PTL

(* What a step does to a row.                                              *)
LEMMA OnlyReconcileRemoves ==
  ASSUME BudgetInv, [Next]_vars, NEW k \in Keys, states[k] # "none", states'[k] = "none"
  PROVE  Supersede \/ \E p \in Procs : Reconcile(p)
<1>1. /\ states \in [Keys -> Payloads \cup {"none"}] /\ "none" \notin Payloads
      /\ \A p \in Procs : resp[p].rows \in SUBSET Row
  BY DataAssumption DEF BudgetInv, Stored, TypeOK
<1>2. ASSUME NEW p \in Procs, states' \in Advanced(resp[p].rows)
      PROVE  FALSE
  <2>1. CASE kind = "history"
    BY <1>2, <2>1 DEF Advanced
  <2>2. CASE kind # "history"
    <3>1. k \in KeysOf(resp[p].rows)
      BY <1>1, <1>2, <2>2, AdvancedStates
    <3>2. [key |-> k, payload |-> "none"] \in Row
      BY <1>1, <1>2, <2>2, <3>1, AdvancedStates
    <3>3. QED
      BY <1>1, <3>2 DEF Row
  <2>3. QED
    BY <2>1, <2>2
<1>3. states' # states
  OBVIOUS
<1>4. Next
  BY <1>3 DEF vars, durable
<1>5. CASE Supersede
  BY <1>5
<1>6. CASE ~Supersede
  <2>1. PICK p \in Procs :
          \/ \E resume \in BOOLEAN : Lookup(p, resume)
          \/ Work(p) \/ ReadRegions(p)
          \/ SpendPageBudget(p) \/ Interrupt(p) \/ Crash(p)
    BY <1>4, <1>6 DEF Next
  <2>2. StopPage(p) \/ CommitPage(p) \/ Reconcile(p) \/ ReadRegions(p)
    BY <1>3, <2>1 DEF Lookup, Work, Verify, Clear, Start, ScanFullPage, Fetch, PageRead,
                      FailRead, FailWrite, Compact, MarkPartition, SpendPageBudget,
                      Interrupt, Crash, durable
  <2>3. ~StopPage(p) /\ ~CommitPage(p)
    BY <1>2, <1>3 DEF StopPage, CommitPage
  <2>4. ~ReadRegions(p)
    BY <1>3 DEF ReadRegions, Moves
  <2>5. QED
    BY <2>2, <2>3, <2>4
<1>7. QED
  BY <1>5, <1>6

LEMMA RemovalStep ==
  ASSUME BudgetInv, [Next]_vars, NEW k \in Keys, states[k] # "none", states'[k] = "none"
  PROVE  \/ /\ cp.status = "COMPLETE" /\ kind = "current"
            /\ Cardinality(ItemsOf(cp.gen)) = cp.fetched
            /\ k \notin KeysOf(ItemsOf(cp.gen))
         \/ cp.status # "SUPERSEDED" /\ cp'.status = "SUPERSEDED"
<1>1. Supersede \/ \E p \in Procs : Reconcile(p)
  BY OnlyReconcileRemoves
<1>2. CASE Supersede
  <2>1. cp \in Checkpoint
    BY DEF BudgetInv, Stored, TypeOK
  <2>2. QED
    BY <1>2, <2>1 DEF Supersede, Checkpoint, Unfinished
<1>3. ASSUME NEW p \in Procs, Reconcile(p)
      PROVE  /\ cp.status = "COMPLETE" /\ kind = "current"
             /\ Cardinality(ItemsOf(cp.gen)) = cp.fetched
             /\ k \notin KeysOf(ItemsOf(cp.gen))
  <2>1. cp.status = "COMPLETE" /\ kind = "current" /\ Verified(cp)
    BY <1>3 DEF Reconcile, BudgetInv, Local, Removing
  <2>2. Cardinality(ItemsOf(cp.gen)) = cp.fetched
    BY <2>1 DEF Verified, ReceiptsProve, ItemsOf
  <2>3. k \notin KeysOf(ItemsOf(cp.gen))
    BY <1>3 DEF Reconcile
  <2>4. QED
    BY <2>1, <2>2, <2>3
<1>4. QED
  BY <1>1, <1>2, <1>3

(* reconcile_complete_fiscal_year removes a current row only when the      *)
(* complete generation, whose receipts are all there, did not contain it;  *)
(* the one of a newer snapshot supersedes this scope.                      *)
THEOREM RemovalIsProvenHolds == ASSUME Exclusive PROVE Spec => RemovalIsProven
<1>1. BudgetInv /\ [Next]_vars =>
        [\A k \in Keys : states[k] # "none" /\ states'[k] = "none" =>
           \/ /\ cp.status = "COMPLETE" /\ kind = "current"
              /\ Cardinality(ItemsOf(cp.gen)) = cp.fetched
              /\ k \notin KeysOf(ItemsOf(cp.gen))
           \/ cp.status # "SUPERSEDED" /\ cp'.status = "SUPERSEDED"]_vars
  BY RemovalStep
<1>2. QED
  BY <1>1, BudgetInvHolds, PTL DEF Spec, RemovalIsProven

LEMMA ClosedStep ==
  ASSUME BudgetInv, [Next]_vars, Closed(cp), cp' # cp
  PROVE  (Closed(cp)' /\ SameCounters(cp', cp)) \/ Afresh(cp', cp)
<1>1. Next /\ cp \in Checkpoint
  BY DEF vars, durable, BudgetInv, Stored, TypeOK
<1>2. CASE Supersede
  BY <1>1, <1>2 DEF Supersede, Checkpoint, Closed, SameCounters
<1>3. CASE ~Supersede
  <2>1. PICK p \in Procs :
          \/ \E resume \in BOOLEAN : Lookup(p, resume)
          \/ Work(p) \/ ReadRegions(p)
          \/ SpendPageBudget(p) \/ Interrupt(p) \/ Crash(p)
    BY <1>1, <1>3 DEF Next
  <2>2. Start(p) \/ StopPage(p) \/ CommitPage(p) \/ FailWrite(p) \/ MarkPartition(p)
    BY <2>1 DEF Lookup, Work, Verify, Clear, ScanFullPage, Fetch, PageRead, FailRead,
                Reconcile, Compact, ReadRegions, SpendPageBudget, Interrupt, Crash, durable
  <2>3. CASE Start(p)
    <3>1. cp' = com[p] /\ pc[p] = "start"
      BY <2>3 DEF Start
    <3>2. QED
      BY <3>1 DEF BudgetInv, Local, Claiming
  <2>4. CASE StopPage(p) \/ CommitPage(p) \/ FailWrite(p)
    <3>1. pc[p] \in {"pagew", "failw"}
      BY <2>4 DEF StopPage, CommitPage, FailWrite
    <3>2. cp.err = "" /\ cp.status = "RUNNING"
      BY <3>1 DEF BudgetInv, Local, Holding, Running
    <3>3. QED
      BY <3>2 DEF Exhausted, Closed
  <2>5. CASE MarkPartition(p)
    BY <1>1, <2>5 DEF MarkPartition, Checkpoint, Closed, SameCounters
  <2>6. QED
    BY <2>2, <2>3, <2>4, <2>5
<1>4. QED
  BY <1>2, <1>3

(* An exhausted scope, marked by mark_partition_complete_checkpoint or     *)
(* superseded or not, keeps its generation and counters until              *)
(* collect_pages reads it from page one in a generation never used before. *)
THEOREM ClosedIsReadAfreshHolds == ASSUME Exclusive PROVE Spec => ClosedIsReadAfresh
<1>1. BudgetInv /\ [Next]_vars =>
        [Closed(cp) => (Closed(cp') /\ SameCounters(cp', cp)) \/ Afresh(cp', cp)]_cp
  BY ClosedStep DEF Closed
<1>2. QED
  BY <1>1, BudgetInvHolds, PTL DEF Spec, ClosedIsReadAfresh

=============================================================================
