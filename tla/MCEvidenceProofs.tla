-------------------------- MODULE MCEvidenceProofs --------------------------
(***************************************************************************)
(* Proofs about what is stored: the delivery rows of ShoppingStore, for    *)
(* any keys, calendar, retention window and batch size; the budget rows of *)
(* StoredBudget, for any payloads, organizations and windows; and the      *)
(* matches of MatchRollover, for any rows, page sizes and limits.          *)
(***************************************************************************)
EXTENDS MCEvidence, FiniteSetTheorems, SequenceTheorems, WellFoundedInduction, TLAPS

-----------------------------------------------------------------------------
(* The delivery rows: the inductive invariant.                             *)
Stati == {"ABSENT", "RUNNING", "FAILED", "COMPLETE"}
RowRecords == [date : Dates, category : Categories, active : BOOLEAN, exists : BOOLEAN]
ScanRecords == [status : Stati, seen : SUBSET Keys, stored : SUBSET Keys]

ShopTypes ==
  /\ TypeOK
  /\ rows \in [Keys -> RowRecords] /\ cps \in [Scopes -> ScanRecords]
  /\ purge = [phase |-> purge.phase, cutoff |-> purge.cutoff, todo |-> purge.todo]
  /\ purge.cutoff \in Int /\ kept \in Int

Scanning == actor \in Scopes => cps[actor].status = "RUNNING"

(* The retention never looks past the day that is kept, lists dates before *)
(* scopes and scopes before rows, and leaves nothing of a kind behind.     *)
Purging ==
  /\ purge.phase # "none" => purge.cutoff <= Cutoff(today)
  /\ purge.phase = "dates" =>
       /\ \A d \in purge.todo : d \in Dates /\ ~Valid(d, FALSE)
       /\ \A k \in Stored : rows[k].date = Malformed => Malformed \in purge.todo
  /\ purge.phase \in {"scopes", "rows"} =>
       /\ \A k \in Stored : rows[k].date # Malformed
       /\ \A s \in purge.todo : s \in Scopes /\ Day(s) < purge.cutoff
       /\ \A s \in Scopes : cps[s].status = "ABSENT" \/ s \in purge.todo \/ Day(s) >= purge.cutoff
  /\ purge.phase = "rows" => purge.todo = {}

Kept == NothingComesBack /\ (kept > 0 => kept <= Cutoff(today))

(* An active smart control row is there because of the replay of its day.  *)
SmartIsListed ==
  \A k \in Keys :
    rows[k].active /\ rows[k].category = "SMART_CONTROL" /\ rows[k].date >= Cutoff(today)
    => \E s \in Scopes : /\ Kind(s) = "smart" /\ Day(s) = rows[k].date /\ cps[s].status # "ABSENT"
                         /\ cps[s].status = "COMPLETE" /\ cps[s].seen # {} => k \in cps[s].stored

(* An inactive row is one that a scan of its day, not purged, did not list. *)
InactiveIsMissing ==
  \A k \in Stored :
    ~rows[k].active /\ rows[k].date >= Cutoff(today)
    => \E s \in Scopes \ Backfills : /\ Covers(s, rows[k]) /\ cps[s].status # "ABSENT"
                                     /\ k \notin cps[s].stored

(* A day whose scans are all complete, none of them empty, shows only what *)
(* one of them listed.                                                     *)
Full(d) ==
  ReadScopes(d) # {} /\ \A s \in ReadScopes(d) : cps[s].status = "COMPLETE" /\ cps[s].seen # {}
Listed ==
  \A d \in Boot..LastDay : d >= Cutoff(today) /\ Full(d) =>
    \A k \in Keys : rows[k].active /\ rows[k].date = d => \E s \in ReadScopes(d) : k \in cps[s].stored

ShopInv ==
  ShopTypes /\ Scanning /\ Purging /\ Kept /\ SmartIsListed /\ InactiveIsMissing /\ Listed

-----------------------------------------------------------------------------
(* Scopes and pages.                                                       *)
LEMMA ScopeFacts ==
  ASSUME NEW s \in Scopes
  PROVE  /\ Kind(s) \in {"day", "smart", "backfill"} /\ Day(s) \in Days /\ Day(s) # Malformed
         /\ s = <<Kind(s), Day(s)>> /\ s # Nobody /\ s # Retention
         /\ s \in Backfills <=> Kind(s) = "backfill"
         /\ s \in Backfills <=> Day(s) < Boot
         /\ Valid(Day(s), FALSE) <=> s \notin Backfills
<1>1. LastDay \in Nat /\ Boot \in Nat \ {0} /\ SmartFrom \in Nat /\ Boot <= SmartFrom
      /\ SmartFrom <= LastDay /\ Boot < LastDay
  BY StoreAssumption
<1>2. PICK kd \in {"day", "smart", "backfill"}, d \in 1..LastDay :
        /\ s = <<kd, d>>
        /\ (kd = "day" /\ d >= Boot) \/ (kd = "smart" /\ d >= SmartFrom)
           \/ (kd = "backfill" /\ d < Boot)
  <2>1. CASE s \in {"day"} \X (Boot..LastDay)
    BY <1>1, <2>1
  <2>2. CASE s \in {"smart"} \X (SmartFrom..LastDay)
    BY <1>1, <2>2
  <2>3. CASE s \in {"backfill"} \X (1..(Boot - 1))
    BY <1>1, <2>3
  <2>4. QED
    BY <2>1, <2>2, <2>3 DEF Scopes
<1>3. Kind(s) = kd /\ Day(s) = d
  BY <1>2 DEF Kind, Day
<1>4. d # Malformed /\ d >= 1
  BY <1>1 DEF Malformed
<1>5. s # Nobody /\ s # Retention
  BY <1>2 DEF Nobody, Retention
<1>6. kd = "backfill" <=> d < Boot
  BY <1>1, <1>2
<1>7. s \in Backfills <=> kd = "backfill"
  BY <1>3 DEF Backfills
<1>8. Valid(d, FALSE) <=> d >= Boot
  BY <1>4 DEF Valid
<1>9. Day(s) \in Days /\ Day(s) # Malformed
  BY <1>3, <1>4 DEF Days
<1>10. Valid(Day(s), FALSE) <=> s \notin Backfills
  <2>1. d >= Boot <=> ~(d < Boot)
    BY <1>1
  <2>2. Day(s) = d
    BY <1>3
  <2>3. Valid(Day(s), FALSE) <=> d >= Boot
    BY <1>8, <2>2
  <2>4. QED
    BY <1>6, <1>7, <2>1, <2>3
<1>11. s = <<Kind(s), Day(s)>> /\ Kind(s) \in {"day", "smart", "backfill"}
  BY <1>2, <1>3
<1>12. s \in Backfills <=> Day(s) < Boot
  BY <1>3, <1>6, <1>7
<1>13. s \in Backfills <=> Kind(s) = "backfill"
  BY <1>3, <1>7
<1>14. QED
  BY <1>5, <1>9, <1>10, <1>11, <1>12, <1>13

(* A page stores a row or leaves it alone.                                 *)
LEMMA PageEffect ==
  ASSUME ShopTypes, NEW s \in Scopes, NEW page \in Pages(s), NEW k \in Keys
  PROVE  \/ /\ k \in Received(s, page).stored
            /\ \E c \in Categories : /\ Preserved(s, page)[k] = Row(Day(s), c)
                                     /\ c = "SMART_CONTROL" => Kind(s) = "smart"
         \/ /\ Preserved(s, page)[k] = rows[k]
            /\ k \in Received(s, page).stored <=> k \in cps[s].stored
<1>1. cps[s] \in ScanRecords
  BY DEF ShopTypes
<1>2. Received(s, page).stored = cps[s].stored \cup {j \in DOMAIN page : Eligible(s, page[j])}
  BY <1>1 DEF Received, ScanRecords
<1>3. Preserved(s, page)[k]
        = IF k \in DOMAIN page /\ Eligible(s, page[k]) THEN Row(Day(s), page[k]) ELSE rows[k]
  BY DEF Preserved
<1>4. CASE k \in DOMAIN page /\ Eligible(s, page[k])
  <2>1. page[k] \in Categories /\ (page[k] = "SMART_CONTROL" => Kind(s) = "smart")
    BY <1>4 DEF Eligible, Categories
  <2>2. QED
    BY <1>2, <1>3, <1>4, <2>1
<1>5. CASE ~(k \in DOMAIN page /\ Eligible(s, page[k]))
  BY <1>2, <1>3, <1>5
<1>6. QED
  BY <1>4, <1>5

LEMMA PageTypes ==
  ASSUME ShopTypes, NEW s \in Scopes, NEW page \in Pages(s)
  PROVE  /\ Preserved(s, page) \in [Keys -> RowRecords]
         /\ Received(s, page) \in ScanRecords
         /\ Received(s, page).status = cps[s].status
         /\ Received(s, page).stored \subseteq Received(s, page).seen
<1>1. cps[s] \in ScanRecords /\ cps[s].stored \subseteq cps[s].seen
  BY DEF ShopTypes, TypeOK
<1>2. DOMAIN page \subseteq Keys
  BY DEF Pages
<1>3. ASSUME NEW k \in Keys PROVE Preserved(s, page)[k] \in RowRecords
  <2>1. rows[k] \in RowRecords
    BY DEF ShopTypes
  <2>2. \A c \in Categories : Row(Day(s), c) \in RowRecords
    BY ScopeFacts DEF Row, RowRecords, Dates
  <2>3. QED
    BY <2>1, <2>2, PageEffect
<1>4. Preserved(s, page) \in [Keys -> RowRecords]
  BY <1>3 DEF Preserved
<1>5. Received(s, page) \in ScanRecords
  BY <1>1, <1>2 DEF Received, ScanRecords
<1>6. Received(s, page).status = cps[s].status
  BY <1>1 DEF Received, ScanRecords
<1>7. Received(s, page).stored \subseteq Received(s, page).seen
  BY <1>1 DEF Received, ScanRecords
<1>8. QED
  BY <1>4, <1>5, <1>6, <1>7

LEMMA RowFields ==
  ASSUME NEW d, NEW c
  PROVE  /\ Row(d, c).date = d /\ Row(d, c).category = c /\ Row(d, c).active = TRUE
         /\ Row(d, c).exists = TRUE /\ NoRow.date = Malformed /\ NoRow.active = FALSE
         /\ NoRow.exists = FALSE
  BY DEF Row, NoRow

-----------------------------------------------------------------------------
(* Steps that touch neither rows nor checkpoints.                          *)
LEMMA CutoffGrows ==
  ASSUME ShopTypes, today' \in Int, today' >= today
  PROVE  Cutoff(today) \in Int /\ Cutoff(today)' \in Int /\ Cutoff(today)' >= Cutoff(today)
<1>1. today \in Int /\ Window \in Int
  BY StoreAssumption DEF ShopTypes, TypeOK, Days
<1>2. Cutoff(today) = today - Window /\ Cutoff(today)' = today' - Window
  BY DEF Cutoff
<1>3. Cutoff(today) \in Int
  BY <1>1, <1>2
<1>4. Cutoff(today)' \in Int
  BY <1>1, <1>2
<1>5. Cutoff(today)' >= Cutoff(today)
  <2>1. \A x, y, w \in Int : x >= y => x - w >= y - w
    OBVIOUS
  <2>2. today' - Window >= today - Window
    BY <1>1, <2>1
  <2>3. QED
    BY <1>2, <2>2
<1>6. QED
  BY <1>3, <1>4, <1>5

LEMMA StoredStays ==
  ASSUME ShopInv, UNCHANGED <<rows, cps, kept>>, today' \in Int, today' >= today
  PROVE  Kept' /\ SmartIsListed' /\ InactiveIsMissing' /\ Listed'
<1> DEFINE cut == Cutoff(today)
<1>1. cut \in Int /\ cut' \in Int /\ cut' >= cut
  BY CutoffGrows DEF ShopInv
<1> HIDE DEF cut
<1>2. \A k \in Keys : rows[k].date \in Int
  BY StoreAssumption DEF ShopInv, ShopTypes, RowRecords, Dates, Days, Malformed
<1>3. Kept'
  <2>1. NothingComesBack'
    BY DEF ShopInv, Kept, NothingComesBack, Stored
  <2>2. (kept > 0 => kept <= cut) /\ kept \in Int
    BY DEF ShopInv, Kept, ShopTypes, cut
  <2>3. kept' > 0 => kept' <= cut'
    BY <1>1, <2>2
  <2>4. QED
    BY <2>1, <2>3 DEF Kept, cut
<1>4. SmartIsListed'
  <2> SUFFICES ASSUME NEW k \in Keys, rows[k].active, rows[k].category = "SMART_CONTROL",
                      rows[k].date >= cut'
               PROVE  \E s \in Scopes :
                        /\ Kind(s) = "smart" /\ Day(s) = rows[k].date /\ cps[s].status # "ABSENT"
                        /\ cps[s].status = "COMPLETE" /\ cps[s].seen # {} => k \in cps[s].stored
    BY DEF SmartIsListed, cut
  <2>1. rows[k].date >= cut
    BY <1>1, <1>2
  <2>2. QED
    BY <2>1 DEF ShopInv, SmartIsListed, cut
<1>5. InactiveIsMissing'
  <2> SUFFICES ASSUME NEW k \in Stored, ~rows[k].active, rows[k].date >= cut'
               PROVE  \E s \in Scopes \ Backfills :
                        /\ Covers(s, rows[k]) /\ cps[s].status # "ABSENT"
                        /\ k \notin cps[s].stored
    BY DEF InactiveIsMissing, cut, Stored
  <2>1. rows[k].date >= cut
    BY <1>1, <1>2 DEF Stored
  <2>2. QED
    BY <2>1 DEF ShopInv, InactiveIsMissing, cut
<1>6. Listed'
  <2> SUFFICES ASSUME NEW d \in Boot..LastDay, d >= cut', Full(d)', NEW k \in Keys,
                      rows[k].active, rows[k].date = d
               PROVE  \E s \in ReadScopes(d) : k \in cps[s].stored
    BY DEF Listed, cut, ReadScopes
  <2>1. d >= cut
    BY <1>1, StoreAssumption
  <2>2. Full(d)
    BY DEF Full, ReadScopes
  <2>3. QED
    BY <2>1, <2>2 DEF ShopInv, Listed, cut
<1>7. QED
  BY <1>3, <1>4, <1>5, <1>6

LEMMA MidnightKeeps == ASSUME ShopInv, Midnight PROVE ShopInv'
<1>1. today \in Days /\ today' = today + 1 /\ today < LastDay
      /\ UNCHANGED <<rows, cps, actor, purge, kept, scans>>
  BY DEF Midnight, ShopInv, ShopTypes, TypeOK
<1>2. today' \in Days /\ today' >= today /\ today' \in Int
  BY <1>1, StoreAssumption DEF Days
<1>3. Kept' /\ SmartIsListed' /\ InactiveIsMissing' /\ Listed'
  BY <1>1, <1>2, StoredStays
<1>4. ShopTypes' /\ Scanning'
  BY <1>1, <1>2 DEF ShopInv, ShopTypes, TypeOK, Scanning
<1>5. Purging'
  <2>1. purge.phase # "none" => purge.cutoff <= Cutoff(today)'
    <3>1. purge.cutoff \in Int /\ (purge.phase # "none" => purge.cutoff <= Cutoff(today))
      BY DEF ShopInv, ShopTypes, Purging
    <3>2. QED
      BY <1>2, <3>1, CutoffGrows DEF ShopInv
  <2>2. QED
    BY <1>1, <2>1 DEF ShopInv, Purging, Stored
<1>6. QED
  BY <1>3, <1>4, <1>5 DEF ShopInv

LEMMA StopKeeps == ASSUME ShopInv, Stop PROVE ShopInv'
<1>1. actor' = Nobody /\ purge' = NoPurge /\ UNCHANGED <<today, rows, cps, kept, scans>>
  BY DEF Stop
<1>2. today' \in Int /\ today' >= today
  BY <1>1 DEF ShopInv, ShopTypes, TypeOK, Days
<1>3. Kept' /\ SmartIsListed' /\ InactiveIsMissing' /\ Listed'
  BY <1>1, <1>2, StoredStays
<1>4. NoPurge.phase = "none" /\ NoPurge.cutoff = 0 /\ NoPurge.todo = {}
      /\ Nobody # Retention /\ Nobody \notin Scopes
  BY ScopeFacts DEF NoPurge, Nobody, Retention
<1>5. ShopTypes'
  <2>1. purge' = [phase |-> purge'.phase, cutoff |-> purge'.cutoff, todo |-> purge'.todo]
    BY <1>1 DEF NoPurge
  <2>2. purge'.cutoff \in Int
    BY <1>1, <1>4
  <2>3. TypeOK'
    BY <1>1, <1>4 DEF ShopInv, ShopTypes, TypeOK
  <2>4. QED
    BY <1>1, <2>1, <2>2, <2>3 DEF ShopInv, ShopTypes
<1>6. Scanning' /\ Purging'
  BY <1>1, <1>4 DEF Scanning, Purging
<1>7. QED
  BY <1>3, <1>5, <1>6 DEF ShopInv

LEMMA StartPurgeKeeps == ASSUME ShopInv, StartPurge PROVE ShopInv'
<1>1. actor' = Retention /\ UNCHANGED <<today, rows, cps, kept, scans>>
  BY DEF StartPurge
<1>2. PICK now \in {today - 1, today} :
        purge' = [phase |-> "dates", cutoff |-> Cutoff(now),
                  todo |-> {rows[k].date : k \in {k \in Stored : ~Valid(rows[k].date, FALSE)}}]
  BY DEF StartPurge
<1>3. today \in Int /\ Window \in Int /\ now \in Int /\ now <= today
  BY StoreAssumption DEF ShopInv, ShopTypes, TypeOK, Days
<1>4. Kept' /\ SmartIsListed' /\ InactiveIsMissing' /\ Listed'
  BY <1>1, <1>3, StoredStays
<1>5. /\ purge'.phase = "dates" /\ purge'.cutoff = Cutoff(now)
      /\ purge'.todo = {rows[k].date : k \in {k \in Stored : ~Valid(rows[k].date, FALSE)}}
      /\ purge' = [phase |-> purge'.phase, cutoff |-> purge'.cutoff, todo |-> purge'.todo]
  BY <1>2
<1>6. Cutoff(now) \in Int /\ Cutoff(now) <= Cutoff(today)
  BY <1>3 DEF Cutoff
<1>7. ShopTypes'
  BY <1>1, <1>5, <1>6 DEF ShopInv, ShopTypes, TypeOK
<1>8. Scanning'
  BY <1>1, ScopeFacts DEF Scanning
<1>9. Purging'
  <2>1. Valid(Malformed, FALSE) = FALSE
    BY DEF Valid
  <2>2. \A k \in Stored : rows[k].date \in Dates
    BY DEF ShopInv, ShopTypes, RowRecords, Stored
  <2>3. \A d \in purge'.todo : d \in Dates /\ ~Valid(d, FALSE)
    BY <1>5, <2>2
  <2>4. \A k \in Stored : rows[k].date = Malformed => Malformed \in purge'.todo
    BY <1>5, <2>1
  <2>5. Stored' = Stored /\ rows' = rows /\ today' = today
    BY <1>1 DEF Stored
  <2>6. QED
    BY <1>5, <1>6, <2>3, <2>4, <2>5 DEF Purging
<1>10. QED
  BY <1>4, <1>7, <1>8, <1>9 DEF ShopInv

LEMMA ListScopesKeeps == ASSUME ShopInv, ListScopes PROVE ShopInv'
<1>1. /\ purge.phase = "dates" /\ purge.todo = {} /\ UNCHANGED <<today, rows, cps, actor, kept, scans>>
      /\ purge' = [purge EXCEPT !.phase = "scopes",
           !.todo = {s \in Scopes : cps[s].status # "ABSENT" /\ Day(s) < purge.cutoff}]
  BY DEF ListScopes
<1>2. today' \in Int /\ today' >= today
  BY <1>1 DEF ShopInv, ShopTypes, TypeOK, Days
<1>3. Kept' /\ SmartIsListed' /\ InactiveIsMissing' /\ Listed'
  BY <1>1, <1>2, StoredStays
<1>4. purge = [phase |-> purge.phase, cutoff |-> purge.cutoff, todo |-> purge.todo]
  BY DEF ShopInv, ShopTypes
<1>5. /\ purge'.phase = "scopes" /\ purge'.cutoff = purge.cutoff
      /\ purge'.todo = {s \in Scopes : cps[s].status # "ABSENT" /\ Day(s) < purge.cutoff}
      /\ purge' = [phase |-> purge'.phase, cutoff |-> purge'.cutoff, todo |-> purge'.todo]
  <2>1. purge' = [phase |-> "scopes", cutoff |-> purge.cutoff,
           todo |-> {s \in Scopes : cps[s].status # "ABSENT" /\ Day(s) < purge.cutoff}]
    BY <1>1, <1>4
  <2>2. QED
    BY <2>1
<1>6. ShopTypes' /\ Scanning'
  BY <1>1, <1>5 DEF ShopInv, ShopTypes, TypeOK, Scanning
<1>7. Purging'
  <2>1. \A k \in Stored : rows[k].date # Malformed
    BY <1>1 DEF ShopInv, Purging
  <2>2. purge.cutoff <= Cutoff(today) /\ purge.cutoff \in Int
    BY <1>1 DEF ShopInv, Purging, ShopTypes
  <2>3. \A s \in Scopes : Day(s) \in Int
    <3>1. \A s \in Scopes : Day(s) \in Days
      BY ScopeFacts
    <3>2. QED
      BY <3>1 DEF Days
  <2>4. \A s \in Scopes : cps[s].status = "ABSENT" \/ s \in purge'.todo \/ Day(s) >= purge'.cutoff
    BY <1>5, <2>2, <2>3
  <2>5. \A s \in purge'.todo : s \in Scopes /\ Day(s) < purge'.cutoff
    BY <1>5
  <2>6. QED
    BY <1>1, <1>5, <2>1, <2>2, <2>4, <2>5 DEF Purging, Stored
<1>8. QED
  BY <1>3, <1>6, <1>7 DEF ShopInv

-----------------------------------------------------------------------------
(* Scans.                                                                  *)

(* One checkpoint changes: the other days are read as before.              *)
LEMMA OtherDays ==
  ASSUME ShopTypes, NEW s \in Scopes, NEW r, cps' = [cps EXCEPT ![s] = r],
         NEW d, Day(s) # d
  PROVE  ReadScopes(d)' = ReadScopes(d) /\ \A t \in ReadScopes(d) : cps'[t] = cps[t]
  BY DEF ReadScopes, ShopTypes

LEMMA ScanKeeps == ASSUME ShopInv, NEW s \in Scopes, Scan(s) PROVE ShopInv'
<1>1. /\ actor = Nobody /\ MayScan(s) /\ actor' = s /\ UNCHANGED <<today, rows, purge, kept>>
  BY DEF Scan
<1>2. purge.phase = "none"
  BY <1>1 DEF ShopInv, ShopTypes, TypeOK, Nobody, Retention
<1>3. PICK r \in ScanRecords :
        /\ cps' = [cps EXCEPT ![s] = r] /\ r.status = "RUNNING" /\ r.stored \subseteq r.seen
        /\ r.stored \subseteq cps[s].stored /\ scans' \in 0..MaxScans
        /\ (cps[s].status = "ABSENT" => r.stored = {})
  <2>1. cps[s] \in ScanRecords /\ cps[s].stored \subseteq cps[s].seen /\ scans \in 0..MaxScans
    BY DEF ShopInv, ShopTypes, TypeOK
  <2>2. CASE /\ cps[s].status \in {"ABSENT", "COMPLETE"} /\ scans < MaxScans /\ scans' = scans + 1
             /\ cps' = [cps EXCEPT ![s] = [NoScan EXCEPT !.status = "RUNNING"]]
    <3> DEFINE r == [NoScan EXCEPT !.status = "RUNNING"]
    <3>1. r \in ScanRecords /\ r.status = "RUNNING" /\ r.stored = {} /\ r.seen = {}
      BY DEF NoScan, ScanRecords, Stati
    <3>2. scans' \in 0..MaxScans
      BY <2>1, <2>2, StoreAssumption
    <3>3. QED
      BY <2>2, <3>1, <3>2
  <2>3. CASE /\ cps[s].status \in {"RUNNING", "FAILED"}
             /\ cps' = [cps EXCEPT ![s].status = "RUNNING"] /\ UNCHANGED scans
    <3> DEFINE r == [cps[s] EXCEPT !.status = "RUNNING"]
    <3>1. /\ r \in ScanRecords /\ r.status = "RUNNING" /\ r.stored = cps[s].stored
          /\ r.seen = cps[s].seen
      BY <2>1 DEF ScanRecords, Stati
    <3>2. cps' = [cps EXCEPT ![s] = r]
      BY <2>1, <2>3
    <3>3. QED
      BY <2>1, <2>3, <3>1, <3>2
  <2>4. QED
    BY <2>2, <2>3 DEF Scan
<1>4. cps'[s] = r /\ \A t \in Scopes : t # s => cps'[t] = cps[t]
  BY <1>3 DEF ShopInv, ShopTypes
<1>5. ShopTypes'
  <2>1. cps' \in [Scopes -> ScanRecords]
    BY <1>3 DEF ShopInv, ShopTypes
  <2>2. TypeOK'
    <3>1. \A t \in Scopes : /\ cps'[t].status \in Stati
                            /\ cps'[t].stored \subseteq cps'[t].seen /\ cps'[t].seen \subseteq Keys
      BY <1>3, <1>4 DEF ShopInv, ShopTypes, TypeOK, ScanRecords, Stati
    <3>2. actor' # Retention
      BY <1>1, ScopeFacts
    <3>3. QED
      BY <1>1, <1>2, <1>3, <3>1, <3>2 DEF ShopInv, ShopTypes, TypeOK, Stati
  <2>3. QED
    BY <1>1, <2>1, <2>2 DEF ShopInv, ShopTypes
<1>6. Scanning'
  BY <1>1, <1>3, <1>4 DEF Scanning
<1>7. Purging'
  BY <1>1, <1>2 DEF Purging
<1>8. Kept'
  <2>1. kept > 0 /\ s \notin Backfills => Day(s) >= kept
    <3>1. s \notin Backfills => Day(s) >= Cutoff(today)
      BY <1>1, ScopeFacts DEF MayScan
    <3>2. (kept > 0 => kept <= Cutoff(today)) /\ kept \in Int /\ today \in Int /\ Window \in Int
      BY StoreAssumption DEF ShopInv, Kept, ShopTypes, TypeOK, Days
    <3>3. Day(s) \in Int /\ Cutoff(today) \in Int
      <4>1. Day(s) \in Days
        BY ScopeFacts
      <4>2. QED
        BY <3>2, <4>1 DEF Days, Cutoff
    <3>4. QED
      BY <3>1, <3>2, <3>3
  <2>2. NothingComesBack'
    <3> SUFFICES ASSUME kept > 0
                 PROVE  /\ \A k \in Stored : rows[k].date # Malformed
                                             /\ (rows[k].date >= Boot => rows[k].date >= kept)
                        /\ \A t \in Scopes \ Backfills : cps'[t].status # "ABSENT" => Day(t) >= kept
      BY <1>1 DEF NothingComesBack, Stored, Backfills
    <3>1. \A k \in Stored : rows[k].date # Malformed
                            /\ (rows[k].date >= Boot => rows[k].date >= kept)
      BY DEF ShopInv, Kept, NothingComesBack
    <3>2. \A t \in Scopes \ Backfills : cps'[t].status # "ABSENT" => Day(t) >= kept
      BY <1>4, <2>1 DEF ShopInv, Kept, NothingComesBack
    <3>3. QED
      BY <3>1, <3>2
  <2>3. QED
    BY <1>1, <2>2 DEF Kept, ShopInv
<1>9. SmartIsListed'
  <2> SUFFICES ASSUME NEW k \in Keys, rows[k].active, rows[k].category = "SMART_CONTROL",
                      rows[k].date >= Cutoff(today)
               PROVE  \E t \in Scopes :
                        /\ Kind(t) = "smart" /\ Day(t) = rows[k].date /\ cps'[t].status # "ABSENT"
                        /\ cps'[t].status = "COMPLETE" /\ cps'[t].seen # {} => k \in cps'[t].stored
    BY <1>1 DEF SmartIsListed, Cutoff
  <2>1. PICK t \in Scopes :
          /\ Kind(t) = "smart" /\ Day(t) = rows[k].date /\ cps[t].status # "ABSENT"
          /\ cps[t].status = "COMPLETE" /\ cps[t].seen # {} => k \in cps[t].stored
    BY DEF ShopInv, SmartIsListed
  <2>2. QED
    BY <1>3, <1>4, <2>1
<1>10. InactiveIsMissing'
  <2> SUFFICES ASSUME NEW k \in Stored, ~rows[k].active, rows[k].date >= Cutoff(today)
               PROVE  \E t \in Scopes \ Backfills :
                        /\ Covers(t, rows[k]) /\ cps'[t].status # "ABSENT"
                        /\ k \notin cps'[t].stored
    BY <1>1 DEF InactiveIsMissing, Stored, Cutoff
  <2>1. PICK t \in Scopes \ Backfills :
          /\ Covers(t, rows[k]) /\ cps[t].status # "ABSENT" /\ k \notin cps[t].stored
    BY DEF ShopInv, InactiveIsMissing
  <2>2. QED
    BY <1>3, <1>4, <2>1
<1>11. Listed'
  <2> SUFFICES ASSUME NEW d \in Boot..LastDay, d >= Cutoff(today), Full(d)', NEW k \in Keys,
                      rows[k].active, rows[k].date = d
               PROVE  \E t \in ReadScopes(d)' : k \in cps'[t].stored
    BY <1>1 DEF Listed, Cutoff
  <2>1. Day(s) # d
    <3> SUFFICES ASSUME Day(s) = d PROVE FALSE
      OBVIOUS
    <3>1. s \notin Backfills
      <4>1. d >= Boot /\ d \in Int /\ Boot \in Int
        BY StoreAssumption
      <4>2. s \in Backfills => Day(s) < Boot
        BY ScopeFacts
      <4>3. QED
        BY <4>1, <4>2
    <3>2. s \in ReadScopes(d)'
      BY <1>3, <1>4, <3>1 DEF ReadScopes, Backfills
    <3>3. QED
      BY <1>3, <1>4, <3>2 DEF Full
  <2>2. ReadScopes(d)' = ReadScopes(d) /\ \A t \in ReadScopes(d) : cps'[t] = cps[t]
    BY <1>3, <2>1, OtherDays DEF ShopInv
  <2>3. Full(d)
    BY <2>2 DEF Full
  <2>4. QED
    BY <2>2, <2>3 DEF ShopInv, Listed
<1>12. QED
  BY <1>5, <1>6, <1>7, <1>8, <1>9, <1>10, <1>11 DEF ShopInv

(* A page is stored, the last one with its reconciliation.                 *)
PageStep(s, page, st) ==
  /\ cps' = [cps EXCEPT ![s] = [Received(s, page) EXCEPT !.status = st]]
  /\ rows' = IF st = "COMPLETE" THEN Reconciled(s, Preserved(s, page), Received(s, page))
             ELSE Preserved(s, page)

LEMMA PageRecord ==
  ASSUME ShopTypes, NEW s \in Scopes, NEW page \in Pages(s), NEW st \in {"RUNNING", "COMPLETE"},
         PageStep(s, page, st)
  PROVE  /\ cps'[s] \in ScanRecords /\ cps'[s].status = st
         /\ cps'[s].seen = Received(s, page).seen /\ cps'[s].stored = Received(s, page).stored
         /\ cps'[s].stored \subseteq cps'[s].seen
         /\ \A t \in Scopes : t # s => cps'[t] = cps[t]
         /\ cps' \in [Scopes -> ScanRecords]
         /\ cps' = [cps EXCEPT ![s] = cps'[s]]
<1> DEFINE r == [Received(s, page) EXCEPT !.status = st]
<1>1. Received(s, page) \in ScanRecords /\ Received(s, page).stored \subseteq Received(s, page).seen
  BY PageTypes
<1>2. /\ r \in ScanRecords /\ r.status = st /\ r.seen = Received(s, page).seen
      /\ r.stored = Received(s, page).stored
  BY <1>1 DEF ScanRecords, Stati
<1>3. cps' = [cps EXCEPT ![s] = r] /\ cps \in [Scopes -> ScanRecords]
  BY DEF PageStep, ShopTypes
<1>4. cps'[s] = r /\ (\A t \in Scopes : t # s => cps'[t] = cps[t]) /\ cps' \in [Scopes -> ScanRecords]
  <2> HIDE DEF r
  <2>1. QED
    BY <1>2, <1>3
<1>5. QED
  <2> HIDE DEF r
  <2>1. QED
    BY <1>1, <1>2, <1>3, <1>4

Takes(s, k) ==
  /\ k \in cps'[s].stored
  /\ \E c \in Categories : rows'[k] = Row(Day(s), c) /\ (c = "SMART_CONTROL" => Kind(s) = "smart")
Keeps(s, k, st) ==
  /\ rows'[k] = rows[k] /\ (k \in cps'[s].stored <=> k \in cps[s].stored)
  /\ st = "COMPLETE" /\ cps'[s].seen # {} /\ rows[k].active /\ Covers(s, rows[k])
       => k \in cps'[s].stored
Ends(s, k, st) ==
  /\ st = "COMPLETE" /\ k \notin cps'[s].stored /\ Covers(s, rows[k])
  /\ rows'[k] = [rows[k] EXCEPT !.active = FALSE]

LEMMA RowEffect ==
  ASSUME ShopTypes, NEW s \in Scopes, NEW page \in Pages(s), NEW st \in {"RUNNING", "COMPLETE"},
         PageStep(s, page, st), NEW k \in Keys
  PROVE  Takes(s, k) \/ Keeps(s, k, st) \/ Ends(s, k, st)
<1> DEFINE receipt == Received(s, page)
           was == Preserved(s, page)[k]
<1>1. cps'[s].seen = receipt.seen /\ cps'[s].stored = receipt.stored
  BY PageRecord
<1>2. \/ /\ k \in receipt.stored
         /\ \E c \in Categories : was = Row(Day(s), c) /\ (c = "SMART_CONTROL" => Kind(s) = "smart")
      \/ was = rows[k] /\ (k \in receipt.stored <=> k \in cps[s].stored)
  BY PageEffect
<1>3. st # "COMPLETE" => rows'[k] = was
  BY DEF PageStep
<1>4. st = "COMPLETE" =>
        rows'[k] = IF receipt.seen # {} /\ was.active /\ Covers(s, was) /\ k \notin receipt.stored
                   THEN [was EXCEPT !.active = FALSE] ELSE was
  BY DEF PageStep, Reconciled, Missing
<1> HIDE DEF receipt, was
<1>5. CASE k \in receipt.stored /\ \E c \in Categories :
             was = Row(Day(s), c) /\ (c = "SMART_CONTROL" => Kind(s) = "smart")
  <2>1. rows'[k] = was
    BY <1>3, <1>4, <1>5
  <2>2. QED
    BY <1>1, <1>5, <2>1 DEF Takes
<1>6. CASE was = rows[k] /\ (k \in receipt.stored <=> k \in cps[s].stored)
  <2>1. CASE st = "COMPLETE" /\ receipt.seen # {} /\ was.active /\ Covers(s, was)
             /\ k \notin receipt.stored
    BY <1>1, <1>4, <1>6, <2>1 DEF Ends
  <2>2. CASE ~(st = "COMPLETE" /\ receipt.seen # {} /\ was.active /\ Covers(s, was)
               /\ k \notin receipt.stored)
    <3>1. rows'[k] = rows[k]
      BY <1>3, <1>4, <1>6, <2>2
    <3>2. QED
      BY <1>1, <1>6, <2>2, <3>1 DEF Keeps
  <2>3. QED
    BY <2>1, <2>2
<1>7. QED
  BY <1>2, <1>5, <1>6

(* What a row looks like afterwards.                                       *)
LEMMA EffectFields ==
  ASSUME ShopTypes, NEW s \in Scopes, NEW k \in Keys, NEW st
  PROVE  /\ Takes(s, k) => /\ rows'[k].date = Day(s) /\ rows'[k].active = TRUE
                           /\ rows'[k].exists = TRUE
                           /\ rows'[k].category = "SMART_CONTROL" => Kind(s) = "smart"
         /\ Ends(s, k, st) => /\ rows'[k].date = rows[k].date /\ rows'[k].active = FALSE
                              /\ rows'[k].category = rows[k].category
                              /\ rows'[k].exists = rows[k].exists
<1>1. rows[k] \in RowRecords
  BY DEF ShopTypes
<1>2. Takes(s, k) => /\ rows'[k].date = Day(s) /\ rows'[k].active = TRUE
                     /\ rows'[k].exists = TRUE
                     /\ rows'[k].category = "SMART_CONTROL" => Kind(s) = "smart"
  <2> SUFFICES ASSUME Takes(s, k)
               PROVE  /\ rows'[k].date = Day(s) /\ rows'[k].active = TRUE
                      /\ rows'[k].exists = TRUE
                      /\ rows'[k].category = "SMART_CONTROL" => Kind(s) = "smart"
    OBVIOUS
  <2>1. PICK c \in Categories :
          rows'[k] = Row(Day(s), c) /\ (c = "SMART_CONTROL" => Kind(s) = "smart")
    BY DEF Takes
  <2>2. /\ rows'[k].date = Day(s) /\ rows'[k].active = TRUE /\ rows'[k].exists = TRUE
        /\ rows'[k].category = c
    <3>1. rows'[k] = Row(Day(s), c)
      BY <2>1
    <3>2. QED
      BY <3>1 DEF Row
  <2>3. QED
    BY <2>1, <2>2
<1>3. Ends(s, k, st) => /\ rows'[k].date = rows[k].date /\ rows'[k].active = FALSE
                        /\ rows'[k].category = rows[k].category
                        /\ rows'[k].exists = rows[k].exists
  BY <1>1 DEF Ends, RowRecords
<1>4. QED
  BY <1>2, <1>3

LEMMA PageStepKeeps ==
  ASSUME ShopInv, NEW s \in Scopes, cps[s].status = "RUNNING", NEW page \in Pages(s),
         NEW st \in {"RUNNING", "COMPLETE"}, PageStep(s, page, st),
         st = "COMPLETE" => s \notin Backfills, UNCHANGED <<today, kept>>
  PROVE  Kept' /\ SmartIsListed' /\ InactiveIsMissing' /\ Listed'
<1>1. /\ cps'[s].status = st /\ cps'[s].stored \subseteq cps'[s].seen
      /\ \A t \in Scopes : t # s => cps'[t] = cps[t]
      /\ cps' = [cps EXCEPT ![s] = cps'[s]]
  BY PageRecord DEF ShopInv
<1>2. \A k \in Keys : Takes(s, k) \/ Keeps(s, k, st) \/ Ends(s, k, st)
  BY RowEffect DEF ShopInv
<1>3. Cutoff(today)' = Cutoff(today)
  BY DEF Cutoff
<1>4. Kept'
  <2>1. Boot \in Int /\ Day(s) \in Int /\ Day(s) # Malformed
    <3>1. Day(s) \in Days /\ Day(s) # Malformed
      BY ScopeFacts
    <3>2. QED
      BY <3>1, StoreAssumption DEF Days
  <2>2. kept > 0 => (Day(s) >= Boot => Day(s) >= kept)
    <3>1. s \in Backfills => Day(s) < Boot
      BY ScopeFacts
    <3>2. kept > 0 /\ s \notin Backfills => Day(s) >= kept
      BY DEF ShopInv, Kept, NothingComesBack
    <3>3. QED
      BY <2>1, <3>1, <3>2
  <2>3. ASSUME kept > 0, NEW k \in Keys, rows'[k].exists
        PROVE  rows'[k].date # Malformed /\ (rows'[k].date >= Boot => rows'[k].date >= kept)
    <3>1. CASE Takes(s, k)
      <4>1. rows'[k].date = Day(s)
        BY <3>1, EffectFields DEF ShopInv
      <4>2. QED
        BY <2>1, <2>2, <2>3, <4>1
    <3>2. CASE Keeps(s, k, st) \/ Ends(s, k, st)
      <4>1. rows'[k].date = rows[k].date /\ rows'[k].exists = rows[k].exists
        BY <3>2, EffectFields DEF Keeps, ShopInv
      <4>2. k \in Stored
        BY <2>3, <4>1 DEF Stored
      <4>3. QED
        BY <2>3, <4>1, <4>2 DEF ShopInv, Kept, NothingComesBack
    <3>3. QED
      BY <1>2, <3>1, <3>2
  <2>4. ASSUME kept > 0, NEW t \in Scopes \ Backfills, cps'[t].status # "ABSENT"
        PROVE  Day(t) >= kept
    <3>1. cps[t].status # "ABSENT"
      BY <1>1, <2>4
    <3>2. QED
      BY <2>4, <3>1 DEF ShopInv, Kept, NothingComesBack
  <2>5. NothingComesBack'
    BY <2>3, <2>4 DEF NothingComesBack, Stored, Backfills
  <2>6. QED
    BY <1>3, <2>5 DEF Kept, ShopInv
<1>5. SmartIsListed'
  <2> SUFFICES ASSUME NEW k \in Keys, rows'[k].active, rows'[k].category = "SMART_CONTROL",
                      rows'[k].date >= Cutoff(today)
               PROVE  \E t \in Scopes :
                        /\ Kind(t) = "smart" /\ Day(t) = rows'[k].date /\ cps'[t].status # "ABSENT"
                        /\ cps'[t].status = "COMPLETE" /\ cps'[t].seen # {} => k \in cps'[t].stored
    BY <1>3 DEF SmartIsListed
  <2>1. CASE Takes(s, k)
    <3>1. Day(s) = rows'[k].date /\ Kind(s) = "smart"
      BY <2>1, EffectFields DEF ShopInv
    <3>2. k \in cps'[s].stored /\ cps'[s].status # "ABSENT"
      BY <1>1, <2>1 DEF Takes
    <3>3. QED
      BY <3>1, <3>2
  <2>2. CASE Keeps(s, k, st)
    <3>1. rows'[k] = rows[k]
      BY <2>2 DEF Keeps
    <3>2. PICK t \in Scopes :
            /\ Kind(t) = "smart" /\ Day(t) = rows[k].date /\ cps[t].status # "ABSENT"
            /\ cps[t].status = "COMPLETE" /\ cps[t].seen # {} => k \in cps[t].stored
      BY <3>1 DEF ShopInv, SmartIsListed
    <3>3. CASE t # s
      BY <1>1, <3>1, <3>2, <3>3
    <3>4. CASE t = s
      <4>1. Covers(s, rows[k])
        BY <3>2, <3>4 DEF Covers
      <4>2. st = "COMPLETE" /\ cps'[s].seen # {} => k \in cps'[s].stored
        BY <2>2, <3>1, <4>1 DEF Keeps
      <4>3. QED
        BY <1>1, <3>1, <3>2, <3>4, <4>2
    <3>5. QED
      BY <3>3, <3>4
  <2>3. CASE Ends(s, k, st)
    BY <2>3, EffectFields DEF ShopInv
  <2>4. QED
    BY <1>2, <2>1, <2>2, <2>3
<1>6. InactiveIsMissing'
  <2> SUFFICES ASSUME NEW k \in Keys, rows'[k].exists, ~rows'[k].active,
                      rows'[k].date >= Cutoff(today)
               PROVE  \E t \in Scopes \ Backfills :
                        /\ Covers(t, rows'[k]) /\ cps'[t].status # "ABSENT"
                        /\ k \notin cps'[t].stored
    BY <1>3 DEF InactiveIsMissing, Stored, Backfills, Covers
  <2>1. CASE Takes(s, k)
    BY <2>1, EffectFields DEF ShopInv
  <2>2. CASE Keeps(s, k, st)
    <3>1. rows'[k] = rows[k] /\ k \in Stored
      BY <2>2 DEF Keeps, Stored
    <3>2. PICK t \in Scopes \ Backfills :
            /\ Covers(t, rows[k]) /\ cps[t].status # "ABSENT" /\ k \notin cps[t].stored
      BY <3>1 DEF ShopInv, InactiveIsMissing
    <3>3. CASE t # s
      BY <1>1, <3>1, <3>2, <3>3
    <3>4. CASE t = s
      BY <1>1, <2>2, <3>1, <3>2, <3>4 DEF Keeps
    <3>5. QED
      BY <3>3, <3>4
  <2>3. CASE Ends(s, k, st)
    <3>1. rows'[k].date = rows[k].date /\ rows'[k].category = rows[k].category
      BY <2>3, EffectFields DEF ShopInv
    <3>2. Covers(s, rows'[k]) /\ k \notin cps'[s].stored /\ st = "COMPLETE"
      BY <2>3, <3>1 DEF Ends, Covers
    <3>3. QED
      BY <1>1, <3>2
  <2>4. QED
    BY <1>2, <2>1, <2>2, <2>3
<1>7. Listed'
  <2> SUFFICES ASSUME NEW d \in Boot..LastDay, d >= Cutoff(today), Full(d)', NEW k \in Keys,
                      rows'[k].active, rows'[k].date = d
               PROVE  \E t \in ReadScopes(d)' : k \in cps'[t].stored
    BY <1>3 DEF Listed
  <2>1. CASE Day(s) = d
    <3>1. s \in ReadScopes(d)'
      <4>1. d >= Boot /\ d \in Int /\ Boot \in Int
        BY StoreAssumption
      <4>2. s \in Backfills => Day(s) < Boot
        BY ScopeFacts
      <4>3. s \notin Backfills
        BY <2>1, <4>1, <4>2
      <4>4. QED
        BY <1>1, <2>1, <4>3 DEF ReadScopes, Backfills
    <3>2. st = "COMPLETE" /\ cps'[s].seen # {}
      BY <1>1, <3>1 DEF Full
    <3>3. CASE Takes(s, k)
      BY <3>1, <3>3 DEF Takes
    <3>4. CASE Keeps(s, k, st)
      <4>1. rows'[k] = rows[k] /\ (Covers(s, rows[k]) => k \in cps'[s].stored)
        BY <3>2, <3>4 DEF Keeps
      <4>2. CASE Covers(s, rows[k])
        BY <3>1, <4>1, <4>2
      <4>3. CASE ~Covers(s, rows[k])
        <5>1. rows[k].category = "SMART_CONTROL" /\ Kind(s) # "smart"
          BY <2>1, <4>1, <4>3 DEF Covers
        <5>2. PICK t \in Scopes :
                /\ Kind(t) = "smart" /\ Day(t) = d /\ cps[t].status # "ABSENT"
                /\ cps[t].status = "COMPLETE" /\ cps[t].seen # {} => k \in cps[t].stored
          BY <4>1, <5>1 DEF ShopInv, SmartIsListed
        <5>3. t # s /\ cps'[t] = cps[t]
          BY <1>1, <5>1, <5>2
        <5>4. t \in ReadScopes(d)'
          BY <5>2, <5>3 DEF ReadScopes, Backfills
        <5>5. QED
          BY <5>2, <5>3, <5>4 DEF Full
      <4>4. QED
        BY <4>2, <4>3
    <3>5. CASE Ends(s, k, st)
      BY <3>5, EffectFields DEF ShopInv
    <3>6. QED
      BY <1>2, <3>3, <3>4, <3>5
  <2>2. CASE Day(s) # d
    <3>1. ReadScopes(d)' = ReadScopes(d) /\ \A t \in ReadScopes(d) : cps'[t] = cps[t]
      BY <1>1, <2>2, OtherDays DEF ShopInv
    <3>2. Full(d)
      BY <3>1 DEF Full
    <3>3. rows'[k] = rows[k]
      <4>1. ~Takes(s, k) /\ ~Ends(s, k, st)
        BY <2>2, EffectFields DEF ShopInv
      <4>2. QED
        BY <1>2, <4>1 DEF Keeps
    <3>4. QED
      BY <3>1, <3>2, <3>3 DEF ShopInv, Listed
  <2>3. QED
    BY <2>1, <2>2
<1>8. QED
  BY <1>4, <1>5, <1>6, <1>7

LEMMA PageKeeps == ASSUME ShopInv, NEW s \in Scopes, Page(s) PROVE ShopInv'
<1>1. actor = s /\ cps[s].status = "RUNNING" /\ cps[s] \in ScanRecords
      /\ UNCHANGED <<today, actor, purge, kept, scans>>
  BY DEF Page, ShopInv, Scanning, ShopTypes
<1>2. PICK page \in Pages(s) :
        rows' = Preserved(s, page) /\ cps' = [cps EXCEPT ![s] = Received(s, page)]
  BY DEF Page
<1>3. PageStep(s, page, "RUNNING")
  <2>1. Received(s, page) \in ScanRecords /\ Received(s, page).status = "RUNNING"
    BY <1>1, PageTypes DEF ShopInv
  <2>2. [Received(s, page) EXCEPT !.status = "RUNNING"] = Received(s, page)
    BY <2>1 DEF ScanRecords
  <2>3. QED
    BY <1>2, <2>2 DEF PageStep
<1>4. Kept' /\ SmartIsListed' /\ InactiveIsMissing' /\ Listed'
  BY <1>1, <1>3, PageStepKeeps
<1>5. /\ cps'[s].status = "RUNNING" /\ cps'[s].stored \subseteq cps'[s].seen
      /\ cps' \in [Scopes -> ScanRecords] /\ \A t \in Scopes : t # s => cps'[t] = cps[t]
  BY <1>3, PageRecord DEF ShopInv
<1>6. rows' \in [Keys -> RowRecords]
  BY <1>2, PageTypes DEF ShopInv
<1>7. ShopTypes'
  <2>1. \A t \in Scopes : /\ cps'[t].status \in Stati
                          /\ cps'[t].stored \subseteq cps'[t].seen /\ cps'[t].seen \subseteq Keys
    BY <1>5 DEF ShopInv, ShopTypes, TypeOK, ScanRecords
  <2>2. \A k \in Keys : rows'[k].date \in Dates /\ rows'[k].category \in Categories
    BY <1>6 DEF RowRecords
  <2>3. TypeOK'
    BY <1>1, <2>1, <2>2 DEF ShopInv, ShopTypes, TypeOK, Stati
  <2>4. QED
    BY <1>1, <1>5, <1>6, <2>3 DEF ShopInv, ShopTypes
<1>8. Scanning' /\ Purging'
  <2>1. purge.phase = "none"
    BY <1>1, ScopeFacts DEF ShopInv, ShopTypes, TypeOK
  <2>2. QED
    BY <1>1, <1>5, <2>1 DEF Scanning, Purging
<1>9. QED
  BY <1>4, <1>7, <1>8 DEF ShopInv

LEMMA LastPageKeeps == ASSUME ShopInv, NEW s \in Scopes, LastPage(s) PROVE ShopInv'
<1>1. actor = s /\ cps[s].status = "RUNNING" /\ cps[s] \in ScanRecords /\ actor' = Nobody
      /\ UNCHANGED <<today, purge, kept, scans>>
  BY DEF LastPage, ShopInv, Scanning, ShopTypes
<1>2. purge.phase = "none" /\ Nobody # Retention /\ Nobody \notin Scopes
  BY <1>1, ScopeFacts DEF ShopInv, ShopTypes, TypeOK, Nobody, Retention
<1>3. Scanning' /\ Purging'
  BY <1>1, <1>2 DEF Scanning, Purging
<1>4. ASSUME /\ rows' \in [Keys -> RowRecords] /\ cps' \in [Scopes -> ScanRecords]
             /\ \A t \in Scopes : cps'[t].stored \subseteq cps'[t].seen
      PROVE  ShopTypes'
  <2>1. \A t \in Scopes : /\ cps'[t].status \in Stati
                          /\ cps'[t].stored \subseteq cps'[t].seen /\ cps'[t].seen \subseteq Keys
    BY <1>4 DEF ScanRecords
  <2>2. \A k \in Keys : rows'[k].date \in Dates /\ rows'[k].category \in Categories
    BY <1>4 DEF RowRecords
  <2>3. TypeOK'
    BY <1>1, <1>2, <2>1, <2>2 DEF ShopInv, ShopTypes, TypeOK, Stati
  <2>4. QED
    BY <1>1, <1>4, <2>3 DEF ShopInv, ShopTypes
<1>5. CASE ~Valid(Day(s), FALSE) /\ cps' = [cps EXCEPT ![s].status = "FAILED"] /\ UNCHANGED rows
  <2> DEFINE r == [cps[s] EXCEPT !.status = "FAILED"]
  <2>1. r \in ScanRecords /\ r.status = "FAILED" /\ r.seen = cps[s].seen /\ r.stored = cps[s].stored
    BY <1>1 DEF ScanRecords, Stati
  <2>2. cps' = [cps EXCEPT ![s] = r]
    BY <1>1, <1>5 DEF ShopInv, ShopTypes
  <2> HIDE DEF r
  <2>3. cps'[s] = r /\ (\A t \in Scopes : t # s => cps'[t] = cps[t])
        /\ cps' \in [Scopes -> ScanRecords]
    BY <2>1, <2>2 DEF ShopInv, ShopTypes
  <2>4. s \in Backfills /\ Day(s) < Boot
    BY <1>5, ScopeFacts
  <2>5. \A t \in Scopes : cps'[t].stored \subseteq cps'[t].seen
    BY <2>1, <2>3 DEF ShopInv, ShopTypes, TypeOK
  <2>6. ShopTypes'
    BY <1>4, <1>5, <2>3, <2>5 DEF ShopInv, ShopTypes
  <2>7. \A t \in Scopes \ Backfills : cps'[t] = cps[t]
    BY <2>3, <2>4
  <2>8. Kept'
    BY <1>1, <1>5, <2>7 DEF ShopInv, Kept, NothingComesBack, Stored, Backfills, Cutoff
  <2>9. SmartIsListed'
    <3>1. \A t \in Scopes : Kind(t) = "smart" => t \notin Backfills
      BY DEF Backfills
    <3>2. QED
      BY <1>1, <1>5, <2>7, <3>1 DEF ShopInv, SmartIsListed, Cutoff
  <2>10. InactiveIsMissing'
    BY <1>1, <1>5, <2>7 DEF ShopInv, InactiveIsMissing, Stored, Backfills, Cutoff
  <2>11. Listed'
    <3> SUFFICES ASSUME NEW d \in Boot..LastDay, d >= Cutoff(today), Full(d)', NEW k \in Keys,
                        rows[k].active, rows[k].date = d
                 PROVE  \E t \in ReadScopes(d)' : k \in cps'[t].stored
      BY <1>1, <1>5 DEF Listed, Cutoff
    <3>1. ReadScopes(d)' = ReadScopes(d) /\ \A t \in ReadScopes(d) : cps'[t] = cps[t]
      BY <2>7 DEF ReadScopes, Backfills
    <3>2. Full(d)
      BY <3>1 DEF Full
    <3>3. QED
      BY <3>1, <3>2 DEF ShopInv, Listed
  <2>12. QED
    BY <1>3, <2>6, <2>8, <2>9, <2>10, <2>11 DEF ShopInv
<1>6. CASE /\ Valid(Day(s), FALSE)
           /\ \E page \in Pages(s) :
                /\ rows' = Reconciled(s, Preserved(s, page), Received(s, page))
                /\ cps' = [cps EXCEPT ![s] = [Received(s, page) EXCEPT !.status = "COMPLETE"]]
  <2>1. PICK page \in Pages(s) : PageStep(s, page, "COMPLETE")
    BY <1>6 DEF PageStep
  <2>2. s \notin Backfills
    BY <1>6, ScopeFacts
  <2>3. Kept' /\ SmartIsListed' /\ InactiveIsMissing' /\ Listed'
    BY <1>1, <2>1, <2>2, PageStepKeeps
  <2>4. /\ cps'[s].stored \subseteq cps'[s].seen
        /\ cps' \in [Scopes -> ScanRecords] /\ \A t \in Scopes : t # s => cps'[t] = cps[t]
    BY <2>1, PageRecord DEF ShopInv
  <2>5. rows' \in [Keys -> RowRecords]
    <3>1. Preserved(s, page) \in [Keys -> RowRecords]
      BY PageTypes DEF ShopInv
    <3>2. rows' = [k \in Keys |-> IF Received(s, page).seen # {} /\ Preserved(s, page)[k].active
                                      /\ Covers(s, Preserved(s, page)[k])
                                      /\ Missing(s, k, Received(s, page))
                                  THEN [Preserved(s, page)[k] EXCEPT !.active = FALSE]
                                  ELSE Preserved(s, page)[k]]
      BY <2>1 DEF PageStep, Reconciled
    <3>3. \A k \in Keys : /\ Preserved(s, page)[k] \in RowRecords
                          /\ [Preserved(s, page)[k] EXCEPT !.active = FALSE] \in RowRecords
      BY <3>1 DEF RowRecords
    <3>4. QED
      BY <3>2, <3>3
  <2>6. \A t \in Scopes : cps'[t].stored \subseteq cps'[t].seen
    BY <2>4 DEF ShopInv, ShopTypes, TypeOK
  <2>7. ShopTypes'
    BY <1>4, <2>4, <2>5, <2>6
  <2>8. QED
    BY <1>3, <2>3, <2>7 DEF ShopInv
<1>7. QED
  BY <1>5, <1>6 DEF LastPage

-----------------------------------------------------------------------------
(* The retention.                                                          *)

(* A batch that is not full holds all there is.                            *)
LEMMA BatchFacts ==
  ASSUME NEW ks \in SUBSET Keys, NEW b \in Batches(ks)
  PROVE  b \subseteq ks /\ (EndsAfter(b) => b = ks)
<1>1. b \subseteq ks /\ Cardinality(b) = Min({Batch, Cardinality(ks)})
  BY DEF Batches
<1>2. /\ IsFiniteSet(ks) /\ Cardinality(ks) \in Nat /\ Batch \in Nat
      /\ Cardinality(b) <= Cardinality(ks)
      /\ (Cardinality(b) = Cardinality(ks) => b = ks)
  BY <1>1, StoreAssumption, FS_Subset, FS_CardinalityType
<1>3. \A x, y \in Nat : Min({x, y}) \in {x, y}
  <2> SUFFICES ASSUME NEW x \in Nat, NEW y \in Nat PROVE Min({x, y}) \in {x, y}
    OBVIOUS
  <2>1. \E m \in {x, y} : \A n \in {x, y} : m <= n
    <3>1. x <= y \/ y <= x
      OBVIOUS
    <3>2. QED
      BY <3>1
  <2>2. QED
    BY <2>1 DEF Min
<1>4. Min({Batch, Cardinality(ks)}) \in {Batch, Cardinality(ks)}
  BY <1>2, <1>3
<1>5. EndsAfter(b) => Cardinality(b) = Cardinality(ks)
  BY <1>1, <1>2, <1>4 DEF EndsAfter
<1>6. QED
  BY <1>1, <1>2, <1>5

LEMMA WithoutRows ==
  ASSUME ShopTypes, NEW b \in SUBSET Keys, rows' = Without(b)
  PROVE  /\ rows' \in [Keys -> RowRecords]
         /\ \A k \in Keys : k \notin b => rows'[k] = rows[k]
         /\ \A k \in b : ~rows'[k].exists /\ ~rows'[k].active
         /\ Stored' = Stored \ b
<1>1. NoRow \in RowRecords /\ NoRow.exists = FALSE /\ NoRow.active = FALSE
  BY DEF NoRow, RowRecords, Dates, Categories
<1>2. rows' = [k \in Keys |-> IF k \in b THEN NoRow ELSE rows[k]]
  BY DEF Without
<1>3. \A k \in Keys : k \notin b => rows'[k] = rows[k]
  BY <1>2
<1>4. \A k \in b : k \in Keys /\ rows'[k] = NoRow
  BY <1>2
<1>5. rows' \in [Keys -> RowRecords]
  BY <1>1, <1>2 DEF ShopTypes
<1>6. \A k \in b : ~rows'[k].exists /\ ~rows'[k].active
  BY <1>1, <1>4
<1>7. Stored' = Stored \ b
  BY <1>3, <1>6 DEF Stored
<1>8. QED
  BY <1>3, <1>5, <1>6, <1>7

(* Rows may go at any time.                                                *)
LEMMA RowsGo ==
  ASSUME ShopInv, NEW b \in SUBSET Keys, rows' = Without(b), UNCHANGED <<today, cps>>
  PROVE  /\ SmartIsListed' /\ InactiveIsMissing' /\ Listed'
         /\ kept' = kept => Kept'
<1>1. /\ \A k \in Keys : k \notin b => rows'[k] = rows[k]
      /\ \A k \in b : ~rows'[k].exists /\ ~rows'[k].active
      /\ Stored' = Stored \ b
  BY WithoutRows DEF ShopInv
<1>2. Cutoff(today)' = Cutoff(today) /\ \A d : ReadScopes(d)' = ReadScopes(d)
  BY DEF Cutoff, ReadScopes
<1>3. SmartIsListed'
  <2>1. \A k \in Keys : rows'[k].active => rows'[k] = rows[k]
    BY <1>1
  <2>2. QED
    BY <1>2, <2>1 DEF ShopInv, SmartIsListed
<1>4. InactiveIsMissing'
  <2>1. \A k \in Stored' : k \in Stored /\ rows'[k] = rows[k]
    BY <1>1 DEF Stored
  <2>2. QED
    BY <1>2, <2>1 DEF ShopInv, InactiveIsMissing, Backfills
<1>5. Listed'
  <2> SUFFICES ASSUME NEW d \in Boot..LastDay, d >= Cutoff(today), Full(d)', NEW k \in Keys,
                      rows'[k].active, rows'[k].date = d
               PROVE  \E t \in ReadScopes(d) : k \in cps[t].stored
    BY <1>2 DEF Listed
  <2>1. Full(d)
    BY <1>2 DEF Full
  <2>2. rows'[k] = rows[k]
    BY <1>1
  <2>3. QED
    BY <2>1, <2>2 DEF ShopInv, Listed
<1>6. kept' = kept => Kept'
  <2>1. \A k \in Stored' : k \in Stored /\ rows'[k] = rows[k]
    BY <1>1 DEF Stored
  <2>2. QED
    BY <1>2, <2>1 DEF ShopInv, Kept, NothingComesBack, Backfills
<1>7. QED
  BY <1>3, <1>4, <1>5, <1>6

LEMMA PurgeDateKeeps == ASSUME ShopInv, PurgeDate PROVE ShopInv'
<1>1. purge.phase = "dates" /\ UNCHANGED <<today, cps, actor, kept, scans>>
  BY DEF PurgeDate
<1>0. PICK d \in purge.todo :
        \E b \in Batches({k \in Stored : rows[k].date = d}) :
          /\ rows' = Without(b)
          /\ purge' = IF EndsAfter(b) THEN [purge EXCEPT !.todo = @ \ {d}] ELSE purge
  BY DEF PurgeDate
<1>2. PICK b \in Batches({k \in Stored : rows[k].date = d}) :
        /\ rows' = Without(b)
        /\ purge' = IF EndsAfter(b) THEN [purge EXCEPT !.todo = @ \ {d}] ELSE purge
  BY <1>0
<1>3. {k \in Stored : rows[k].date = d} \in SUBSET Keys
  BY DEF Stored
<1>4. /\ b \subseteq {k \in Stored : rows[k].date = d} /\ b \in SUBSET Keys
      /\ EndsAfter(b) => b = {k \in Stored : rows[k].date = d}
  BY <1>3, BatchFacts
<1>5. SmartIsListed' /\ InactiveIsMissing' /\ Listed' /\ Kept'
  BY <1>1, <1>2, <1>4, RowsGo
<1>6. /\ rows' \in [Keys -> RowRecords] /\ Stored' = Stored \ b
      /\ \A k \in Stored' : rows'[k] = rows[k]
  <2>1. /\ rows' \in [Keys -> RowRecords] /\ Stored' = Stored \ b
        /\ \A k \in Keys : k \notin b => rows'[k] = rows[k]
    BY <1>2, <1>4, WithoutRows DEF ShopInv
  <2>2. QED
    BY <2>1 DEF Stored
<1>7. purge = [phase |-> "dates", cutoff |-> purge.cutoff, todo |-> purge.todo]
  BY <1>1 DEF ShopInv, ShopTypes
<1>8. /\ purge'.phase = "dates" /\ purge'.cutoff = purge.cutoff
      /\ purge' = [phase |-> purge'.phase, cutoff |-> purge'.cutoff, todo |-> purge'.todo]
      /\ purge'.todo = IF EndsAfter(b) THEN purge.todo \ {d} ELSE purge.todo
  <2>1. CASE EndsAfter(b)
    <3>1. purge' = [phase |-> "dates", cutoff |-> purge.cutoff, todo |-> purge.todo \ {d}]
      BY <1>2, <1>7, <2>1
    <3>2. QED
      BY <2>1, <3>1
  <2>2. CASE ~EndsAfter(b)
    BY <1>2, <1>7, <2>2
  <2>3. QED
    BY <2>1, <2>2
<1>9. ShopTypes'
  <2>1. \A k \in Keys : rows'[k].date \in Dates /\ rows'[k].category \in Categories
    BY <1>6 DEF RowRecords
  <2>2. TypeOK'
    BY <1>1, <1>8, <2>1 DEF ShopInv, ShopTypes, TypeOK
  <2>3. QED
    BY <1>1, <1>6, <1>8, <2>2 DEF ShopInv, ShopTypes
<1>10. Scanning'
  BY <1>1 DEF ShopInv, Scanning
<1>11. Purging'
  <2>1. purge'.cutoff <= Cutoff(today)'
    BY <1>1, <1>8 DEF ShopInv, Purging, Cutoff
  <2>2. \A e \in purge'.todo : e \in Dates /\ ~Valid(e, FALSE)
    BY <1>1, <1>8 DEF ShopInv, Purging
  <2>3. ASSUME NEW k \in Stored', rows'[k].date = Malformed
        PROVE  Malformed \in purge'.todo
    <3>1. k \in Stored /\ k \notin b /\ rows[k].date = Malformed
      BY <1>6, <2>3
    <3>2. Malformed \in purge.todo
      BY <1>1, <3>1 DEF ShopInv, Purging
    <3>3. CASE EndsAfter(b)
      <4>1. d # Malformed
        BY <1>4, <3>1, <3>3
      <4>2. QED
        BY <1>8, <3>2, <4>1
    <3>4. CASE ~EndsAfter(b)
      BY <1>8, <3>2, <3>4
    <3>5. QED
      BY <3>3, <3>4
  <2>4. QED
    BY <1>8, <2>1, <2>2, <2>3 DEF Purging
<1>12. QED
  BY <1>5, <1>9, <1>10, <1>11 DEF ShopInv

LEMMA PurgeScopeKeeps == ASSUME ShopInv, PurgeScope PROVE ShopInv'
<1>1. purge.phase = "scopes" /\ UNCHANGED <<today, rows, actor, kept, scans>>
  BY DEF PurgeScope
<1>2. PICK s \in purge.todo :
        cps' = [cps EXCEPT ![s] = NoScan] /\ purge' = [purge EXCEPT !.todo = @ \ {s}]
  BY DEF PurgeScope
<1>3. /\ s \in Scopes /\ Day(s) < purge.cutoff /\ purge.cutoff <= Cutoff(today)
      /\ \A k \in Stored : rows[k].date # Malformed
      /\ actor = Retention
  BY <1>1 DEF ShopInv, Purging, ShopTypes, TypeOK
<1>4. NoScan \in ScanRecords /\ NoScan.status = "ABSENT" /\ NoScan.stored = {} /\ NoScan.seen = {}
  BY DEF NoScan, ScanRecords, Stati
<1>5. /\ cps' \in [Scopes -> ScanRecords] /\ cps'[s] = NoScan
      /\ \A t \in Scopes : t # s => cps'[t] = cps[t]
  BY <1>2, <1>3, <1>4 DEF ShopInv, ShopTypes
<1>6. \A d : d >= Cutoff(today) /\ d \in Int => Day(s) # d
  <2>1. Day(s) \in Int /\ purge.cutoff \in Int /\ Cutoff(today) \in Int
    <3>1. Day(s) \in Days
      BY <1>3, ScopeFacts
    <3>2. purge.cutoff \in Int /\ today \in Int /\ Window \in Int
      BY StoreAssumption DEF ShopInv, ShopTypes, TypeOK, Days
    <3>3. QED
      BY <3>1, <3>2 DEF Days, Cutoff
  <2>2. QED
    BY <1>3, <2>1
<1>7. \A k \in Keys : rows[k].date \in Int
  BY StoreAssumption DEF ShopInv, ShopTypes, RowRecords, Dates, Days, Malformed
<1>8. Cutoff(today)' = Cutoff(today) /\ Stored' = Stored
  BY <1>1 DEF Cutoff, Stored
<1>9. purge = [phase |-> "scopes", cutoff |-> purge.cutoff, todo |-> purge.todo]
  BY <1>1 DEF ShopInv, ShopTypes
<1>10. /\ purge'.phase = "scopes" /\ purge'.cutoff = purge.cutoff /\ purge'.todo = purge.todo \ {s}
       /\ purge' = [phase |-> purge'.phase, cutoff |-> purge'.cutoff, todo |-> purge'.todo]
  <2>1. purge' = [phase |-> "scopes", cutoff |-> purge.cutoff, todo |-> purge.todo \ {s}]
    BY <1>2, <1>9
  <2>2. QED
    BY <2>1
<1>11. ShopTypes'
  <2>1. \A t \in Scopes : /\ cps'[t].status \in Stati
                          /\ cps'[t].stored \subseteq cps'[t].seen /\ cps'[t].seen \subseteq Keys
    BY <1>4, <1>5 DEF ShopInv, ShopTypes, TypeOK, Stati
  <2>2. TypeOK'
    BY <1>1, <1>10, <2>1 DEF ShopInv, ShopTypes, TypeOK, Stati
  <2>3. QED
    BY <1>1, <1>5, <1>10, <2>2 DEF ShopInv, ShopTypes
<1>12. Scanning'
  BY <1>1, <1>3, ScopeFacts DEF Scanning
<1>13. Purging'
  <2>1. \A t \in Scopes : cps'[t].status = "ABSENT" \/ t \in purge'.todo \/ Day(t) >= purge'.cutoff
    BY <1>1, <1>4, <1>5, <1>10 DEF ShopInv, Purging
  <2>2. \A t \in purge'.todo : t \in Scopes /\ Day(t) < purge'.cutoff
    BY <1>1, <1>10 DEF ShopInv, Purging
  <2>3. QED
    BY <1>1, <1>3, <1>8, <1>10, <2>1, <2>2 DEF Purging
<1>14. Kept'
  <2>1. \A t \in Scopes : cps'[t].status # "ABSENT" => cps[t].status # "ABSENT"
    BY <1>4, <1>5
  <2>2. NothingComesBack'
    BY <1>1, <1>8, <2>1 DEF ShopInv, Kept, NothingComesBack, Backfills
  <2>3. QED
    BY <1>1, <1>8, <2>2 DEF ShopInv, Kept
<1>15. SmartIsListed'
  <2> SUFFICES ASSUME NEW k \in Keys, rows[k].active, rows[k].category = "SMART_CONTROL",
                      rows[k].date >= Cutoff(today)
               PROVE  \E t \in Scopes :
                        /\ Kind(t) = "smart" /\ Day(t) = rows[k].date /\ cps'[t].status # "ABSENT"
                        /\ cps'[t].status = "COMPLETE" /\ cps'[t].seen # {} => k \in cps'[t].stored
    BY <1>1, <1>8 DEF SmartIsListed
  <2>1. PICK t \in Scopes :
          /\ Kind(t) = "smart" /\ Day(t) = rows[k].date /\ cps[t].status # "ABSENT"
          /\ cps[t].status = "COMPLETE" /\ cps[t].seen # {} => k \in cps[t].stored
    BY DEF ShopInv, SmartIsListed
  <2>2. t # s
    BY <1>6, <1>7, <2>1
  <2>3. QED
    BY <1>5, <2>1, <2>2
<1>16. InactiveIsMissing'
  <2> SUFFICES ASSUME NEW k \in Stored, ~rows[k].active, rows[k].date >= Cutoff(today)
               PROVE  \E t \in Scopes \ Backfills :
                        /\ Covers(t, rows[k]) /\ cps'[t].status # "ABSENT"
                        /\ k \notin cps'[t].stored
    BY <1>1, <1>8 DEF InactiveIsMissing
  <2>1. PICK t \in Scopes \ Backfills :
          /\ Covers(t, rows[k]) /\ cps[t].status # "ABSENT" /\ k \notin cps[t].stored
    BY DEF ShopInv, InactiveIsMissing
  <2>2. t # s
    BY <1>6, <1>7, <2>1 DEF Covers, Stored
  <2>3. QED
    BY <1>5, <2>1, <2>2
<1>17. Listed'
  <2> SUFFICES ASSUME NEW d \in Boot..LastDay, d >= Cutoff(today), Full(d)', NEW k \in Keys,
                      rows[k].active, rows[k].date = d
               PROVE  \E t \in ReadScopes(d)' : k \in cps'[t].stored
    BY <1>1, <1>8 DEF Listed
  <2>1. Day(s) # d
    BY <1>6, StoreAssumption
  <2>2. ReadScopes(d)' = ReadScopes(d) /\ \A t \in ReadScopes(d) : cps'[t] = cps[t]
    BY <1>2, <1>3, <2>1, OtherDays DEF ShopInv
  <2>3. Full(d)
    BY <2>2 DEF Full
  <2>4. QED
    BY <2>2, <2>3 DEF ShopInv, Listed
<1>18. QED
  BY <1>11, <1>12, <1>13, <1>14, <1>15, <1>16, <1>17 DEF ShopInv

LEMMA PurgeRowsKeeps == ASSUME ShopInv, PurgeRows PROVE ShopInv'
<1> DEFINE past == {k \in Stored : rows[k].date # Malformed /\ rows[k].date < purge.cutoff}
<1>1. purge.phase \in {"scopes", "rows"} /\ purge.todo = {} /\ UNCHANGED <<today, cps, scans>>
  BY DEF PurgeRows
<1>2. PICK b \in Batches(past) :
        /\ rows' = Without(b)
        /\ IF EndsAfter(b)
             THEN actor' = Nobody /\ purge' = NoPurge /\ kept' = purge.cutoff
             ELSE purge' = [purge EXCEPT !.phase = "rows"] /\ UNCHANGED <<actor, kept>>
  BY DEF PurgeRows
<1>3. past \in SUBSET Keys
  BY DEF Stored
<1>4. b \in SUBSET Keys /\ (EndsAfter(b) => b = past)
  <2> HIDE DEF past
  <2>1. QED
    BY <1>3, BatchFacts
<1>5. SmartIsListed' /\ InactiveIsMissing' /\ Listed' /\ (kept' = kept => Kept')
  BY <1>1, <1>2, <1>4, RowsGo
<1>6. /\ rows' \in [Keys -> RowRecords] /\ Stored' = Stored \ b
      /\ \A k \in Stored' : rows'[k] = rows[k]
  <2>1. /\ rows' \in [Keys -> RowRecords] /\ Stored' = Stored \ b
        /\ \A k \in Keys : k \notin b => rows'[k] = rows[k]
    BY <1>2, <1>4, WithoutRows DEF ShopInv
  <2>2. QED
    BY <2>1 DEF Stored
<1>7. \A k \in Keys : rows'[k].date \in Dates /\ rows'[k].category \in Categories
  BY <1>6 DEF RowRecords
<1>8. /\ \A k \in Stored : rows[k].date # Malformed
      /\ \A s \in Scopes : cps[s].status = "ABSENT" \/ Day(s) >= purge.cutoff
      /\ purge.cutoff <= Cutoff(today) /\ purge.cutoff \in Int /\ actor = Retention
  BY <1>1 DEF ShopInv, Purging, ShopTypes, TypeOK
<1>9. Cutoff(today)' = Cutoff(today)
  BY <1>1 DEF Cutoff
<1>10. CASE EndsAfter(b)
  <2>1. actor' = Nobody /\ purge' = NoPurge /\ kept' = purge.cutoff
    BY <1>2, <1>10
  <2>2. NoPurge.phase = "none" /\ NoPurge.cutoff = 0 /\ NoPurge.todo = {}
        /\ Nobody # Retention /\ Nobody \notin Scopes
    BY ScopeFacts DEF NoPurge, Nobody, Retention
  <2>3. ShopTypes'
    <3>1. purge' = [phase |-> purge'.phase, cutoff |-> purge'.cutoff, todo |-> purge'.todo]
      BY <2>1 DEF NoPurge
    <3>2. purge'.cutoff \in Int
      BY <2>1, <2>2
    <3>3. TypeOK'
      BY <1>1, <1>7, <2>1, <2>2 DEF ShopInv, ShopTypes, TypeOK
    <3>4. QED
      BY <1>1, <1>6, <1>8, <2>1, <3>1, <3>2, <3>3 DEF ShopInv, ShopTypes
  <2>4. Scanning' /\ Purging'
    BY <2>1, <2>2 DEF Scanning, Purging
  <2>5. NothingComesBack'
    <3>1. ASSUME NEW k \in Stored'
          PROVE  rows'[k].date # Malformed /\ (rows'[k].date >= Boot => rows'[k].date >= kept')
      <4>1. k \in Stored /\ k \notin past /\ rows'[k] = rows[k] /\ k \in Keys
        BY <1>4, <1>6, <1>10 DEF Stored
      <4>2. rows[k].date # Malformed /\ ~(rows[k].date < purge.cutoff)
        BY <1>8, <4>1
      <4>3. rows[k].date \in Int
        BY <4>1, StoreAssumption DEF ShopInv, ShopTypes, RowRecords, Dates, Days, Malformed
      <4>4. QED
        BY <1>8, <2>1, <4>1, <4>2, <4>3
    <3>2. \A s \in Scopes : cps'[s].status # "ABSENT" => Day(s) >= kept'
      BY <1>1, <1>8, <2>1
    <3>3. QED
      BY <3>1, <3>2 DEF NothingComesBack, Backfills
  <2>6. Kept'
    BY <1>8, <1>9, <2>1, <2>5 DEF Kept
  <2>7. QED
    BY <1>5, <2>3, <2>4, <2>6 DEF ShopInv
<1>11. CASE ~EndsAfter(b)
  <2>1. purge' = [purge EXCEPT !.phase = "rows"] /\ UNCHANGED <<actor, kept>>
    BY <1>2, <1>11
  <2>2. purge = [phase |-> purge.phase, cutoff |-> purge.cutoff, todo |-> purge.todo]
    BY DEF ShopInv, ShopTypes
  <2>3. /\ purge'.phase = "rows" /\ purge'.cutoff = purge.cutoff /\ purge'.todo = {}
        /\ purge' = [phase |-> purge'.phase, cutoff |-> purge'.cutoff, todo |-> purge'.todo]
    <3>1. purge' = [phase |-> "rows", cutoff |-> purge.cutoff, todo |-> purge.todo]
      BY <2>1, <2>2
    <3>2. QED
      BY <1>1, <3>1
  <2>4. ShopTypes'
    <3>1. TypeOK'
      BY <1>1, <1>7, <1>8, <2>1, <2>3 DEF ShopInv, ShopTypes, TypeOK
    <3>2. QED
      BY <1>1, <1>6, <2>1, <2>3, <3>1 DEF ShopInv, ShopTypes
  <2>5. Scanning'
    BY <1>1, <2>1 DEF ShopInv, Scanning
  <2>6. Purging'
    <3>1. \A k \in Stored' : rows'[k].date # Malformed
      BY <1>6, <1>8
    <3>2. QED
      BY <1>1, <1>8, <1>9, <2>3, <3>1 DEF Purging
  <2>7. QED
    BY <1>5, <2>1, <2>4, <2>5, <2>6 DEF ShopInv
<1>12. QED
  BY <1>10, <1>11

-----------------------------------------------------------------------------
LEMMA ShopInit == Init => ShopInv
<1> SUFFICES ASSUME Init PROVE ShopInv
  OBVIOUS
<1>1. PICK old \in SUBSET OldRows :
        rows = [k \in Keys |-> IF k \in old THEN Row(Malformed, "TARGET") ELSE NoRow]
  BY DEF Init
<1>2. /\ today = Boot + 1 /\ cps = [s \in Scopes |-> NoScan] /\ actor = Nobody
      /\ purge = NoPurge /\ kept = 0 /\ scans = 0
  BY DEF Init
<1>3. /\ Row(Malformed, "TARGET") \in RowRecords /\ NoRow \in RowRecords
      /\ Row(Malformed, "TARGET").date = Malformed /\ Row(Malformed, "TARGET").category = "TARGET"
      /\ Row(Malformed, "TARGET").active = TRUE /\ NoRow.date = Malformed /\ NoRow.active = FALSE
      /\ NoRow.exists = FALSE
  BY DEF Row, NoRow, RowRecords, Dates, Categories
<1>4. rows \in [Keys -> RowRecords]
  BY <1>1, <1>3
<1>5. \A k \in Keys : /\ rows[k].date = Malformed
                      /\ rows[k].active => rows[k].category = "TARGET"
                      /\ rows[k].exists => rows[k].active
  BY <1>1, <1>3
<1>6. NoScan \in ScanRecords /\ NoScan.status = "ABSENT" /\ NoScan.stored = {} /\ NoScan.seen = {}
  BY DEF NoScan, ScanRecords, Stati
<1>7. \A s \in Scopes : cps[s] = NoScan
  BY <1>2
<1>8. NoPurge.phase = "none" /\ NoPurge.cutoff = 0 /\ NoPurge.todo = {} /\ Nobody # Retention
  BY DEF NoPurge, Nobody, Retention
<1>9. today \in Days /\ Cutoff(today) \in Int
  <2>1. Boot \in Nat \ {0} /\ LastDay \in Nat /\ Boot < LastDay /\ Window \in Nat
    BY StoreAssumption
  <2>2. QED
    BY <1>2, <2>1 DEF Days, Cutoff
<1>10. ShopTypes
  <2>1. scans \in 0..MaxScans
    BY <1>2, StoreAssumption
  <2>2. \A k \in Keys : rows[k].date \in Dates /\ rows[k].category \in Categories
    BY <1>4 DEF RowRecords
  <2>3. TypeOK
    BY <1>2, <1>6, <1>7, <1>8, <1>9, <2>1, <2>2 DEF TypeOK
  <2>4. purge = [phase |-> purge.phase, cutoff |-> purge.cutoff, todo |-> purge.todo]
    BY <1>2 DEF NoPurge
  <2>5. QED
    BY <1>2, <1>4, <1>6, <1>8, <2>3, <2>4 DEF ShopTypes
<1>11. Scanning /\ Purging /\ Kept
  <2>1. Nobody \notin Scopes
    BY ScopeFacts
  <2>2. QED
    BY <1>2, <1>8, <2>1 DEF Scanning, Purging, Kept, NothingComesBack
<1>12. SmartIsListed /\ InactiveIsMissing
  BY <1>5 DEF SmartIsListed, InactiveIsMissing, Stored
<1>13. Listed
  <2>1. \A d : ReadScopes(d) = {}
    BY <1>6, <1>7 DEF ReadScopes
  <2>2. QED
    BY <2>1 DEF Listed, Full
<1>14. QED
  BY <1>10, <1>11, <1>12, <1>13 DEF ShopInv

-----------------------------------------------------------------------------
(* The invariant of the delivery rows, in the run of all parts.            *)
LEMMA NextKeeps == ShopInv /\ [Next]_vars => ShopInv'
<1> SUFFICES ASSUME ShopInv, [Next]_vars PROVE ShopInv'
  OBVIOUS
<1>1. CASE Midnight
  BY <1>1, MidnightKeeps
<1>2. CASE StartPurge
  BY <1>2, StartPurgeKeeps
<1>3. CASE PurgeDate
  BY <1>3, PurgeDateKeeps
<1>4. CASE ListScopes
  BY <1>4, ListScopesKeeps
<1>5. CASE PurgeScope
  BY <1>5, PurgeScopeKeeps
<1>6. CASE PurgeRows
  BY <1>6, PurgeRowsKeeps
<1>7. CASE Stop
  BY <1>7, StopKeeps
<1>8. ASSUME NEW s \in Scopes, Scan(s) PROVE ShopInv'
  BY <1>8, ScanKeeps
<1>9. ASSUME NEW s \in Scopes, Page(s) PROVE ShopInv'
  BY <1>9, PageKeeps
<1>10. ASSUME NEW s \in Scopes, LastPage(s) PROVE ShopInv'
  BY <1>10, LastPageKeeps
<1>11. CASE UNCHANGED vars
  <2>1. UNCHANGED <<today, rows, cps, actor, purge, kept, scans>>
    BY <1>11 DEF vars
  <2>2. today' \in Int /\ today' >= today
    BY <2>1 DEF ShopInv, ShopTypes, TypeOK, Days
  <2>3. Kept' /\ SmartIsListed' /\ InactiveIsMissing' /\ Listed'
    BY <2>1, <2>2, StoredStays
  <2>4. ShopTypes' /\ Scanning'
    BY <2>1 DEF ShopInv, ShopTypes, TypeOK, Scanning
  <2>5. Purging'
    BY <2>1 DEF ShopInv, Purging, Stored, Cutoff
  <2>6. QED
    BY <2>3, <2>4, <2>5 DEF ShopInv
<1>12. QED
  BY <1>1, <1>2, <1>3, <1>4, <1>5, <1>6, <1>7, <1>8, <1>9, <1>10, <1>11 DEF Next

LEMMA ShopInvHolds == EvidenceSpec => []ShopInv
<1>1. EvidenceInit => ShopInv
  BY ShopInit DEF EvidenceInit
<1>2. ShopInv /\ [EvidenceNext]_evidenceVars => ShopInv'
  <2>1. [EvidenceNext]_evidenceVars => [Next]_vars
    BY DEF EvidenceNext, evidenceVars
  <2>2. QED
    BY <2>1, NextKeeps
<1>3. QED
  BY <1>1, <1>2, PTL DEF EvidenceSpec

LEMMA ActiveFollows == ShopInv => ActiveIsListed
<1> SUFFICES ASSUME ShopInv, NEW d \in WholeDays, \A s \in ReadScopes(d) : cps[s].seen # {},
                    NEW k \in RowsOf(d), rows[k].active
             PROVE  \E s \in ReadScopes(d) : k \in cps[s].stored
  BY DEF ActiveIsListed, ShopInv, ShopTypes
<1>1. d \in Boot..LastDay /\ d >= Cutoff(today) /\ Full(d)
  BY DEF WholeDays, Full
<1>2. k \in Keys /\ rows[k].date = d
  BY DEF RowsOf, Stored
<1>3. QED
  BY <1>1, <1>2 DEF ShopInv, Listed

(* The scope that an inactive row is missing from is one of its day; it    *)
(* contradicts the scans of the day, and for a smart control row the       *)
(* replay, which is the only one of its day.                               *)
LEMMA InactiveFollows == ShopInv => ListedIsActive
<1> SUFFICES ASSUME ShopInv, NEW d \in WholeDays, NEW k \in RowsOf(d), ~rows[k].active
             PROVE  /\ \E s \in ReadScopes(d) : k \notin cps[s].stored
                    /\ rows[k].category = "SMART_CONTROL"
                         => \A t \in ReadScopes(d) : Kind(t) = "smart" => k \notin cps[t].stored
  BY DEF ListedIsActive
<1>1. d >= Cutoff(today) /\ k \in Stored /\ rows[k].date = d
  BY DEF WholeDays, RowsOf
<1>2. PICK s \in Scopes \ Backfills :
        Covers(s, rows[k]) /\ cps[s].status # "ABSENT" /\ k \notin cps[s].stored
  BY <1>1 DEF ShopInv, InactiveIsMissing
<1>3. Day(s) = d /\ (rows[k].category = "SMART_CONTROL" => Kind(s) = "smart")
  BY <1>1, <1>2 DEF Covers
<1>4. s \in ReadScopes(d)
  BY <1>2, <1>3 DEF ReadScopes
<1>5. ASSUME rows[k].category = "SMART_CONTROL", NEW t \in ReadScopes(d), Kind(t) = "smart"
      PROVE  k \notin cps[t].stored
  <2>1. t \in Scopes /\ Day(t) = d
    BY DEF ReadScopes
  <2>2. t = <<Kind(t), Day(t)>> /\ s = <<Kind(s), Day(s)>>
    BY <1>2, <2>1, ScopeFacts
  <2>3. t = s
    BY <1>3, <1>5, <2>1, <2>2
  <2>4. QED
    BY <1>2, <2>3
<1>6. QED
  BY <1>2, <1>4, <1>5

(* A day whose scans are complete shows what they listed and nothing else, *)
(* and what the retention deleted never comes back: whatever scans, smart  *)
(* replays, backfills and purges interleave, wherever each of them dies,   *)
(* and whenever midnight comes.                                            *)
THEOREM DeliveriesAreListedHolds == EvidenceSpec => []DeliveriesAreListed
<1>1. ShopInv => DeliveriesAreListed
  BY ActiveFollows, InactiveFollows DEF DeliveriesAreListed, ShopInv, Kept
<1>2. QED
  BY <1>1, ShopInvHolds, PTL

-----------------------------------------------------------------------------
(* The budget rows: the inductive invariant.                               *)
Titles == {p.name : p \in Payloads}
Codes == {p.code : p \in Payloads}
Phases == {"collect", "evidence", "classify", "save", "scopes", "orphans", "history", "prune"}
CpStati == {"ABSENT", "RUNNING", "FAILED", "INCOMPLETE", "COMPLETE"}
Observations ==
  [key : BudgetKeys, payload : Payloads, day : Int, seen : Int, revised : BOOLEAN]
States == [payload : Payloads, day : Int, seen : Int]
ProjectRows == [payload : Payloads, dept : Titles, code : Codes]
Checkpoints == [status : CpStati, updated : Int, gen : 0..2]

StoreNumbers ==
  /\ s_now \in 1..LastBudgetDay /\ s_version \in 1..MaxVersion
  /\ s_events \in 0..MaxEvents /\ s_began \in Int
StoreObserved ==
  /\ s_obs \subseteq Observations
  /\ \A o \in s_obs : o.payload.org = OrgOf[o.key]
  /\ \A o, q \in s_obs : o.key = q.key /\ o.payload = q.payload => o = q
StoreTables ==
  /\ s_cur \in [BudgetKeys -> {S!NoState} \cup States]
  /\ s_rows \in [BudgetKeys -> {S!NoRow} \cup ProjectRows]

(* A current row has its project row and its observation.                  *)
StoreWhole ==
  \A k \in BudgetKeys : S!IsCurrent(k) =>
    /\ s_rows[k] # S!NoRow /\ s_rows[k].payload = s_cur[k].payload
    /\ \E o \in s_obs : o.key = k /\ o.payload = s_cur[k].payload

(* A department name was given by the source to the same organization.     *)
StoreNamed ==
  \A k \in BudgetKeys : s_rows[k] # S!NoRow /\ s_rows[k].dept # "" =>
    \E p \in Payloads : p.org = OrgOf[k] /\ p.name = s_rows[k].dept

(* A classification is that of the payload it carries.                     *)
StoreLabels == \A c \in s_classes : c.cat = c.payload.cat

(* A checkpoint of a day was last touched that day or later, and one that  *)
(* may be resumed has the receipts of its generation.                      *)
StoreScopes ==
  /\ s_cps \in [S!Scopes -> Checkpoints] /\ s_receipts \in [S!Scopes -> SUBSET S!Gens]
  /\ \A s \in S!Scopes : /\ s_cps[s].status # "ABSENT" => s_cps[s].updated >= s
                         /\ S!Active(s_cps[s]) => s_cps[s].gen \in s_receipts[s]

StoreInv ==
  /\ StoreNumbers /\ s_pc \in Phases
  /\ StoreObserved /\ StoreTables /\ StoreWhole /\ StoreNamed /\ StoreLabels /\ StoreScopes

LEMMA StoreConstants ==
  /\ BudgetWindow \in Nat /\ ReceiptWindow \in Nat /\ MaxEvents \in Nat
  /\ LastBudgetDay \in Nat /\ LastBudgetDay >= 1 /\ MaxVersion \in Nat /\ MaxVersion >= 1
  /\ Daily \subseteq 1..LastBudgetDay /\ S!Scopes \subseteq Int
BY InstancesAssumption DEF S!StoreAssumption, S!Scopes

LEMMA RowIsARecord == \A r \in ProjectRows : r # S!NoRow
BY DEF ProjectRows, S!NoRow

LEMMA StateIsARecord == \A r \in States : r # S!NoState
BY DEF States, S!NoState

(* What a key has in the two tables.                                       *)
LEMMA TableFacts ==
  ASSUME StoreTables, NEW k \in BudgetKeys
  PROVE  /\ s_cur[k] = S!NoState \/ s_cur[k] \in States
         /\ s_rows[k] = S!NoRow \/ s_rows[k] \in ProjectRows
BY DEF StoreTables

LEMMA StoreStarts == S!Init => StoreInv
<1> SUFFICES ASSUME S!Init PROVE StoreInv
  OBVIOUS
<1>1. StoreNumbers
  BY StoreConstants DEF S!Init, StoreNumbers
<1>2. s_pc \in Phases /\ StoreObserved /\ StoreTables /\ StoreLabels
  BY DEF S!Init, Phases, StoreObserved, StoreTables, StoreLabels
<1>3. StoreWhole /\ StoreNamed
  BY DEF S!Init, StoreWhole, StoreNamed, S!IsCurrent
<1>4. StoreScopes
  <2>1. S!NoCp \in Checkpoints
    BY DEF S!NoCp, Checkpoints, CpStati
  <2>2. S!NoCp.status = "ABSENT" /\ ~S!Active(S!NoCp)
    BY DEF S!NoCp, S!Active
  <2>3. s_cps = [s \in S!Scopes |-> S!NoCp] /\ s_receipts = [s \in S!Scopes |-> {}]
    BY DEF S!Init
  <2>4. QED
    BY <2>1, <2>2, <2>3 DEF StoreScopes
<1>5. QED
  BY <1>1, <1>2, <1>3, <1>4 DEF StoreInv

-----------------------------------------------------------------------------
(* The budget rows: the steps.  First, what is not touched.                *)
LEMMA RowsFrame ==
  ASSUME StoreInv, UNCHANGED <<s_obs, s_cur, s_rows>>
  PROVE  StoreObserved' /\ StoreTables' /\ StoreWhole' /\ StoreNamed'
<1>1. StoreObserved' /\ StoreTables'
  BY DEF StoreInv, StoreObserved, StoreTables
<1>2. StoreWhole'
  BY DEF StoreInv, StoreWhole, S!IsCurrent
<1>3. StoreNamed'
  BY DEF StoreInv, StoreNamed
<1>4. QED
  BY <1>1, <1>2, <1>3

LEMMA ScopesFrame ==
  ASSUME StoreInv, UNCHANGED <<s_cps, s_receipts>>
  PROVE  StoreScopes'
BY DEF StoreInv, StoreScopes

LEMMA PreserveKeepsStore ==
  ASSUME StoreInv, S!Preserve
  PROVE  StoreInv'
<1>0. PICK k \in BudgetKeys, p \in Payloads, current \in BOOLEAN :
        /\ p.org = OrgOf[k]
        /\ s_obs' = IF S!Observed(k, p) = {}
                    THEN s_obs \cup {S!Observation(k, p, IF current THEN s_now ELSE s_now - 1)}
                    ELSE s_obs
        /\ IF current
             THEN /\ s_cur' = [s_cur EXCEPT ![k] = [payload |-> p, day |-> s_now, seen |-> s_now]]
                  /\ s_rows' = [s_rows EXCEPT ![k] =
                                  [payload |-> p, dept |-> p.name, code |-> p.code]]
             ELSE UNCHANGED <<s_cur, s_rows>>
  BY DEF S!Preserve
<1>1. PICK o :
        /\ p.org = OrgOf[k]
        /\ o = S!Observation(k, p, IF current THEN s_now ELSE s_now - 1)
        /\ s_obs' = IF S!Observed(k, p) = {} THEN s_obs \cup {o} ELSE s_obs
        /\ IF current
             THEN /\ s_cur' = [s_cur EXCEPT ![k] = [payload |-> p, day |-> s_now, seen |-> s_now]]
                  /\ s_rows' = [s_rows EXCEPT ![k] =
                                  [payload |-> p, dept |-> p.name, code |-> p.code]]
             ELSE UNCHANGED <<s_cur, s_rows>>
  BY <1>0
<1>2. /\ s_events < MaxEvents /\ s_events' = s_events + 1
      /\ UNCHANGED <<s_now, s_classes, s_cps, s_receipts, s_version, s_pc, s_began>>
  BY DEF S!Preserve, S!labels, S!scopes, S!cycle
<1>3. StoreNumbers'
  BY <1>2, StoreConstants DEF StoreInv, StoreNumbers
<1>4. s_pc' \in Phases /\ StoreLabels'
  BY <1>2 DEF StoreInv, StoreLabels
<1>5. StoreScopes'
  BY <1>2, ScopesFrame
<1>6. o \in Observations /\ o.key = k /\ o.payload = p
  BY <1>1, StoreConstants DEF StoreInv, StoreNumbers, Observations, S!Observation
<1>7. StoreObserved'
  BY <1>1, <1>6 DEF StoreInv, StoreObserved, S!Observed
<1>8. \E q \in s_obs' : q.key = k /\ q.payload = p
  BY <1>1, <1>6 DEF S!Observed
<1>9. CASE current
  <2>1. /\ s_cur' = [s_cur EXCEPT ![k] = [payload |-> p, day |-> s_now, seen |-> s_now]]
        /\ s_rows' = [s_rows EXCEPT ![k] = [payload |-> p, dept |-> p.name, code |-> p.code]]
        /\ s_obs \subseteq s_obs'
    BY <1>1, <1>9
  <2>2. [payload |-> p, day |-> s_now, seen |-> s_now] \in States
    BY DEF StoreInv, StoreNumbers, States
  <2>3. [payload |-> p, dept |-> p.name, code |-> p.code] \in ProjectRows
    BY DEF ProjectRows, Titles, Codes
  <2>4. StoreTables'
    BY <2>1, <2>2, <2>3 DEF StoreInv, StoreTables
  <2>5. s_cur'[k].payload = p /\ s_rows'[k].payload = p /\ s_rows'[k].dept = p.name
        /\ s_rows'[k] # S!NoRow
    BY <2>1, <2>3, RowIsARecord DEF StoreInv, StoreTables
  <2>6. \A j \in BudgetKeys \ {k} : s_cur'[j] = s_cur[j] /\ s_rows'[j] = s_rows[j]
    BY <2>1 DEF StoreInv, StoreTables
  <2>7. StoreWhole'
    BY <1>8, <2>1, <2>5, <2>6 DEF StoreInv, StoreWhole, S!IsCurrent
  <2>8. StoreNamed'
    BY <1>1, <2>5, <2>6 DEF StoreInv, StoreNamed
  <2>9. QED
    BY <1>2, <1>3, <1>4, <1>5, <1>7, <2>4, <2>7, <2>8 DEF StoreInv
<1>10. CASE ~current
  <2>1. UNCHANGED <<s_cur, s_rows>> /\ s_obs \subseteq s_obs'
    BY <1>1, <1>10
  <2>2. StoreTables' /\ StoreNamed'
    BY <2>1 DEF StoreInv, StoreTables, StoreNamed
  <2>3. StoreWhole'
    BY <2>1 DEF StoreInv, StoreWhole, S!IsCurrent
  <2>4. QED
    BY <1>2, <1>3, <1>4, <1>5, <1>7, <2>2, <2>3 DEF StoreInv
<1>11. QED
  BY <1>9, <1>10

LEMMA ScopeKeepsStore ==
  ASSUME StoreInv, S!Scope
  PROVE  StoreInv'
<1>1. /\ s_events < MaxEvents /\ s_events' = s_events + 1
      /\ UNCHANGED <<s_now, s_obs, s_cur, s_rows, s_classes, s_version, s_pc, s_began>>
  BY DEF S!Scope, S!stored, S!labels, S!cycle
<1>2. StoreNumbers'
  BY <1>1, StoreConstants DEF StoreInv, StoreNumbers
<1>3. s_pc' \in Phases /\ StoreLabels'
  BY <1>1 DEF StoreInv, StoreLabels
<1>4. StoreObserved' /\ StoreTables' /\ StoreWhole' /\ StoreNamed'
  BY <1>1, RowsFrame
<1>5. PICK s \in S!Scopes :
        /\ s <= s_now
        /\ \/ /\ s_cps[s].gen < 2
              /\ s_cps' = [s_cps EXCEPT ![s] =
                            [status |-> "RUNNING", updated |-> s_now, gen |-> s_cps[s].gen + 1]]
              /\ s_receipts' = [s_receipts EXCEPT ![s] = @ \cup {s_cps[s].gen + 1}]
           \/ /\ s_cps[s].status = "RUNNING"
              /\ \E end \in {"COMPLETE", "FAILED", "INCOMPLETE"} :
                   s_cps' = [s_cps EXCEPT ![s].status = end, ![s].updated = s_now]
              /\ UNCHANGED s_receipts
  BY DEF S!Scope
<1>6. s_cps[s] \in Checkpoints /\ s_now \in Int /\ s \in Int
  BY StoreConstants DEF StoreInv, StoreScopes, StoreNumbers
<1>7. PICK c :
        /\ c \in Checkpoints /\ c.updated = s_now
        /\ s_cps' = [s_cps EXCEPT ![s] = c]
        /\ \/ /\ c.gen = s_cps[s].gen + 1
              /\ s_receipts' = [s_receipts EXCEPT ![s] = @ \cup {c.gen}]
           \/ /\ c.gen = s_cps[s].gen /\ S!Active(s_cps[s]) /\ UNCHANGED s_receipts
  <2>1. CASE s_receipts' = [s_receipts EXCEPT ![s] = @ \cup {s_cps[s].gen + 1}]
             /\ s_cps[s].gen < 2
             /\ s_cps' = [s_cps EXCEPT ![s] =
                            [status |-> "RUNNING", updated |-> s_now, gen |-> s_cps[s].gen + 1]]
    <3>1. s_cps[s].gen + 1 \in 0..2
      BY <1>6, <2>1 DEF Checkpoints
    <3>2. PICK c : c = [status |-> "RUNNING", updated |-> s_now, gen |-> s_cps[s].gen + 1]
      OBVIOUS
    <3>3. c \in Checkpoints
      BY <3>1, <3>2, <1>6, Zenon DEF Checkpoints, CpStati
    <3>4. c.updated = s_now /\ c.gen = s_cps[s].gen + 1
      BY <3>2
    <3>5. QED
      BY <2>1, <3>2, <3>3, <3>4
  <2>2. CASE /\ s_cps[s].status = "RUNNING" /\ UNCHANGED s_receipts
             /\ \E end \in {"COMPLETE", "FAILED", "INCOMPLETE"} :
                  s_cps' = [s_cps EXCEPT ![s].status = end, ![s].updated = s_now]
    <3>1. PICK end \in {"COMPLETE", "FAILED", "INCOMPLETE"} :
            s_cps' = [s_cps EXCEPT ![s].status = end, ![s].updated = s_now]
      BY <2>2
    <3>2. end \in CpStati
      BY DEF CpStati
    <3>3. PICK c : c = [s_cps[s] EXCEPT !.status = end, !.updated = s_now]
      OBVIOUS
    <3>4. c \in Checkpoints /\ c.updated = s_now /\ c.gen = s_cps[s].gen
      BY <1>6, <3>2, <3>3 DEF Checkpoints
    <3>5. s_cps' = [s_cps EXCEPT ![s] = c]
      BY <3>1, <3>3 DEF StoreInv, StoreScopes
    <3>6. S!Active(s_cps[s])
      BY <2>2 DEF S!Active
    <3>7. QED
      BY <2>2, <3>4, <3>5, <3>6
  <2>3. QED
    BY <1>5, <2>1, <2>2
<1>8. s_cps[s].gen \in 0..2 /\ c.gen \in 0..2
  BY <1>6, <1>7 DEF Checkpoints
<1>9. /\ s_cps' \in [S!Scopes -> Checkpoints] /\ s_receipts' \in [S!Scopes -> SUBSET S!Gens]
      /\ s_cps'[s] = c /\ \A r \in S!Scopes \ {s} : s_cps'[r] = s_cps[r]
      /\ \A r \in S!Scopes \ {s} : s_receipts'[r] = s_receipts[r]
      /\ c.gen \in s_receipts'[s]
  BY <1>7, <1>8 DEF StoreInv, StoreScopes, S!Gens
<1>10. \A r \in S!Scopes : s_cps'[r].status # "ABSENT" => s_cps'[r].updated >= r
  BY <1>5, <1>6, <1>7, <1>9 DEF StoreInv, StoreScopes
<1>11. \A r \in S!Scopes : S!Active(s_cps'[r]) => s_cps'[r].gen \in s_receipts'[r]
  BY <1>9 DEF StoreInv, StoreScopes
<1>12. StoreScopes'
  BY <1>9, <1>10, <1>11 DEF StoreScopes
<1>13. QED
  BY <1>2, <1>3, <1>4, <1>12 DEF StoreInv

(* What a repair may do to the rows.                                       *)
LEMMA RepairedRows ==
  ASSUME StoreInv, s_pc' \in Phases,
         UNCHANGED <<s_now, s_obs, s_cur, s_classes, s_cps, s_receipts, s_version, s_began, s_events>>,
         s_rows' = [k \in BudgetKeys |-> s_rows'[k]],
         \A k \in BudgetKeys :
           \/ s_rows'[k] = s_rows[k]
           \/ /\ s_rows[k] \in ProjectRows /\ s_rows'[k] \in ProjectRows
              /\ s_rows'[k].payload = s_rows[k].payload
              /\ \E p \in Payloads : p.org = OrgOf[k] /\ p.name = s_rows'[k].dept
  PROVE  StoreInv'
<1>1. StoreNumbers' /\ StoreObserved' /\ StoreLabels'
  BY DEF StoreInv, StoreNumbers, StoreObserved, StoreLabels
<1>2. StoreScopes'
  BY ScopesFrame
<1>3. StoreTables'
  BY DEF StoreInv, StoreTables
<1>4. StoreWhole'
  BY RowIsARecord DEF StoreInv, StoreWhole, S!IsCurrent
<1>5. StoreNamed'
  BY RowIsARecord DEF StoreInv, StoreNamed
<1>6. QED
  BY <1>1, <1>2, <1>3, <1>4, <1>5 DEF StoreInv

LEMMA RepairSameKeepsStore ==
  ASSUME StoreInv, S!RepairSame
  PROVE  StoreInv'
<1>1. /\ s_pc' \in {"evidence", "classify"}
      /\ UNCHANGED <<s_now, s_obs, s_cur, s_classes, s_cps, s_receipts, s_version, s_began, s_events>>
  BY DEF S!RepairSame, S!labels, S!scopes
<1>2. PICK last \in BudgetKeys \cup {0} :
        \E f \in [{k \in 1..last : S!Blank(k) /\ S!Named(k) # {}} -> s_obs] :
          /\ \A k \in DOMAIN f : f[k] \in S!Named(k)
          /\ s_rows' = [k \in BudgetKeys |->
               IF k \notin DOMAIN f THEN s_rows[k]
               ELSE [s_rows[k] EXCEPT !.dept = f[k].payload.name,
                                      !.code = IF @ = "" THEN f[k].payload.code ELSE @]]
  BY DEF S!RepairSame
<1>3. PICK f \in [{k \in 1..last : S!Blank(k) /\ S!Named(k) # {}} -> s_obs] :
        /\ \A k \in DOMAIN f : f[k] \in S!Named(k)
        /\ s_rows' = [k \in BudgetKeys |->
             IF k \notin DOMAIN f THEN s_rows[k]
             ELSE [s_rows[k] EXCEPT !.dept = f[k].payload.name,
                                    !.code = IF @ = "" THEN f[k].payload.code ELSE @]]
  BY <1>2
<1>4. ASSUME NEW k \in BudgetKeys
      PROVE  \/ s_rows'[k] = s_rows[k]
             \/ /\ s_rows[k] \in ProjectRows /\ s_rows'[k] \in ProjectRows
                /\ s_rows'[k].payload = s_rows[k].payload
                /\ \E p \in Payloads : p.org = OrgOf[k] /\ p.name = s_rows'[k].dept
  <2>1. CASE k \notin DOMAIN f
    BY <1>3, <2>1
  <2>2. CASE k \in DOMAIN f
    <3>1. S!Blank(k) /\ f[k] \in s_obs /\ f[k].key = k
      BY <1>3, <2>2 DEF S!Named
    <3>2. f[k].payload \in Payloads /\ f[k].payload.org = OrgOf[k]
      BY <3>1 DEF StoreInv, StoreObserved, Observations
    <3>3. s_rows[k] \in ProjectRows
      BY <3>1, TableFacts DEF StoreInv, S!Blank
    <3>4. PICK code : code = IF s_rows[k].code = "" THEN f[k].payload.code ELSE s_rows[k].code
      OBVIOUS
    <3>5. code \in Codes /\ f[k].payload.name \in Titles
      BY <3>2, <3>3, <3>4 DEF Codes, Titles, ProjectRows
    <3>6. s_rows'[k] = [s_rows[k] EXCEPT !.dept = f[k].payload.name, !.code = code]
      BY <1>3, <2>2, <3>4
    <3>7. /\ s_rows'[k] \in ProjectRows /\ s_rows'[k].payload = s_rows[k].payload
          /\ s_rows'[k].dept = f[k].payload.name
      BY <3>3, <3>5, <3>6 DEF ProjectRows
    <3>8. QED
      BY <3>2, <3>3, <3>7
  <2>3. QED
    BY <2>1, <2>2
<1>5. s_rows' = [k \in BudgetKeys |-> s_rows'[k]]
  BY <1>3
<1>6. QED
  BY <1>1, <1>4, <1>5, RepairedRows DEF Phases

LEMMA RepairByCodeKeepsStore ==
  ASSUME StoreInv, S!RepairByCode
  PROVE  StoreInv'
<1>1. /\ s_pc' = "classify"
      /\ UNCHANGED <<s_now, s_obs, s_cur, s_classes, s_cps, s_receipts, s_version, s_began, s_events>>
  BY DEF S!RepairByCode, S!labels, S!scopes
<1>2. PICK last \in BudgetKeys \cup {0} :
        \E f \in [{k \in 1..last : S!Agreed(k)} -> {p.name : p \in Payloads}] :
          /\ \A k \in DOMAIN f : f[k] \in S!Names(k)
          /\ s_rows' = [k \in BudgetKeys |->
               IF k \in DOMAIN f THEN [s_rows[k] EXCEPT !.dept = f[k]] ELSE s_rows[k]]
  BY DEF S!RepairByCode
<1>3. PICK f \in [{k \in 1..last : S!Agreed(k)} -> {p.name : p \in Payloads}] :
        /\ \A k \in DOMAIN f : f[k] \in S!Names(k)
        /\ s_rows' = [k \in BudgetKeys |->
             IF k \in DOMAIN f THEN [s_rows[k] EXCEPT !.dept = f[k]] ELSE s_rows[k]]
  BY <1>2
<1>4. ASSUME NEW k \in BudgetKeys
      PROVE  \/ s_rows'[k] = s_rows[k]
             \/ /\ s_rows[k] \in ProjectRows /\ s_rows'[k] \in ProjectRows
                /\ s_rows'[k].payload = s_rows[k].payload
                /\ \E p \in Payloads : p.org = OrgOf[k] /\ p.name = s_rows'[k].dept
  <2>1. CASE k \notin DOMAIN f
    BY <1>3, <2>1
  <2>2. CASE k \in DOMAIN f
    <3>1. S!Blank(k) /\ f[k] \in Titles /\ f[k] \in S!Names(k)
      BY <1>3, <2>2 DEF Titles, S!Agreed
    <3>2. \E p \in Payloads : p.org = OrgOf[k] /\ p.name = f[k]
      <4>1. CASE \E j \in BudgetKeys : S!SameOrg(k, j) /\ s_rows[j] # S!NoRow /\ f[k] = s_rows[j].dept
        <5>1. f[k] # ""
          BY <3>1 DEF S!Names
        <5>2. QED
          BY <4>1, <5>1 DEF StoreInv, StoreNamed, S!SameOrg
      <4>2. CASE \E o \in s_obs : S!SameOrg(k, o.key) /\ f[k] = o.payload.name
        BY <4>2 DEF StoreInv, StoreObserved, Observations, S!SameOrg
      <4>3. QED
        BY <3>1, <4>1, <4>2 DEF S!Names
    <3>3. s_rows[k] \in ProjectRows
      BY <3>1, TableFacts DEF StoreInv, S!Blank
    <3>4. s_rows'[k] = [s_rows[k] EXCEPT !.dept = f[k]]
      BY <1>3, <2>2
    <3>5. /\ s_rows'[k] \in ProjectRows /\ s_rows'[k].payload = s_rows[k].payload
          /\ s_rows'[k].dept = f[k]
      BY <3>1, <3>3, <3>4 DEF ProjectRows
    <3>6. QED
      BY <3>2, <3>3, <3>5
  <2>3. QED
    BY <2>1, <2>2
<1>5. s_rows' = [k \in BudgetKeys |-> s_rows'[k]]
  BY <1>3
<1>6. QED
  BY <1>1, <1>4, <1>5, RepairedRows DEF Phases

-----------------------------------------------------------------------------
(* The steps that store no row and delete none.                            *)
LEMMA QuietKeepsStore ==
  ASSUME StoreInv,
         S!Tomorrow \/ S!Upgrade \/ S!ClassifyRead \/ S!ClassifyEnd \/ S!SelectHistory
           \/ S!Prune \/ S!Stop
  PROVE  StoreInv'
<1>1. UNCHANGED <<s_obs, s_cur, s_rows, s_classes, s_cps, s_receipts, s_events>>
  BY DEF S!Tomorrow, S!Upgrade, S!ClassifyRead, S!ClassifyEnd, S!SelectHistory, S!Prune, S!Stop,
         S!stored, S!labels, S!scopes
<1>2. s_pc' \in Phases
  BY DEF S!Tomorrow, S!Upgrade, S!ClassifyRead, S!ClassifyEnd, S!SelectHistory, S!Prune, S!Stop,
         S!cycle, StoreInv, Phases
<1>3. /\ s_now' = s_now \/ (s_now < LastBudgetDay /\ s_now' = s_now + 1)
      /\ s_version' = s_version \/ (s_version < MaxVersion /\ s_version' = s_version + 1)
      /\ s_began' \in {s_began, s_now, 0}
  BY DEF S!Tomorrow, S!Upgrade, S!ClassifyRead, S!ClassifyEnd, S!SelectHistory, S!Prune, S!Stop,
         S!cycle
<1>4. StoreNumbers'
  BY <1>1, <1>3, StoreConstants DEF StoreInv, StoreNumbers
<1>5. StoreLabels'
  BY <1>1 DEF StoreInv, StoreLabels
<1>6. QED
  BY <1>1, <1>2, <1>4, <1>5, RowsFrame, ScopesFrame DEF StoreInv

LEMMA SaveKeepsStore ==
  ASSUME StoreInv, S!SaveClassification
  PROVE  StoreInv'
<1>1. /\ s_pc' = "classify"
      /\ UNCHANGED <<s_now, s_obs, s_cur, s_rows, s_cps, s_receipts, s_version, s_began, s_events>>
  BY DEF S!SaveClassification, S!stored, S!scopes
<1>2. s_classes' \subseteq s_classes \cup {S!Labelled(s_read)}
  BY DEF S!SaveClassification, S!labels
<1>3. StoreLabels'
  BY <1>2 DEF StoreInv, StoreLabels, S!Labelled
<1>4. StoreNumbers' /\ s_pc' \in Phases
  BY <1>1 DEF StoreInv, StoreNumbers, Phases
<1>5. QED
  BY <1>1, <1>3, <1>4, RowsFrame, ScopesFrame DEF StoreInv

(* The purge of one scope.  A checkpoint that may be resumed keeps the     *)
(* receipts of its generation unless it is forgotten with them.            *)
LEMMA PurgeScopeKeepsStore ==
  ASSUME StoreInv, S!PurgeScope
  PROVE  StoreInv'
<1>1. UNCHANGED <<s_now, s_obs, s_cur, s_rows, s_classes, s_version, s_pc, s_began, s_events>>
  BY DEF S!PurgeScope, S!stored, S!labels
<1>2. PICK s :
        /\ s_receipts' = [s_receipts EXCEPT ![s] =
                            IF S!Forgotten(s) \/ S!Compacted(s) THEN {} ELSE @ \cap {s_cps[s].gen}]
        /\ s_cps' = [s_cps EXCEPT ![s] = IF S!Forgotten(s) THEN S!NoCp ELSE @]
  BY DEF S!PurgeScope
<1>3. S!NoCp \in Checkpoints /\ S!NoCp.status = "ABSENT" /\ ~S!Active(S!NoCp)
  <2>1. S!NoCp \in Checkpoints
    BY DEF S!NoCp, Checkpoints, CpStati
  <2>2. S!NoCp.status = "ABSENT" /\ ~S!Active(S!NoCp)
    BY DEF S!NoCp, S!Active
  <2>3. QED
    BY <2>1, <2>2
<1>4. ASSUME NEW r \in S!Scopes
      PROVE  \/ s_cps'[r] = S!NoCp
             \/ /\ s_cps'[r] = s_cps[r]
                /\ S!Active(s_cps[r]) => s_cps[r].gen \in s_receipts'[r]
  <2>1. CASE r # s
    BY <1>2, <2>1 DEF StoreInv, StoreScopes
  <2>2. CASE r = s
    <3>1. S!Compacted(s) => ~S!Active(s_cps[s])
      BY DEF S!Compacted, S!DailyComplete, S!Active
    <3>2. QED
      BY <1>2, <2>2, <3>1 DEF StoreInv, StoreScopes
  <2>3. QED
    BY <2>1, <2>2
<1>5. /\ s_cps' \in [S!Scopes -> Checkpoints]
      /\ s_receipts' \in [S!Scopes -> SUBSET S!Gens]
  BY <1>2, <1>3 DEF StoreInv, StoreScopes
<1>6. StoreScopes'
  BY <1>3, <1>4, <1>5 DEF StoreInv, StoreScopes
<1>7. StoreNumbers' /\ s_pc' \in Phases /\ StoreLabels'
  BY <1>1 DEF StoreInv, StoreNumbers, StoreLabels
<1>8. QED
  BY <1>1, <1>6, <1>7, RowsFrame DEF StoreInv

LEMMA ExpireKeepsStore ==
  ASSUME StoreInv, S!Expire
  PROVE  StoreInv'
<1>1. /\ s_pc' \in {s_pc, "orphans"}
      /\ UNCHANGED <<s_now, s_obs, s_rows, s_classes, s_cps, s_receipts, s_version, s_began, s_events>>
  BY DEF S!Expire, S!labels, S!scopes
<1>2. PICK k : s_cur' = s_cur \/ s_cur' = [s_cur EXCEPT ![k] = S!NoState]
  BY DEF S!Expire
<1>3. \A j \in BudgetKeys : s_cur'[j] = s_cur[j] \/ s_cur'[j] = S!NoState
  BY <1>2 DEF StoreInv, StoreTables
<1>4. StoreTables'
  BY <1>1, <1>2 DEF StoreInv, StoreTables
<1>5. StoreWhole'
  BY <1>1, <1>3 DEF StoreInv, StoreWhole, S!IsCurrent
<1>6. StoreNumbers' /\ s_pc' \in Phases /\ StoreLabels' /\ StoreObserved' /\ StoreNamed'
  BY <1>1 DEF StoreInv, StoreNumbers, StoreLabels, StoreObserved, StoreNamed, Phases
<1>7. QED
  BY <1>1, <1>4, <1>5, <1>6, ScopesFrame DEF StoreInv

LEMMA OrphansKeepsStore ==
  ASSUME StoreInv, S!Orphans
  PROVE  StoreInv'
<1>1. /\ s_pc' = "history" /\ s_classes' \subseteq s_classes
      /\ s_rows' = [k \in BudgetKeys |-> IF S!IsCurrent(k) THEN s_rows[k] ELSE S!NoRow]
      /\ UNCHANGED <<s_now, s_obs, s_cur, s_cps, s_receipts, s_version, s_began, s_events>>
  BY DEF S!Orphans, S!scopes
<1>2. StoreTables'
  BY <1>1 DEF StoreInv, StoreTables
<1>3. StoreWhole'
  BY <1>1 DEF StoreInv, StoreWhole, S!IsCurrent
<1>4. StoreNamed'
  BY <1>1 DEF StoreInv, StoreNamed
<1>5. StoreNumbers' /\ s_pc' \in Phases /\ StoreLabels' /\ StoreObserved'
  BY <1>1 DEF StoreInv, StoreNumbers, StoreLabels, StoreObserved, Phases
<1>6. QED
  BY <1>1, <1>2, <1>3, <1>4, <1>5, ScopesFrame DEF StoreInv

(* An observation that a current row points at is among those that stay.   *)
LEMMA DeleteHistoryKeepsStore ==
  ASSUME StoreInv, S!DeleteHistory
  PROVE  StoreInv'
<1>1. /\ s_pc' \in {"prune", "history"}
      /\ UNCHANGED <<s_now, s_cur, s_rows, s_classes, s_cps, s_receipts, s_version, s_began, s_events>>
  BY DEF S!DeleteHistory, S!labels, S!scopes
<1>2. PICK chosen, gone :
        /\ chosen \subseteq s_obs /\ gone \subseteq chosen /\ \A o \in gone : ~S!PointedAt(o)
        /\ s_obs' = (s_obs \ chosen) \cup {[o EXCEPT !.revised = FALSE] : o \in chosen \ gone}
  BY DEF S!DeleteHistory
<1>3. ASSUME NEW o \in s_obs
      PROVE  /\ [o EXCEPT !.revised = FALSE] \in Observations
             /\ [o EXCEPT !.revised = FALSE].key = o.key
             /\ [o EXCEPT !.revised = FALSE].payload = o.payload
  BY DEF StoreInv, StoreObserved, Observations
<1>4. ASSUME NEW q \in s_obs'
      PROVE  \E o \in s_obs : /\ q.key = o.key /\ q.payload = o.payload /\ q \in Observations
                              /\ q = IF o \in chosen THEN [o EXCEPT !.revised = FALSE] ELSE o
  <2>1. CASE q \in s_obs \ chosen
    BY <2>1 DEF StoreInv, StoreObserved
  <2>2. CASE q \in {[o EXCEPT !.revised = FALSE] : o \in chosen \ gone}
    <3>1. PICK o \in chosen : q = [o EXCEPT !.revised = FALSE]
      BY <2>2
    <3>2. o \in s_obs
      BY <1>2
    <3>3. QED
      BY <1>3, <3>1, <3>2
  <2>3. QED
    BY <1>2, <2>1, <2>2
<1>5. StoreObserved'
  <2>1. s_obs' \subseteq Observations /\ \A q \in s_obs' : q.payload.org = OrgOf[q.key]
    BY <1>4 DEF StoreInv, StoreObserved
  <2>2. ASSUME NEW q \in s_obs', NEW r \in s_obs', q.key = r.key, q.payload = r.payload
        PROVE  q = r
    <3>1. PICK o \in s_obs : /\ q.key = o.key /\ q.payload = o.payload
                            /\ q = IF o \in chosen THEN [o EXCEPT !.revised = FALSE] ELSE o
      BY <1>4
    <3>2. PICK p \in s_obs : /\ r.key = p.key /\ r.payload = p.payload
                            /\ r = IF p \in chosen THEN [p EXCEPT !.revised = FALSE] ELSE p
      BY <1>4
    <3>3. o = p
      BY <2>2, <3>1, <3>2 DEF StoreInv, StoreObserved
    <3>4. QED
      BY <3>1, <3>2, <3>3
  <2>3. QED
    BY <2>1, <2>2 DEF StoreObserved
<1>6. StoreWhole'
  <2>1. SUFFICES ASSUME NEW k \in BudgetKeys, S!IsCurrent(k)
                 PROVE  \E q \in s_obs' : q.key = k /\ q.payload = s_cur[k].payload
    BY <1>1 DEF StoreInv, StoreWhole, S!IsCurrent
  <2>2. PICK o \in s_obs : o.key = k /\ o.payload = s_cur[k].payload
    BY <2>1 DEF StoreInv, StoreWhole
  <2>3. o \notin gone
    BY <1>2, <2>1, <2>2 DEF S!PointedAt
  <2>4. CASE o \in chosen
    BY <1>2, <1>3, <2>2, <2>3, <2>4
  <2>5. CASE o \notin chosen
    BY <1>2, <2>2, <2>5
  <2>6. QED
    BY <2>4, <2>5
<1>7. StoreNumbers' /\ s_pc' \in Phases /\ StoreLabels' /\ StoreTables' /\ StoreNamed'
  BY <1>1 DEF StoreInv, StoreNumbers, StoreLabels, StoreTables, StoreNamed, Phases
<1>8. QED
  BY <1>1, <1>5, <1>6, <1>7, ScopesFrame DEF StoreInv

LEMMA StoreStep ==
  ASSUME StoreInv, S!Next
  PROVE  StoreInv'
<1>1. CASE S!Preserve
  BY <1>1, PreserveKeepsStore
<1>2. CASE S!Scope
  BY <1>2, ScopeKeepsStore
<1>3. CASE S!RepairSame
  BY <1>3, RepairSameKeepsStore
<1>4. CASE S!RepairByCode
  BY <1>4, RepairByCodeKeepsStore
<1>5. CASE S!SaveClassification
  BY <1>5, SaveKeepsStore
<1>6. CASE S!PurgeScope
  BY <1>6, PurgeScopeKeepsStore
<1>7. CASE S!Expire
  BY <1>7, ExpireKeepsStore
<1>8. CASE S!Orphans
  BY <1>8, OrphansKeepsStore
<1>9. CASE S!DeleteHistory
  BY <1>9, DeleteHistoryKeepsStore
<1>10. CASE S!Tomorrow \/ S!Upgrade \/ S!ClassifyRead \/ S!ClassifyEnd \/ S!SelectHistory
              \/ S!Prune \/ S!Stop
  BY <1>10, QuietKeepsStore
<1>11. QED
  BY <1>1, <1>2, <1>3, <1>4, <1>5, <1>6, <1>7, <1>8, <1>9, <1>10 DEF S!Next

LEMMA StoreInvHolds == EvidenceSpec => []StoreInv
<1>1. EvidenceInit => StoreInv
  BY StoreStarts DEF EvidenceInit
<1>2. StoreInv /\ [EvidenceNext]_evidenceVars => StoreInv'
  <2> SUFFICES ASSUME StoreInv, [EvidenceNext]_evidenceVars PROVE StoreInv'
    OBVIOUS
  <2>1. S!Next \/ UNCHANGED storeVars
    BY DEF EvidenceNext, evidenceVars
  <2>2. CASE UNCHANGED storeVars
    <3>1. UNCHANGED <<s_obs, s_cur, s_rows, s_classes, s_cps, s_receipts>>
      BY <2>2 DEF storeVars
    <3>2. StoreNumbers' /\ s_pc' \in Phases /\ StoreLabels'
      BY <2>2 DEF storeVars, StoreInv, StoreNumbers, StoreLabels
    <3>3. QED
      BY <3>1, <3>2, RowsFrame, ScopesFrame DEF StoreInv
  <2>3. QED
    BY <2>1, <2>2, StoreStep
<1>3. QED
  BY <1>1, <1>2, PTL DEF EvidenceSpec

-----------------------------------------------------------------------------
(* What a page shows.                                                      *)
LEMMA StoreTypes == StoreInv => S!TypeOK
<1> SUFFICES ASSUME StoreInv PROVE S!TypeOK
  OBVIOUS
<1>1. s_pc \in Phases /\ \A s \in S!Scopes : s_receipts[s] \subseteq S!Gens
  BY DEF StoreInv, StoreScopes
<1>2. QED
  BY <1>1, Zenon DEF S!TypeOK, StoreInv, StoreNumbers, StoreObserved, Phases

(* A current row always has its project row and its observation, whatever  *)
(* a purge deletes while rows are stored, is never shown under a category  *)
(* that its own text does not have, and never has a department name that   *)
(* the source did not give to a row of the same organization.              *)
THEOREM StoredRowsAreTrueHolds == EvidenceSpec => []StoredRowsAreTrue
<1>1. StoreInv => S!CurrentIsWhole
  BY StoreTypes DEF S!CurrentIsWhole, StoreInv, StoreWhole, S!Observed
<1>2. StoreInv => S!ShownCategoryIsTrue
  BY DEF S!ShownCategoryIsTrue, StoreInv, StoreLabels, S!Matching
<1>3. StoreInv => S!NameIsOfOrg
  BY DEF S!NameIsOfOrg, StoreInv, StoreNamed, S!Shown
<1>4. StoreInv => StoredRowsAreTrue
  BY <1>1, <1>2, <1>3 DEF StoredRowsAreTrue
<1>5. QED
  BY <1>4, StoreInvHolds, PTL

-----------------------------------------------------------------------------
(* What no step may lose.                                                  *)

(* A late classification replaces none that is current.                    *)
LEMMA SaveKeepsLabels ==
  ASSUME StoreInv, S!SaveClassification, NEW k \in BudgetKeys, S!Matching(k) # {}
  PROVE  \E c \in s_classes' : c.key = k /\ c.version = s_version /\ c.payload = s_rows[k].payload
<1>1. PICK c \in s_classes : c.key = k /\ c.version = s_version /\ c.payload = s_rows[k].payload
  BY DEF S!Matching
<1>2. CASE s_classes' = s_classes
  BY <1>1, <1>2
<1>3. CASE /\ S!SourceIsCurrent(s_read)
           /\ s_classes' = {d \in s_classes : <<d.key, d.version>> # <<s_read.key, s_version>>}
                            \cup {S!Labelled(s_read)}
  <2>1. CASE s_read.key = k
    <3>1. S!Labelled(s_read).key = k /\ S!Labelled(s_read).version = s_version
      BY <2>1 DEF S!Labelled
    <3>2. S!Labelled(s_read).payload = s_rows[k].payload
      BY <1>3, <2>1 DEF S!Labelled, S!SourceIsCurrent
    <3>3. QED
      BY <1>3, <3>1, <3>2
  <2>2. CASE s_read.key # k
    BY <1>1, <1>3, <2>2
  <2>3. QED
    BY <2>1, <2>2
<1>4. QED
  BY <1>2, <1>3 DEF S!SaveClassification, S!labels

LEMMA LabelsAreKept ==
  ASSUME StoreInv, StoreInv', S!Next, NEW k \in S!Shown,
         S!Matching(k) # {}, s_cur'[k] = s_cur[k], s_version' = s_version
  PROVE  S!Matching(k)' # {}
<1>1. k \in BudgetKeys /\ S!IsCurrent(k) /\ s_cur'[k] # S!NoState
  BY DEF S!Shown, S!IsCurrent
<1>2. s_rows'[k].payload = s_rows[k].payload
  BY <1>1 DEF StoreInv, StoreWhole, S!IsCurrent
<1>3. PICK c \in s_classes : c.key = k /\ c.version = s_version /\ c.payload = s_rows[k].payload
  BY DEF S!Matching
<1>4. \E d \in s_classes' : d.key = k /\ d.version = s_version /\ d.payload = s_rows[k].payload
  <2>1. CASE S!SaveClassification
    BY <1>1, <2>1, SaveKeepsLabels
  <2>2. CASE S!Orphans
    BY <1>1, <1>3, <2>2 DEF S!Orphans
  <2>3. CASE s_classes' = s_classes
    BY <1>3, <2>3
  <2>4. QED
    BY <2>1, <2>2, <2>3
    DEF S!Next, S!Preserve, S!Scope, S!Tomorrow, S!Upgrade, S!RepairSame, S!RepairByCode,
        S!ClassifyRead, S!ClassifyEnd, S!PurgeScope, S!Expire, S!SelectHistory, S!DeleteHistory,
        S!Prune, S!Stop, S!labels
<1>5. QED
  BY <1>2, <1>4 DEF S!Matching

(* A checkpoint of a day inside the window was touched inside it: it is    *)
(* neither forgotten nor, if it may be resumed, stripped of its receipts.  *)
LEMMA RecentScopeIsKept ==
  ASSUME StoreInv, NEW s \in Daily, s >= S!Cutoff
  PROVE  /\ s_cps[s].status = "COMPLETE" => ~S!Forgotten(s)
         /\ S!Active(s_cps[s]) => ~S!Forgotten(s) /\ ~S!Compacted(s)
<1>1. s \in S!Scopes /\ s \in Int /\ s_cps[s] \in Checkpoints
  BY StoreConstants DEF StoreInv, StoreScopes, S!Scopes
<1>2. S!Cutoff \in Int /\ s_cps[s].updated \in Int
  BY <1>1, StoreConstants DEF S!Cutoff, StoreInv, StoreNumbers, Checkpoints
<1>3. s_cps[s].status # "ABSENT" => ~(s_cps[s].updated < S!Cutoff)
  BY <1>1, <1>2 DEF StoreInv, StoreScopes
<1>4. ~(s < S!Cutoff)
  BY <1>1, <1>2
<1>5. ASSUME s_cps[s].status = "COMPLETE" PROVE ~S!Forgotten(s)
  <2>1. S!DailyComplete(s) /\ ~S!Outlived(s) /\ ~(s_cps[s].updated < S!Cutoff)
    BY <1>3, <1>4, <1>5 DEF S!DailyComplete, S!Outlived
  <2>2. ~S!Expires(s)
    BY <2>1 DEF S!Expires
  <2>3. QED
    BY <2>1, <2>2 DEF S!Forgotten
<1>6. ASSUME S!Active(s_cps[s]) PROVE ~S!Forgotten(s) /\ ~S!Compacted(s)
  <2>1. s_cps[s].status # "ABSENT" /\ s_cps[s].status # "COMPLETE"
    BY <1>6 DEF S!Active
  <2>2. s_cps[s].updated >= S!Cutoff
    BY <1>2, <1>3, <2>1
  <2>3. S!Resumable(s) /\ ~S!Compacted(s)
    BY <1>6, <2>1, <2>2 DEF S!Resumable, S!Compacted, S!DailyComplete
  <2>4. QED
    BY <2>3 DEF S!Forgotten
<1>7. QED
  BY <1>5, <1>6

LEMMA ProgressIsKept ==
  ASSUME StoreInv, S!Next, s_pc = "scopes", s_events' = s_events, NEW s \in Daily, s >= S!Cutoff
  PROVE  /\ s_cps[s].status = "COMPLETE" => s_cps'[s] = s_cps[s]
         /\ S!Active(s_cps[s]) => s_cps'[s] = s_cps[s] /\ s_cps[s].gen \in s_receipts'[s]
<1>1. s \in S!Scopes
  BY DEF S!Scopes
<1>2. CASE UNCHANGED <<s_cps, s_receipts>>
  BY <1>1, <1>2 DEF StoreInv, StoreScopes
<1>3. CASE S!PurgeScope
  <2>1. PICK r :
          /\ s_receipts' = [s_receipts EXCEPT ![r] =
                              IF S!Forgotten(r) \/ S!Compacted(r) THEN {} ELSE @ \cap {s_cps[r].gen}]
          /\ s_cps' = [s_cps EXCEPT ![r] = IF S!Forgotten(r) THEN S!NoCp ELSE @]
    BY <1>3 DEF S!PurgeScope
  <2>2. CASE r # s
    BY <1>1, <2>1, <2>2 DEF StoreInv, StoreScopes
  <2>3. CASE r = s
    BY <1>1, <2>1, <2>3, RecentScopeIsKept DEF StoreInv, StoreScopes
  <2>4. QED
    BY <2>2, <2>3
<1>4. ~S!Preserve /\ ~S!Scope
  BY DEF S!Preserve, S!Scope, StoreInv, StoreNumbers
<1>5. QED
  BY <1>2, <1>3, <1>4
  DEF S!Next, S!Tomorrow, S!Upgrade, S!RepairSame, S!RepairByCode, S!ClassifyRead,
      S!SaveClassification, S!ClassifyEnd, S!Expire, S!Orphans, S!SelectHistory,
      S!DeleteHistory, S!Prune, S!Stop, S!scopes

(* What is classified stays so until its payload or the rules change, and  *)
(* a purge keeps what the collection of a day needs to go on: whatever is  *)
(* stored meanwhile, wherever a cycle ends, and whenever midnight comes.   *)
THEOREM NothingIsLostHolds == EvidenceSpec => NothingIsLost
<1>1. StoreInv /\ StoreInv' /\ [EvidenceNext]_evidenceVars
        => [\A k \in S!Shown :
              S!Matching(k) # {} /\ s_cur'[k] = s_cur[k] /\ s_version' = s_version
                => S!Matching(k)' # {}]_(S!vars)
  <2> SUFFICES ASSUME StoreInv, StoreInv', S!Next, NEW k \in S!Shown,
                      S!Matching(k) # {}, s_cur'[k] = s_cur[k], s_version' = s_version
               PROVE  S!Matching(k)' # {}
    BY DEF EvidenceNext, evidenceVars, storeVars, S!vars, S!stored, S!labels, S!scopes, S!cycle
  <2>1. QED
    BY LabelsAreKept
<1>2. StoreInv /\ [EvidenceNext]_evidenceVars
        => [s_pc = "scopes" /\ s_events' = s_events =>
              \A s \in Daily : s >= S!Cutoff =>
                /\ s_cps[s].status = "COMPLETE" => s_cps'[s] = s_cps[s]
                /\ S!Active(s_cps[s]) => s_cps'[s] = s_cps[s] /\ s_cps[s].gen \in s_receipts'[s]]_(S!vars)
  <2> SUFFICES ASSUME StoreInv, S!Next, s_pc = "scopes", s_events' = s_events,
                      NEW s \in Daily, s >= S!Cutoff
               PROVE  /\ s_cps[s].status = "COMPLETE" => s_cps'[s] = s_cps[s]
                      /\ S!Active(s_cps[s]) => s_cps'[s] = s_cps[s] /\ s_cps[s].gen \in s_receipts'[s]
    BY DEF EvidenceNext, evidenceVars, storeVars, S!vars, S!stored, S!labels, S!scopes, S!cycle
  <2>1. QED
    BY ProgressIsKept
<1>3. QED
  BY <1>1, <1>2, StoreInvHolds, PTL
  DEF EvidenceSpec, NothingIsLost, S!StaysClassified, S!PurgeKeepsProgress

-----------------------------------------------------------------------------
(* What a page counts.  A row has one classification under the rules of    *)
(* today for its payload: the join has one pair for a listed row.          *)
StoreOnce == \A c, d \in s_classes : c.key = d.key /\ c.version = d.version => c = d

LEMMA StoreOnceStep == StoreOnce /\ [EvidenceNext]_evidenceVars => StoreOnce'
<1> SUFFICES ASSUME StoreOnce, [EvidenceNext]_evidenceVars PROVE StoreOnce'
  OBVIOUS
<1>1. CASE s_classes' = s_classes
  BY <1>1 DEF StoreOnce
<1>2. CASE S!SaveClassification
  <2>1. CASE s_classes' = {d \in s_classes : <<d.key, d.version>> # <<s_read.key, s_version>>}
                            \cup {S!Labelled(s_read)}
    <3>1. S!Labelled(s_read).key = s_read.key /\ S!Labelled(s_read).version = s_version
      BY DEF S!Labelled
    <3>2. PICK l : l = S!Labelled(s_read)
      OBVIOUS
    <3>3. \A c \in s_classes' : c = l \/ (c \in s_classes /\ (c.key # l.key \/ c.version # l.version))
      BY <2>1, <3>1, <3>2
    <3>4. QED
      BY <3>3 DEF StoreOnce
  <2>2. QED
    BY <1>1, <1>2, <2>1 DEF S!SaveClassification, S!labels
<1>3. CASE S!Orphans
  <2>1. s_classes' \subseteq s_classes
    BY <1>3 DEF S!Orphans
  <2>2. QED
    BY <2>1 DEF StoreOnce
<1>4. QED
  BY <1>1, <1>2, <1>3
  DEF EvidenceNext, evidenceVars, storeVars, S!Next, S!Preserve, S!Scope, S!Tomorrow, S!Upgrade,
      S!RepairSame, S!RepairByCode, S!ClassifyRead, S!ClassifyEnd, S!PurgeScope, S!Expire,
      S!SelectHistory, S!DeleteHistory, S!Prune, S!Stop, S!labels

LEMMA StoreOnceHolds == EvidenceSpec => []StoreOnce
<1>1. EvidenceInit => StoreOnce
  BY DEF EvidenceInit, S!Init, StoreOnce
<1>2. QED
  BY <1>1, StoreOnceStep, PTL DEF EvidenceSpec

LEMMA StoreCardinality == \A s : S!Cardinality(s) = Cardinality(s)
BY Zenon DEF S!Cardinality, Cardinality
LEMMA StoreFiniteSet == \A s : S!IsFiniteSet(s) = IsFiniteSet(s)
BY Zenon DEF S!IsFiniteSet, IsFiniteSet

(* Pairs that name every key of a set once are as many.                    *)
OnePairEach(J, L) ==
  /\ \A kc \in J : kc[1] \in L
  /\ \A k \in L : \E kc \in J : kc[1] = k
  /\ \A kc, ld \in J : kc[1] = ld[1] => kc = ld

LEMMA PairsCount ==
  ASSUME NEW J, NEW L, IsFiniteSet(L), OnePairEach(J, L)
  PROVE  IsFiniteSet(J) /\ Cardinality(J) = Cardinality(L)
<1> DEFINE f == [k \in L |-> CHOOSE kc \in J : kc[1] = k]
<1>1. \A k \in L : f[k] \in J /\ f[k][1] = k
  BY DEF OnePairEach
<1>2. \A kc \in J : kc[1] \in L /\ f[kc[1]] = kc
  BY <1>1 DEF OnePairEach
<1>3. f \in [L -> J]
  BY <1>1
<1> HIDE DEF f
<1>4. f \in Injection(L, J)
  BY <1>1, <1>3 DEF Injection, IsInjective
<1>5. f \in Surjection(L, J)
  BY <1>2, <1>3 DEF Surjection
<1>6. ExistsBijection(L, J)
  BY <1>4, <1>5 DEF ExistsBijection, Bijection
<1>7. QED
  BY <1>6, FS_Bijection

LEMMA JoinIsOneEach ==
  ASSUME StoreOnce, NEW cats \in {{}, {"LIGHTING", "POLE"}}
  PROVE  /\ \A kc \in S!Join(cats) : kc[1] \in S!Shown /\ kc = <<kc[1], kc[2]>>
         /\ \A k \in S!Shown : \A c : <<k, c>> \in S!Join(cats) <=>
              \/ c \in S!Matching(k) /\ (cats # {} => c.cat \in cats)
              \/ c = S!NoClass /\ cats = {} /\ S!Matching(k) = {}
         /\ \A kc, ld \in S!Join(cats) : kc[1] = ld[1] => kc = ld
<1> DEFINE Of(k) == IF cats = {} THEN (IF S!Matching(k) = {} THEN {S!NoClass} ELSE S!Matching(k))
                                 ELSE {c \in S!Matching(k) : c.cat \in cats}
<1>1. S!Join(cats) = UNION {{<<k, c>> : c \in Of(k)} : k \in S!Shown}
  BY DEF S!Join
<1>2. \A k : \A c : c \in Of(k) <=> \/ c \in S!Matching(k) /\ (cats # {} => c.cat \in cats)
                                    \/ c = S!NoClass /\ cats = {} /\ S!Matching(k) = {}
  OBVIOUS
<1>3. \A k : \A c, d \in S!Matching(k) : c = d
  BY DEF S!Matching, StoreOnce
<1> HIDE DEF Of
<1>4. \A kc \in S!Join(cats) : \E k \in S!Shown : \E c \in Of(k) : kc = <<k, c>>
  BY <1>1
<1>5. \A k \in S!Shown : \A c : <<k, c>> \in S!Join(cats) <=> c \in Of(k)
  BY <1>1
<1>6. \A k : \A c, d \in Of(k) : c = d
  BY <1>2, <1>3
<1>7. \A kc \in S!Join(cats) : kc[1] \in S!Shown /\ kc = <<kc[1], kc[2]>> /\ kc[2] \in Of(kc[1])
  BY <1>4
<1>8. \A kc, ld \in S!Join(cats) : kc[1] = ld[1] => kc = ld
  BY <1>6, <1>7
<1>9. QED
  BY <1>2, <1>5, <1>7, <1>8

LEMMA ShownFinite == IsFiniteSet(S!Shown)
<1>1. IsFiniteSet(BudgetKeys)
  BY InstancesAssumption, StoreFiniteSet DEF S!StoreAssumption
<1>2. S!Shown \subseteq BudgetKeys
  BY DEF S!Shown
<1>3. QED
  BY <1>1, <1>2, FS_Subset

(* The counts of a summary are those of the rows of the list.              *)
Joined(cats, status) == {kc \in S!Join(cats) : S!HasStatus(kc[1], status)}

LEMMA JoinedCount ==
  ASSUME StoreOnce, NEW cats \in {{}, {"LIGHTING", "POLE"}}, NEW status
  PROVE  /\ IsFiniteSet(Joined(cats, status))
         /\ Cardinality(Joined(cats, status)) = Cardinality(S!ListRows(cats, status, FALSE))
         /\ Cardinality(Joined(cats, status)) \in Nat
<1>1. PICK J, L : J = Joined(cats, status) /\ L = S!ListRows(cats, status, FALSE)
  OBVIOUS
<1>2. L \subseteq S!Shown /\ IsFiniteSet(L)
  BY <1>1, ShownFinite, FS_Subset DEF S!ListRows
<1>3. \A kc \in J : kc[1] \in L
  <2>1. TAKE kc \in J
  <2>2. kc \in S!Join(cats) /\ S!HasStatus(kc[1], status)
    BY <1>1 DEF Joined
  <2>3. kc[1] \in S!Shown /\ kc = <<kc[1], kc[2]>>
    BY <2>2, JoinIsOneEach
  <2>4. cats # {} => kc[2] \in S!Matching(kc[1]) /\ kc[2].cat \in cats
    BY <2>2, <2>3, JoinIsOneEach
  <2>5. QED
    BY <1>1, <2>2, <2>3, <2>4 DEF S!ListRows
<1>4. \A k \in L : \E kc \in J : kc[1] = k
  <2>1. TAKE k \in L
  <2>2. k \in S!Shown /\ S!HasStatus(k, status) /\ (cats # {} => \E c \in S!Matching(k) : c.cat \in cats)
    BY <1>1 DEF S!ListRows
  <2>3. \E c : <<k, c>> \in S!Join(cats)
    <3>1. CASE cats = {} /\ S!Matching(k) = {}
      BY <2>2, <3>1, JoinIsOneEach
    <3>2. CASE cats = {} /\ S!Matching(k) # {}
      BY <2>2, <3>2, JoinIsOneEach
    <3>3. CASE cats # {}
      BY <2>2, <3>3, JoinIsOneEach
    <3>4. QED
      BY <3>1, <3>2, <3>3
  <2>4. PICK c : <<k, c>> \in S!Join(cats)
    BY <2>3
  <2>5. <<k, c>> \in J /\ <<k, c>>[1] = k
    BY <1>1, <2>2, <2>4 DEF Joined
  <2>6. QED
    BY <2>5
<1>5. \A kc, ld \in J : kc[1] = ld[1] => kc = ld
  BY <1>1, JoinIsOneEach DEF Joined
<1>6. OnePairEach(J, L)
  BY <1>3, <1>4, <1>5 DEF OnePairEach
<1>7. QED
  BY <1>1, <1>2, <1>6, PairsCount, FS_CardinalityType

LEMMA StatusesPart ==
  ASSUME StoreInv, NEW k \in S!Shown
  PROVE  /\ S!HasStatus(k, "UNEXECUTED") \/ S!HasStatus(k, "PARTIAL") \/ S!HasStatus(k, "FULL")
         /\ ~(S!HasStatus(k, "UNEXECUTED") /\ S!HasStatus(k, "PARTIAL"))
         /\ ~(S!HasStatus(k, "UNEXECUTED") /\ S!HasStatus(k, "FULL"))
         /\ ~(S!HasStatus(k, "PARTIAL") /\ S!HasStatus(k, "FULL"))
         /\ S!HasStatus(k, "")
<1>1. s_rows[k] \in ProjectRows
  BY TableFacts DEF S!Shown, StoreInv
<1>2. s_rows[k].payload \in Payloads
  BY <1>1 DEF ProjectRows
<1>3. PICK p : p = s_rows[k].payload
  OBVIOUS
<1>4. p.spent \in Int /\ p.left \in Int
  BY <1>2, <1>3, InstancesAssumption DEF S!StoreAssumption
<1>5. /\ S!HasStatus(k, "UNEXECUTED") <=> p.spent <= 0
      /\ S!HasStatus(k, "PARTIAL") <=> p.spent > 0 /\ p.left > 0
      /\ S!HasStatus(k, "FULL") <=> p.spent > 0 /\ p.left <= 0
      /\ S!HasStatus(k, "")
  BY <1>3 DEF S!HasStatus
<1>6. (p.spent <= 0 \/ p.spent > 0) /\ ~(p.spent <= 0 /\ p.spent > 0)
      /\ (p.left <= 0 \/ p.left > 0) /\ ~(p.left <= 0 /\ p.left > 0)
  BY <1>4
<1>7. QED
  BY <1>5, <1>6

LEMMA SummaryCounts ==
  ASSUME StoreInv, StoreOnce, NEW cats \in {{}, {"LIGHTING", "POLE"}}
  PROVE  LET s == S!Summary(cats) IN
         /\ s.count = S!Cardinality(S!ListRows(cats, "", FALSE))
         /\ s.count = s.unexecuted + s.partial + s.full
         /\ s.partial = S!Cardinality(S!ListRows(cats, "PARTIAL", FALSE))
<1>1. PICK J, U, P, F : /\ J = S!Join(cats) /\ U = Joined(cats, "UNEXECUTED")
                        /\ P = Joined(cats, "PARTIAL") /\ F = Joined(cats, "FULL")
  OBVIOUS
<1>2. \A kc \in J : kc[1] \in S!Shown
  BY <1>1, JoinIsOneEach
<1>3. J = Joined(cats, "")
  BY <1>1, <1>2, StatusesPart DEF Joined
<1>4. J = (U \cup P) \cup F /\ U \cap P = {} /\ (U \cup P) \cap F = {}
  BY <1>1, <1>2, StatusesPart DEF Joined
<1>5. IsFiniteSet(U) /\ IsFiniteSet(P) /\ IsFiniteSet(F)
      /\ Cardinality(U) \in Nat /\ Cardinality(P) \in Nat /\ Cardinality(F) \in Nat
  BY <1>1, JoinedCount
<1>6. Cardinality({}) = 0
  BY FS_EmptySet
<1>7. IsFiniteSet(U \cup P) /\ Cardinality(U \cup P) = Cardinality(U) + Cardinality(P)
  <2>1. IsFiniteSet(U \cup P) /\ Cardinality(U \cup P) = Cardinality(U) + Cardinality(P) - Cardinality(U \cap P)
    BY <1>5, FS_Union
  <2>2. Cardinality(U \cap P) = 0
    BY <1>4, <1>6
  <2>3. QED
    BY <1>5, <2>1, <2>2
<1>8. Cardinality(J) = Cardinality(U) + Cardinality(P) + Cardinality(F)
  <2>1. Cardinality((U \cup P) \cup F) = Cardinality(U \cup P) + Cardinality(F) - Cardinality((U \cup P) \cap F)
    BY <1>5, <1>7, FS_Union
  <2>2. Cardinality((U \cup P) \cap F) = 0
    BY <1>4, <1>6
  <2>3. Cardinality(J) = Cardinality(U \cup P) + Cardinality(F) - 0
    BY <1>4, <2>1, <2>2
  <2>4. QED
    BY <1>5, <1>7, <2>3
<1>9. Cardinality(J) = Cardinality(S!ListRows(cats, "", FALSE))
      /\ Cardinality(P) = Cardinality(S!ListRows(cats, "PARTIAL", FALSE))
  BY <1>1, <1>3, JoinedCount
<1>10. PICK s : s = S!Summary(cats)
  OBVIOUS
<1>11. s.count = S!Cardinality(S!Join(cats))
  BY <1>10 DEF S!Summary
<1>12. s.unexecuted = S!Cardinality(Joined(cats, "UNEXECUTED"))
  BY <1>10 DEF S!Summary, Joined
<1>13. s.partial = S!Cardinality(Joined(cats, "PARTIAL"))
  BY <1>10 DEF S!Summary, Joined
<1>14. s.full = S!Cardinality(Joined(cats, "FULL"))
  BY <1>10 DEF S!Summary, Joined
<1>15. QED
  BY <1>1, <1>8, <1>9, <1>10, <1>11, <1>12, <1>13, <1>14, StoreCardinality

LEMMA SalesCount ==
  ASSUME StoreInv, StoreOnce, NEW cats \in {{}, {"LIGHTING", "POLE"}}
  PROVE  S!Summary(cats).sales = S!Cardinality(S!ListRows({"LIGHTING", "POLE"}, "", TRUE))
<1>1. PICK J : J = {kc \in S!Join(cats) : kc[2].cat \in {"LIGHTING", "POLE"} /\ s_rows[kc[1]].payload.left > 0}
  OBVIOUS
<1>2. PICK L : L = S!ListRows({"LIGHTING", "POLE"}, "", TRUE)
  OBVIOUS
<1>3. S!Summary(cats).sales = S!Cardinality(J)
  BY <1>1 DEF S!Summary
<1>4. L \subseteq S!Shown /\ IsFiniteSet(L)
  BY <1>2, ShownFinite, FS_Subset DEF S!ListRows
<1>5. \A k : k \in L <=> /\ k \in S!Shown /\ \E c \in S!Matching(k) : c.cat \in {"LIGHTING", "POLE"}
                         /\ s_rows[k].payload.left > 0
  BY <1>2, StatusesPart DEF S!ListRows
<1>6. \A kc \in J : kc[1] \in L
  <2>1. TAKE kc \in J
  <2>2. kc \in S!Join(cats) /\ kc[2].cat \in {"LIGHTING", "POLE"} /\ s_rows[kc[1]].payload.left > 0
    BY <1>1
  <2>3. kc[1] \in S!Shown /\ kc = <<kc[1], kc[2]>>
    BY <2>2, JoinIsOneEach
  <2>4. kc[2] \in S!Matching(kc[1]) \/ kc[2] = S!NoClass
    <3>1. PICK k, c : k = kc[1] /\ c = kc[2]
      OBVIOUS
    <3>2. <<k, c>> \in S!Join(cats) /\ k \in S!Shown
      BY <2>2, <2>3, <3>1
    <3>3. c \in S!Matching(k) \/ c = S!NoClass
      BY <3>2, JoinIsOneEach
    <3>4. QED
      BY <3>1, <3>3
  <2>5. S!NoClass.cat \notin {"LIGHTING", "POLE"}
    BY DEF S!NoClass
  <2>6. QED
    BY <1>5, <2>2, <2>3, <2>4, <2>5
<1>7. \A k \in L : \E kc \in J : kc[1] = k
  <2>1. TAKE k \in L
  <2>2. k \in S!Shown /\ s_rows[k].payload.left > 0
    BY <1>5
  <2>3. PICK c \in S!Matching(k) : c.cat \in {"LIGHTING", "POLE"}
    BY <1>5
  <2>4. cats # {} => c.cat \in cats
    BY <2>3
  <2>5. <<k, c>> \in S!Join(cats)
    BY <2>2, <2>4, JoinIsOneEach
  <2>6. <<k, c>> \in J /\ <<k, c>>[1] = k
    BY <1>1, <2>2, <2>3, <2>5
  <2>7. QED
    BY <2>6
<1>8. \A kc, ld \in J : kc[1] = ld[1] => kc = ld
  BY <1>1, JoinIsOneEach
<1>9. OnePairEach(J, L)
  BY <1>6, <1>7, <1>8 DEF OnePairEach
<1>10. QED
  BY <1>2, <1>3, <1>4, <1>9, PairsCount, StoreCardinality

LEMMA SummaryFollows == StoreInv /\ StoreOnce => S!SummaryIsOfRows
<1> SUFFICES ASSUME StoreInv, StoreOnce, NEW cats \in {{}, {"LIGHTING", "POLE"}}
             PROVE  LET s == S!Summary(cats) IN
                    /\ s.count = S!Cardinality(S!ListRows(cats, "", FALSE))
                    /\ s.count = s.unexecuted + s.partial + s.full
                    /\ s.partial = S!Cardinality(S!ListRows(cats, "PARTIAL", FALSE))
                    /\ s.sales = S!Cardinality(S!ListRows({"LIGHTING", "POLE"}, "", TRUE))
  BY DEF S!SummaryIsOfRows
<1>1. QED
  BY SummaryCounts, SalesCount

-----------------------------------------------------------------------------
(* The matches.  Operators first.  A finite set has an element whose value *)
(* is the greatest: the smallest subset without one would have one.        *)
LEMMA FiniteMax ==
  ASSUME NEW A, IsFiniteSet(A), A # {}, NEW g \in [A -> Int]
  PROVE  \E m \in A : \A u \in A : g[u] <= g[m]
<1> DEFINE Has(U) == \E m \in U : \A u \in U : g[u] <= g[m]
           B == {U \in SUBSET A : U # {} /\ ~Has(U)}
<1>1. FiniteSubsetsOf(A) = SUBSET A
  BY FS_FiniteSubsetsOfFinite
<1>2. IsWellFoundedOn(StrictSubsetOrdering(A), SUBSET A)
  BY <1>1, FS_StrictSubsetOrderingWellFounded
<1>3. SUFFICES ASSUME B # {} PROVE FALSE
  OBVIOUS
<1>4. B \subseteq SUBSET A
  OBVIOUS
<1> HIDE DEF B
<1>5. PICK U \in B : \A V \in B : ~(<<V, U>> \in StrictSubsetOrdering(A))
  BY <1>2, <1>3, <1>4, WFMin
<1> USE DEF B
<1>6. PICK x : x \in U
  BY <1>5
<1> DEFINE V == U \ {x}
<1>7. <<V, U>> \in StrictSubsetOrdering(A)
  BY <1>5, <1>6 DEF StrictSubsetOrdering
<1>8. V \notin B
  BY <1>5, <1>7
<1>9. V = {} \/ Has(V)
  BY <1>5, <1>8
<1>10. \A u \in U : u \in A /\ g[u] \in Int
  BY <1>5
<1>11. CASE V = {}
  <2>1. \A u \in U : u = x
    BY <1>11
  <2>2. Has(U)
    BY <1>6, <1>10, <2>1
  <2>3. QED
    BY <1>5, <2>2
<1>12. CASE Has(V)
  <2>1. PICK m \in V : \A u \in V : g[u] <= g[m]
    BY <1>12
  <2>2. m \in U /\ g[m] \in Int /\ g[x] \in Int
    BY <1>6, <1>10, <2>1
  <2>3. CASE g[x] <= g[m]
    BY <1>5, <2>1, <2>2, <2>3
  <2>4. CASE g[m] <= g[x]
    <3>1. \A u \in U : g[u] <= g[x]
      BY <1>10, <2>1, <2>2, <2>4
    <3>2. QED
      BY <1>5, <1>6, <3>1
  <2>5. QED
    BY <2>2, <2>3, <2>4
<1>13. QED
  BY <1>9, <1>11, <1>12

LEMMA FiniteMin ==
  ASSUME NEW A, IsFiniteSet(A), A # {}, NEW g \in [A -> Int]
  PROVE  \E m \in A : \A u \in A : g[m] <= g[u]
<1> DEFINE h == [x \in A |-> -g[x]]
<1>1. h \in [A -> Int] /\ \A x \in A : h[x] = -g[x]
  OBVIOUS
<1> HIDE DEF h
<1>2. PICK m \in A : \A u \in A : h[u] <= h[m]
  BY <1>1, FiniteMax
<1>3. QED
  BY <1>1, <1>2

(* The elements of a finite set in the order of their numbers, each once.  *)
InOrder(X, g, s) ==
  s \in [1..Cardinality(X) -> X] /\ \A i, j \in 1..Cardinality(X) : i < j => g[s[i]] < g[s[j]]

LEMMA OrderExists ==
  ASSUME NEW X, IsFiniteSet(X), NEW g \in [X -> Int], \A x, y \in X : g[x] = g[y] => x = y
  PROVE  \E s : InOrder(X, g, s)
<1> DEFINE B == {U \in SUBSET X : ~\E s : InOrder(U, g, s)}
<1>1. FiniteSubsetsOf(X) = SUBSET X
  BY FS_FiniteSubsetsOfFinite
<1>2. IsWellFoundedOn(StrictSubsetOrdering(X), SUBSET X)
  BY <1>1, FS_StrictSubsetOrderingWellFounded
<1>3. SUFFICES ASSUME B # {} PROVE FALSE
  OBVIOUS
<1>4. B \subseteq SUBSET X
  OBVIOUS
<1> HIDE DEF B
<1>5. PICK U \in B : \A V \in B : ~(<<V, U>> \in StrictSubsetOrdering(X))
  BY <1>2, <1>3, <1>4, WFMin
<1> USE DEF B
<1>6. IsFiniteSet(U) /\ U \subseteq X
  BY <1>5, FS_Subset
<1>7. CASE U = {}
  <2>1. Cardinality(U) = 0
    BY <1>7, FS_EmptySet
  <2>2. 1..Cardinality(U) = {}
    BY <2>1
  <2>3. InOrder(U, g, [i \in {} |-> i])
    BY <2>2 DEF InOrder
  <2>4. QED
    BY <1>5, <2>3
<1>8. CASE U # {}
  <2> DEFINE h == [x \in U |-> g[x]]
  <2>1. h \in [U -> Int] /\ \A x \in U : h[x] = g[x]
    BY <1>6
  <2> HIDE DEF h
  <2>2. PICK m \in U : \A u \in U : g[u] <= g[m]
    BY <1>6, <1>8, <2>1, FiniteMax
  <2> DEFINE V == U \ {m}
  <2>3. IsFiniteSet(V) /\ Cardinality(V) = Cardinality(U) - 1 /\ Cardinality(V) \in Nat /\ Cardinality(U) \in Nat
    BY <1>6, FS_RemoveElement, FS_CardinalityType
  <2>4. <<V, U>> \in StrictSubsetOrdering(X)
    BY <1>6 DEF StrictSubsetOrdering
  <2>5. V \notin B
    BY <1>5, <2>4
  <2>6. PICK s : InOrder(V, g, s)
    BY <1>6, <2>5
  <2>7. PICK n \in Nat : n = Cardinality(U)
    BY <2>3
  <2>8. n - 1 \in Nat /\ s \in [1..(n - 1) -> V] /\ \A i, j \in 1..(n - 1) : i < j => g[s[i]] < g[s[j]]
    BY <2>3, <2>6, <2>7 DEF InOrder
  <2> DEFINE t == [i \in 1..n |-> IF i = n THEN m ELSE s[i]]
  <2>9. \A i \in 1..n : i # n => i \in 1..(n - 1)
    BY <2>7
  <2>10. t \in [1..n -> U]
    BY <2>8, <2>9
  <2>11. \A i, j \in 1..n : i < j => g[t[i]] < g[t[j]]
    <3>1. TAKE i, j \in 1..n
    <3>2. HAVE i < j
    <3>3. i \in 1..(n - 1) /\ t[i] = s[i] /\ s[i] \in V
      BY <2>8, <3>2
    <3>4. CASE j = n
      <4>1. t[j] = m
        BY <3>4
      <4>2. s[i] \in U /\ s[i] # m /\ s[i] \in X /\ m \in X
        BY <1>6, <2>2, <3>3
      <4>3. g[s[i]] <= g[m] /\ g[s[i]] # g[m] /\ g[s[i]] \in Int /\ g[m] \in Int
        BY <2>2, <4>2
      <4>4. QED
        BY <3>3, <4>1, <4>3
    <3>5. CASE j # n
      <4>1. j \in 1..(n - 1) /\ t[j] = s[j]
        BY <2>9, <3>5
      <4>2. QED
        BY <2>8, <3>2, <3>3, <4>1
    <3>6. QED
      BY <3>4, <3>5
  <2> HIDE DEF t
  <2>12. InOrder(U, g, t)
    BY <2>7, <2>10, <2>11 DEF InOrder
  <2>13. QED
    BY <1>5, <2>12
<1>9. QED
  BY <1>7, <1>8

LEMMA OrderIsWhole ==
  ASSUME NEW X, IsFiniteSet(X), NEW g \in [X -> Int], NEW s, InOrder(X, g, s)
  PROVE  /\ \A x \in X : \E i \in 1..Cardinality(X) : s[i] = x
         /\ s \in Seq(X) /\ Len(s) = Cardinality(X)
<1>1. PICK n \in Nat : n = Cardinality(X)
  BY FS_CardinalityType
<1>2. s \in [1..n -> X] /\ \A i, j \in 1..n : i < j => g[s[i]] < g[s[j]]
  BY <1>1 DEF InOrder
<1>3. \A i, j \in 1..n : s[i] = s[j] => i = j
  <2>1. SUFFICES ASSUME NEW i \in 1..n, NEW j \in 1..n, s[i] = s[j], i < j PROVE FALSE
    OBVIOUS
  <2>2. g[s[i]] < g[s[j]] /\ g[s[i]] \in Int
    BY <1>2, <2>1
  <2>3. QED
    BY <2>1, <2>2
<1>4. s \in Injection(1..n, X)
  BY <1>2, <1>3 DEF Injection, IsInjective
<1>5. IsFiniteSet(1..n) /\ Cardinality(1..n) = n
  <2>1. IsFiniteSet(1..n) /\ Cardinality(1..n) = IF 1 > n THEN 0 ELSE n - 1 + 1
    BY FS_Interval
  <2>2. QED
    BY <2>1
<1>6. s \in Surjection(1..n, X)
  BY <1>1, <1>4, <1>5, FS_Injection
<1>7. \A x \in X : \E i \in 1..n : s[i] = x
  BY <1>6 DEF Surjection
<1>8. s \in Seq(X) /\ Len(s) = n
  BY <1>2
<1>9. QED
  BY <1>1, <1>7, <1>8

(* Ranks are compared number by number.                                    *)
LEMMA BeforeIsTotal ==
  ASSUME NEW n \in Nat, NEW s \in [1..n -> Int], NEW t \in [1..n -> Int],
         ~M!Before(s, t), ~M!Before(t, s)
  PROVE  \A i \in 1..n : s[i] = t[i]
<1> DEFINE D == {i \in 1..n : s[i] # t[i]}
<1>1. SUFFICES ASSUME D # {} PROVE FALSE
  OBVIOUS
<1>2. IsFiniteSet(D)
  BY FS_Interval, FS_Subset
<1> DEFINE g == [i \in D |-> i]
<1>3. g \in [D -> Int] /\ \A i \in D : g[i] = i
  OBVIOUS
<1> HIDE DEF g
<1>4. PICK i \in D : \A j \in D : i <= j
  <2>1. PICK i \in D : \A j \in D : g[i] <= g[j]
    BY <1>1, <1>2, <1>3, FiniteMin
  <2>2. QED
    BY <1>3, <2>1
<1>5. \A j \in 1..(i - 1) : s[j] = t[j]
  BY <1>4
<1>6. s[i] < t[i] \/ t[i] < s[i]
  OBVIOUS
<1>7. QED
  BY <1>5, <1>6 DEF M!Before

LEMMA BeforeIsTransitive ==
  ASSUME NEW n \in Nat, NEW s \in [1..n -> Int], NEW t \in [1..n -> Int], NEW u \in [1..n -> Int],
         M!Before(s, t), M!Before(t, u)
  PROVE  M!Before(s, u)
<1>1. PICK i \in 1..n : s[i] < t[i] /\ \A k \in 1..(i - 1) : s[k] = t[k]
  BY DEF M!Before
<1>2. PICK j \in 1..n : t[j] < u[j] /\ \A k \in 1..(j - 1) : t[k] = u[k]
  BY DEF M!Before
<1>3. CASE i <= j
  <2>1. s[i] < u[i]
    BY <1>1, <1>2, <1>3
  <2>2. \A k \in 1..(i - 1) : s[k] = u[k]
    BY <1>1, <1>2, <1>3
  <2>3. QED
    BY <2>1, <2>2 DEF M!Before
<1>4. CASE j < i
  <2>1. s[j] < u[j]
    BY <1>1, <1>2, <1>4
  <2>2. \A k \in 1..(j - 1) : s[k] = u[k]
    BY <1>1, <1>2, <1>4
  <2>3. QED
    BY <2>1, <2>2 DEF M!Before
<1>5. QED
  BY <1>3, <1>4

LEMMA BeforeIsStrict ==
  ASSUME NEW n \in Nat, NEW s \in [1..n -> Int]
  PROVE  ~M!Before(s, s)
BY DEF M!Before

-----------------------------------------------------------------------------
LEMMA SameCardinality == \A s : M!Cardinality(s) = Cardinality(s)
BY Zenon DEF M!Cardinality, Cardinality
LEMMA SameFiniteSet == \A s : M!IsFiniteSet(s) = IsFiniteSet(s)
BY Zenon DEF M!IsFiniteSet, IsFiniteSet

LEMMA MatchConstants ==
  M!MatchAssumption /\ IsFiniteSet(BudgetRows) /\ IsFiniteSet(Details)
<1>1. M!MatchAssumption
  BY InstancesAssumption
<1>2. M!IsFiniteSet(BudgetRows) /\ M!IsFiniteSet(Details)
  BY <1>1 DEF M!MatchAssumption
<1>3. QED
  BY <1>1, <1>2, SameFiniteSet

LEMMA RowTypes ==
  /\ \A b \in BudgetRows :
       /\ b.year \in M!Years /\ b.rank \in Int /\ b.project \in Int /\ b.amount \in Int /\ b.day \in Int
       /\ IsFiniteSet(b.signals) /\ IsFiniteSet(b.places) /\ IsFiniteSet(b.stems)
       /\ \A c \in BudgetRows : b.year = c.year /\ b.rank = c.rank => b = c
  /\ \A d \in Details : d.year \in M!Years /\ (d.year = M!Legacy => d.day \in 1..LegacyDays)
  /\ PageRows \in Nat \ {0} /\ MaxRows \in Nat \ {0} /\ Sample \in Nat \ {0} /\ PerProject \in Nat \ {0}
  /\ LegacyDays \in Nat
BY MatchConstants, SameFiniteSet DEF M!MatchAssumption

(* Delivery requests as the pages give them: one for each request id.      *)
DetailTypes(ds) ==
  \A d \in ds : d.day \in Int /\ d.request \in Int /\ d.order \in Int

LEMMA LatestOf ==
  ASSUME NEW listed, IsFiniteSet(listed), DetailTypes(listed), NEW d \in listed
  PROVE  \E e \in M!Latest(listed) : e.request = d.request
<1> DEFINE A == {e \in listed : e.request = d.request /\ e.seq = d.seq}
           g == [e \in A |-> e.order]
<1>1. IsFiniteSet(A) /\ d \in A
  BY FS_Subset
<1>2. g \in [A -> Int] /\ \A e \in A : g[e] = e.order
  BY DEF DetailTypes
<1> HIDE DEF g
<1>3. PICK m \in A : \A u \in A : g[u] <= g[m]
  BY <1>1, <1>2, FiniteMax
<1>4. \A u \in listed : u.request = m.request /\ u.seq = m.seq => u.order <= m.order
  BY <1>2, <1>3
<1>5. m \in M!Latest(listed)
  BY <1>3, <1>4 DEF M!Latest
<1>6. QED
  BY <1>3, <1>5

LEMMA RequestIs ==
  ASSUME NEW ds, IsFiniteSet(ds), ds # {}, DetailTypes(ds), ds \subseteq Details,
         NEW q, \A d \in ds : d.request = q
  PROVE  /\ M!RequestOf(ds).request = q /\ M!RequestOf(ds).request \in Int
         /\ M!RequestOf(ds).day \in Int /\ M!RequestOf(ds).amount \in Int
<1> DEFINE g == [d \in ds |-> d.order]
           h == [d \in ds |-> d.day]
           T == {d.day : d \in ds}
           last == CHOOSE d \in ds : \A e \in ds : e.order <= d.order
<1>1. g \in [ds -> Int] /\ \A d \in ds : g[d] = d.order
  BY DEF DetailTypes
<1>2. h \in [ds -> Int] /\ \A d \in ds : h[d] = d.day
  BY DEF DetailTypes
<1> HIDE DEF g, h
<1>3. PICK m \in ds : \A u \in ds : g[u] <= g[m]
  BY <1>1, FiniteMax
<1>4. last \in ds
  BY <1>1, <1>3
<1>5. PICK f \in ds : \A u \in ds : h[f] <= h[u]
  BY <1>2, FiniteMin
<1>6. f.day \in T /\ \A x \in T : f.day =< x
  BY <1>2, <1>5
<1>7. M!Min(T) \in T
  BY <1>6 DEF M!Min
<1>8. M!Min(T) \in Int
  BY <1>7 DEF DetailTypes
<1>9. M!AmountOf(ds) \in Int
  BY MatchConstants DEF M!MatchAssumption
<1> HIDE DEF last
<1>10. /\ M!RequestOf(ds).request = last.request /\ M!RequestOf(ds).day = M!Min(T)
       /\ M!RequestOf(ds).amount = M!AmountOf(ds)
  BY DEF M!RequestOf, last, T
<1>11. last.request = q /\ last.request \in Int
  BY <1>4 DEF DetailTypes
<1>12. QED
  BY <1>8, <1>9, <1>10, <1>11

LEMMA RequestsAre ==
  ASSUME NEW listed, IsFiniteSet(listed), listed \subseteq Details
  PROVE  /\ \A r \in M!Requests(listed) :
              /\ r.request \in {d.request : d \in listed} /\ r.request \in Int /\ r.day \in Int /\ r.amount \in Int
              /\ r = M!RequestOf({d \in M!Latest(listed) : d.request = r.request})
         /\ \A r, q \in M!Requests(listed) : r.request = q.request => r = q
         /\ \A d \in listed : \E r \in M!Requests(listed) : r.request = d.request
<1>1. DetailTypes(listed)
  BY MatchConstants DEF DetailTypes, M!MatchAssumption
<1> DEFINE Q == {d.request : d \in listed}
           Of(q) == {d \in M!Latest(listed) : d.request = q}
<1>2. ASSUME NEW q \in Q
      PROVE  /\ M!RequestOf(Of(q)).request = q /\ M!RequestOf(Of(q)).request \in Int
             /\ M!RequestOf(Of(q)).day \in Int /\ M!RequestOf(Of(q)).amount \in Int
  <2>1. PICK d \in listed : d.request = q
    OBVIOUS
  <2>2. Of(q) \subseteq listed
    BY DEF M!Latest
  <2>3. Of(q) # {}
    BY <1>1, <2>1, LatestOf
  <2>4. \A e \in Of(q) : e.request = q
    OBVIOUS
  <2>5. PICK ds : ds = Of(q)
    OBVIOUS
  <2>6. IsFiniteSet(ds) /\ ds # {} /\ DetailTypes(ds) /\ ds \subseteq Details /\ \A e \in ds : e.request = q
    BY <1>1, <2>2, <2>3, <2>4, <2>5, FS_Subset DEF DetailTypes
  <2>7. QED
    BY <2>5, <2>6, RequestIs
<1>3. M!Requests(listed) = {M!RequestOf(Of(q)) : q \in Q}
  BY DEF M!Requests
<1> HIDE DEF Of
<1>4. \A r \in M!Requests(listed) : \E q \in Q : r = M!RequestOf(Of(q))
  BY <1>3
<1>5. \A r \in M!Requests(listed) :
        /\ r.request \in Q /\ r.request \in Int /\ r.day \in Int /\ r.amount \in Int
        /\ r = M!RequestOf(Of(r.request))
  BY <1>2, <1>4
<1>6. \A d \in listed : d.request \in Q
  OBVIOUS
<1>7. \A d \in listed : \E r \in M!Requests(listed) : r.request = d.request
  BY <1>2, <1>3, <1>6
<1>8. \A r, q \in M!Requests(listed) : r.request = q.request => r = q
  BY <1>5
<1>9. QED
  BY <1>5, <1>7, <1>8 DEF Of

(* The details of some requests give the same requests alone as among all. *)
LEMMA RequestsOfSome ==
  ASSUME NEW listed, IsFiniteSet(listed), listed \subseteq Details, NEW Q
  PROVE  M!Requests({d \in listed : d.request \in Q}) = {r \in M!Requests(listed) : r.request \in Q}
<1>0. PICK some : some = {d \in listed : d.request \in Q}
  OBVIOUS
<1>1. IsFiniteSet(some) /\ some \subseteq Details /\ \A d \in some : d.request \in Q
  BY <1>0, FS_Subset
<1>2. \A q \in Q : {d \in M!Latest(some) : d.request = q} = {d \in M!Latest(listed) : d.request = q}
  BY <1>0 DEF M!Latest
<1>3. \A r \in M!Requests(some) : r.request \in Q
  <2>1. \A r \in M!Requests(some) : r.request \in {d.request : d \in some}
    BY <1>1, RequestsAre
  <2>2. QED
    BY <1>1, <2>1
<1>4. ASSUME NEW r \in M!Requests(some) PROVE r \in M!Requests(listed)
  <2>1. r.request \in Q /\ r = M!RequestOf({d \in M!Latest(some) : d.request = r.request})
        /\ r.request \in {d.request : d \in some}
    BY <1>1, RequestsAre
  <2>2. r = M!RequestOf({d \in M!Latest(listed) : d.request = r.request})
    BY <1>2, <2>1
  <2>3. PICK q \in {d.request : d \in listed} : q = r.request
    BY <1>0, <2>1
  <2>4. QED
    BY <2>2, <2>3 DEF M!Requests
<1>5. ASSUME NEW r \in M!Requests(listed), r.request \in Q PROVE r \in M!Requests(some)
  <2>1. r = M!RequestOf({d \in M!Latest(listed) : d.request = r.request})
        /\ r.request \in {d.request : d \in listed}
    BY RequestsAre
  <2>2. r = M!RequestOf({d \in M!Latest(some) : d.request = r.request})
    BY <1>2, <1>5, <2>1
  <2>3. PICK q \in {d.request : d \in some} : q = r.request
    BY <1>0, <1>5, <2>1
  <2>4. QED
    BY <2>2, <2>3 DEF M!Requests
<1>6. QED
  BY <1>0, <1>3, <1>4, <1>5

LEMMA RequestsFinite ==
  ASSUME NEW listed, IsFiniteSet(listed), listed \subseteq Details
  PROVE  IsFiniteSet(M!Requests(listed))
<1> DEFINE R == M!Requests(listed)
           f == [d \in listed |-> CHOOSE r \in R : r.request = d.request]
<1>1. \A d \in listed : \E r \in R : r.request = d.request
  BY RequestsAre
<1>2. \A r, q \in R : r.request = q.request => r = q
  BY RequestsAre
<1>3. \A r \in R : \E d \in listed : d.request = r.request
  <2>1. \A r \in R : r.request \in {d.request : d \in listed}
    BY RequestsAre
  <2>2. QED
    BY <2>1
<1>4. f \in [listed -> R] /\ \A d \in listed : f[d] \in R /\ f[d].request = d.request
  BY <1>1
<1> HIDE DEF f, R
<1>5. \A r \in R : \E d \in listed : f[d] = r
  BY <1>2, <1>3, <1>4
<1>6. f \in Surjection(listed, R)
  BY <1>4, <1>5 DEF Surjection
<1>7. QED
  BY <1>6, FS_Surjection DEF R

-----------------------------------------------------------------------------
(* What a project and a request score, and how the pairs are ranked.       *)
Pairable(r) == r.request \in Int /\ r.day \in Int /\ r.amount \in Int

LEMMA StemsAreCounted ==
  ASSUME NEW b \in BudgetRows, NEW r
  PROVE  Cardinality(M!SharedStems(b, r)) \in Int
<1>1. IsFiniteSet(b.places \cup b.stems)
  BY RowTypes, FS_Union
<1>2. M!SharedStems(b, r) \subseteq b.places \cup b.stems
  BY DEF M!SharedStems
<1>3. QED
  BY <1>1, <1>2, FS_Subset, FS_CardinalityType

LEMMA ScoreIsInt ==
  ASSUME NEW b \in BudgetRows, NEW r, Pairable(r)
  PROVE  M!Score(b, r) \in Int
<1>1. Cardinality(b.signals \cap r.signals) \in Int /\ Cardinality(b.places \cap r.places) \in Int
  <2>1. IsFiniteSet(b.signals \cap r.signals) /\ IsFiniteSet(b.places \cap r.places)
    BY RowTypes, FS_Intersection
  <2>2. QED
    BY <2>1, FS_CardinalityType
<1>2. M!OrgPoints(b, r) \in Int
  BY DEF M!OrgPoints
<1>3. M!DatePoints(b, r) \in Int
  BY DEF M!DatePoints
<1>4. M!AmountPoints(b, r) \in Int
  <2>1. b.amount \in Int /\ r.amount \in Int
    BY RowTypes DEF Pairable
  <2>2. QED
    BY <2>1 DEF M!AmountPoints
<1>5. M!Points(b, r) \in Int
  <2> DEFINE p == M!Share(Cardinality(b.signals \cap r.signals), 10, 5, 20)
             q == M!Share(Cardinality(b.places \cap r.places), 12, 5, 22)
             w == M!Share(Cardinality(M!SharedStems(b, r)), 4, 2, 8)
             c == IF b.category \in r.categories THEN 20 ELSE 10
  <2>1. p \in Int /\ q \in Int /\ w \in Int /\ c \in Int
    <3>1. PICK n \in Int, o \in Int, t \in Int :
            /\ n = Cardinality(b.signals \cap r.signals) /\ o = Cardinality(b.places \cap r.places)
            /\ t = Cardinality(M!SharedStems(b, r))
      BY <1>1, StemsAreCounted
    <3>2. p = M!Share(n, 10, 5, 20) /\ q = M!Share(o, 12, 5, 22) /\ w = M!Share(t, 4, 2, 8)
      BY <3>1
    <3> HIDE DEF p, q, w
    <3>3. p \in Int /\ q \in Int /\ w \in Int
      BY <3>2 DEF M!Share, M!Least
    <3>4. QED
      BY <3>3
  <2>2. M!Points(b, r) = M!OrgPoints(b, r) + c + p + q + w + M!DatePoints(b, r) + M!AmountPoints(b, r)
    BY SameCardinality DEF M!Points
  <2> HIDE DEF p, q, w, c
  <2>3. QED
    BY <1>2, <1>3, <1>4, <2>1, <2>2
<1>6. QED
  BY <1>5 DEF M!Score, M!Least

LEMMA RankIsInts ==
  ASSUME NEW b \in BudgetRows, NEW r, Pairable(r)
  PROVE  /\ M!Rank(b, r) \in [1..9 -> Int]
         /\ M!Rank(b, r)[1] = -M!Score(b, r) /\ M!Rank(b, r)[9] = b.project
<1>1. -M!Score(b, r) \in Int
  BY ScoreIsInt
<1>2. -Cardinality(b.signals \cap r.signals) \in Int /\ -Cardinality(b.places \cap r.places) \in Int
  <2>1. IsFiniteSet(b.signals \cap r.signals) /\ IsFiniteSet(b.places \cap r.places)
    BY RowTypes, FS_Intersection
  <2>2. Cardinality(b.signals \cap r.signals) \in Nat /\ Cardinality(b.places \cap r.places) \in Nat
    BY <2>1, FS_CardinalityType
  <2>3. QED
    BY <2>2
<1>3. M!Exact(b, r) \in Int
  BY DEF M!Exact
<1>4. M!Unpriced(b, r) \in Int /\ M!Gap(b, r) \in Int /\ M!Distance(b.day, r.day) \in Int
  BY RowTypes DEF M!Unpriced, M!Gap, M!Distance, Pairable
<1>5. (IF r.day >= b.day THEN 0 ELSE 1) \in Int /\ b.project \in Int
  BY RowTypes
<1>6. PICK e1 \in Int, e2 \in Int, e3 \in Int, e4 \in Int, e5 \in Int, e6 \in Int, e7 \in Int, e8 \in Int, e9 \in Int :
        /\ e1 = -M!Score(b, r) /\ e2 = M!Exact(b, r) /\ e3 = -Cardinality(b.signals \cap r.signals)
        /\ e4 = -Cardinality(b.places \cap r.places) /\ e5 = M!Unpriced(b, r) /\ e6 = M!Gap(b, r)
        /\ e7 = (IF r.day >= b.day THEN 0 ELSE 1) /\ e8 = M!Distance(b.day, r.day) /\ e9 = b.project
  BY <1>1, <1>2, <1>3, <1>4, <1>5
<1>7. M!Rank(b, r) = <<e1, e2, e3, e4, e5, e6, e7, e8, e9>>
  BY <1>6, SameCardinality DEF M!Rank
<1>8. QED
  BY <1>6, <1>7

(* Of two pairs of one request one ranks before the other, unless they are *)
(* of one project.                                                         *)
LEMMA RanksDiffer ==
  ASSUME NEW b \in BudgetRows, NEW c \in BudgetRows, NEW r, Pairable(r),
         ~M!Before(M!Rank(b, r), M!Rank(c, r)), ~M!Before(M!Rank(c, r), M!Rank(b, r))
  PROVE  b.project = c.project
<1>1. PICK n \in Nat : n = 9
  OBVIOUS
<1>2. M!Rank(b, r) \in [1..n -> Int] /\ M!Rank(c, r) \in [1..n -> Int]
  BY <1>1, RankIsInts
<1>3. \A i \in 1..n : M!Rank(b, r)[i] = M!Rank(c, r)[i]
  BY <1>2, BeforeIsTotal
<1>4. 9 \in 1..n
  BY <1>1
<1>5. QED
  BY <1>3, <1>4, RankIsInts

-----------------------------------------------------------------------------
(* The sides of a match: projects, one row each, and requests, each once.  *)
Sides(bs, rs) ==
  /\ bs \subseteq BudgetRows /\ \A a, b \in bs : a.project = b.project => a = b
  /\ IsFiniteSet(rs) /\ \A r \in rs : Pairable(r) /\ \A q \in rs : r.request = q.request => r = q
Among(ms, bs, rs) == ms \subseteq [b : bs, r : rs]
OfProject(ms, p) == {m \in ms : m.b.project = p}
Unique(ms) == \A m, n \in ms : m.r.request = n.r.request => m = n

LEMMA PairsFinite ==
  ASSUME NEW bs, NEW rs, Sides(bs, rs), NEW ms, Among(ms, bs, rs)
  PROVE  IsFiniteSet(ms)
<1> DEFINE T == [b : bs, r : rs]
           f == [x \in bs \X rs |-> [b |-> x[1], r |-> x[2]]]
<1>1. IsFiniteSet(bs) /\ IsFiniteSet(rs)
  BY MatchConstants, FS_Subset DEF Sides
<1>2. IsFiniteSet(bs \X rs)
  BY <1>1, FS_Product
<1>3. f \in [bs \X rs -> T]
  OBVIOUS
<1>4. \A m \in T : \E x \in bs \X rs : f[x] = m
  <2>1. TAKE m \in T
  <2>2. <<m.b, m.r>> \in bs \X rs /\ f[<<m.b, m.r>>] = m
    OBVIOUS
  <2>3. QED
    BY <2>2
<1>5. f \in Surjection(bs \X rs, T)
  BY <1>3, <1>4 DEF Surjection
<1>6. IsFiniteSet(T)
  BY <1>2, <1>5, FS_Surjection
<1>7. QED
  BY <1>6, FS_Subset DEF Among

LEMMA WinnersAreUnique ==
  ASSUME NEW bs, NEW rs, Sides(bs, rs), NEW ms, Among(ms, bs, rs)
  PROVE  Unique(M!Winners(ms))
<1>1. SUFFICES ASSUME NEW m \in M!Winners(ms), NEW n \in M!Winners(ms), m.r.request = n.r.request
               PROVE  m = n
  BY DEF Unique
<1>2. m \in ms /\ n \in ms /\ m \in [b : bs, r : rs] /\ n \in [b : bs, r : rs]
  BY DEF M!Winners, Among
<1>3. m.r = n.r /\ Pairable(m.r)
  BY <1>1, <1>2 DEF Sides
<1>4. ~M!Before(M!Rank(n.b, n.r), M!Rank(m.b, m.r)) /\ ~M!Before(M!Rank(m.b, m.r), M!Rank(n.b, n.r))
  BY <1>1, <1>2 DEF M!Winners, M!ShoppingKey
<1>5. m.b \in BudgetRows /\ n.b \in BudgetRows /\ m.b \in bs /\ n.b \in bs
  BY <1>2 DEF Sides
<1>6. m.b.project = n.b.project
  BY <1>3, <1>4, <1>5, RanksDiffer
<1>7. m.b = n.b
  BY <1>5, <1>6 DEF Sides
<1>8. QED
  BY <1>2, <1>3, <1>7

(* A project keeps at most its best few.                                   *)
Standing(m) == <<-M!Score(m.b, m.r), -m.r.amount, -m.r.day, m.r.request>>

LEMMA StandingIsInts ==
  ASSUME NEW bs, NEW rs, Sides(bs, rs), NEW m \in [b : bs, r : rs]
  PROVE  Standing(m) \in [1..4 -> Int] /\ Standing(m)[4] = m.r.request
<1>1. m.b \in BudgetRows /\ Pairable(m.r)
  BY DEF Sides
<1>2. M!Score(m.b, m.r) \in Int
  BY <1>1, ScoreIsInt
<1>3. PICK a \in Int, b \in Int, c \in Int, d \in Int :
        a = -M!Score(m.b, m.r) /\ b = -m.r.amount /\ c = -m.r.day /\ d = m.r.request
  BY <1>1, <1>2 DEF Pairable
<1>4. Standing(m) = <<a, b, c, d>>
  BY <1>3 DEF Standing
<1>5. QED
  BY <1>3, <1>4

LEMMA FewOfProject ==
  ASSUME NEW bs, NEW rs, Sides(bs, rs), NEW ms, Among(ms, bs, rs), Unique(ms), NEW p
  PROVE  /\ IsFiniteSet(OfProject(M!BestOfProject(ms), p))
         /\ Cardinality(OfProject(M!BestOfProject(ms), p)) <= PerProject
<1>1. PICK W : W = {m \in ms : m.b.project = p}
  OBVIOUS
<1>2. PICK Q : Q = OfProject(M!BestOfProject(ms), p) /\ Q = {m \in M!BestOfProject(ms) : m.b.project = p}
  BY DEF OfProject
<1>3. IsFiniteSet(W) /\ W \subseteq ms /\ Q \subseteq W /\ IsFiniteSet(Q)
  <2>1. IsFiniteSet(ms)
    BY PairsFinite
  <2>2. W \subseteq ms /\ Q \subseteq W
    BY <1>1, <1>2 DEF M!BestOfProject
  <2>3. QED
    BY <2>1, <2>2, FS_Subset
<1>4. PICK n \in Nat : n = 4
  OBVIOUS
<1>5. \A m \in W : Standing(m) \in [1..n -> Int] /\ Standing(m)[4] = m.r.request
  BY <1>3, <1>4, StandingIsInts DEF Among
<1>6. \A m, o : M!Better(m, o) <=> M!Before(Standing(m), Standing(o))
  BY DEF M!Better, Standing
<1>7. \A m, o \in W : m # o => M!Better(m, o) \/ M!Better(o, m)
  <2>1. SUFFICES ASSUME NEW m \in W, NEW o \in W, ~M!Better(m, o), ~M!Better(o, m) PROVE m = o
    OBVIOUS
  <2>2. \A i \in 1..n : Standing(m)[i] = Standing(o)[i]
    BY <1>5, <1>6, <2>1, BeforeIsTotal
  <2>3. 4 \in 1..n
    BY <1>4
  <2>4. m.r.request = o.r.request
    BY <1>5, <2>2, <2>3
  <2>5. QED
    BY <1>3, <2>4 DEF Unique
<1>8. \A m, o, u \in W : M!Better(m, o) /\ M!Better(o, u) => M!Better(m, u)
  BY <1>5, <1>6, BeforeIsTransitive
<1>9. \A m \in W : ~M!Better(m, m)
  BY <1>5, <1>6, BeforeIsStrict
<1>10. CASE Q = {}
  <2>1. IsFiniteSet(Q) /\ Cardinality(Q) = 0
    BY <1>10, FS_EmptySet
  <2>2. 0 <= PerProject
    BY RowTypes
  <2>3. QED
    BY <1>2, <2>1, <2>2
<1>11. CASE Q # {}
  <2> DEFINE Ahead(m) == {o \in Q : M!Better(o, m)}
             g == [m \in Q |-> Cardinality(Ahead(m))]
  <2>1. \A m \in Q : IsFiniteSet(Ahead(m)) /\ Cardinality(Ahead(m)) \in Nat
    BY <1>3, FS_Subset, FS_CardinalityType
  <2>2. g \in [Q -> Int] /\ \A m \in Q : g[m] = Cardinality(Ahead(m))
    BY <2>1
  <2> HIDE DEF g
  <2>3. PICK m \in Q : \A u \in Q : g[u] <= g[m]
    BY <1>3, <1>11, <2>2, FiniteMax
  <2>4. \A o \in Q : o # m => M!Better(o, m)
    <3>1. SUFFICES ASSUME NEW o \in Q, o # m, M!Better(m, o) PROVE FALSE
      BY <1>3, <1>7, <2>3
    <3>2. Ahead(m) \cup {m} \subseteq Ahead(o)
      BY <1>3, <1>8, <2>3, <3>1
    <3>3. m \notin Ahead(m)
      BY <1>3, <1>9, <2>3
    <3> HIDE DEF Ahead
    <3>4. Cardinality(Ahead(m) \cup {m}) = Cardinality(Ahead(m)) + 1
      BY <2>1, <3>3, FS_AddElement
    <3>5. Cardinality(Ahead(m) \cup {m}) <= Cardinality(Ahead(o))
      BY <2>1, <3>2, FS_Subset
    <3>6. Cardinality(Ahead(o)) <= Cardinality(Ahead(m))
      BY <2>2, <2>3, <3>1
    <3>7. QED
      BY <2>1, <3>1, <3>4, <3>5, <3>6
  <2>5. PICK A : A = {o \in ms : o.b.project = m.b.project /\ M!Better(o, m)}
    OBVIOUS
  <2>6. Cardinality(A) < PerProject /\ m.b.project = p
    BY <1>2, <2>5, SameCardinality DEF M!BestOfProject
  <2>7. IsFiniteSet(A) /\ Q \ {m} \subseteq A
    <3>1. A \subseteq W
      BY <1>1, <2>5, <2>6
    <3>2. Q \ {m} \subseteq A
      BY <1>1, <1>3, <2>4, <2>5, <2>6
    <3>3. QED
      BY <1>3, <3>1, <3>2, FS_Subset
  <2>8. Cardinality(Q \ {m}) = Cardinality(Q) - 1 /\ Cardinality(Q) \in Nat
    BY <1>3, FS_RemoveElement, FS_CardinalityType
  <2>9. Cardinality(Q \ {m}) <= Cardinality(A) /\ Cardinality(A) \in Nat
    BY <2>7, FS_Subset, FS_CardinalityType
  <2>10. Cardinality(Q) <= PerProject
    BY <2>6, <2>8, <2>9, RowTypes
  <2>11. QED
    BY <1>2, <1>3, <2>10
<1>12. QED
  BY <1>10, <1>11

LEMMA AssignedAre ==
  ASSUME NEW bs, NEW rs, Sides(bs, rs)
  PROVE  /\ Among(M!Assigned(bs, rs), bs, rs) /\ Unique(M!Assigned(bs, rs))
         /\ M!Winners(M!Assigned(bs, rs)) = M!Assigned(bs, rs)
         /\ \A p : /\ IsFiniteSet(OfProject(M!Assigned(bs, rs), p))
                   /\ Cardinality(OfProject(M!Assigned(bs, rs), p)) <= PerProject
         /\ \A m \in M!Assigned(bs, rs), b \in bs : M!Pairs(b, m.r) => M!Score(b, m.r) <= M!Score(m.b, m.r)
<1>1. PICK P : P = {m \in [b : bs, r : {r \in rs : r.valid}] : M!Pairs(m.b, m.r)}
  OBVIOUS
<1>2. PICK W : W = M!Winners(P)
  OBVIOUS
<1>3. M!Assigned(bs, rs) = M!BestOfProject(W)
  BY <1>1, <1>2 DEF M!Assigned
<1>4. P \subseteq [b : bs, r : rs] /\ W \subseteq P /\ M!BestOfProject(W) \subseteq W
  BY <1>1, <1>2 DEF M!Winners, M!BestOfProject
<1>5. Among(P, bs, rs) /\ Among(W, bs, rs) /\ Among(M!BestOfProject(W), bs, rs)
  BY <1>4 DEF Among
<1>6. Unique(W)
  BY <1>2, <1>5, WinnersAreUnique
<1>7. Unique(M!BestOfProject(W))
  BY <1>4, <1>6 DEF Unique
<1>8. \A m \in W, o \in P : M!ShoppingKey(o) = M!ShoppingKey(m) => ~M!Before(M!Rank(o.b, o.r), M!Rank(m.b, m.r))
  BY <1>2 DEF M!Winners
<1>9. M!Winners(M!BestOfProject(W)) = M!BestOfProject(W)
  <2>1. PICK V : V = M!BestOfProject(W)
    OBVIOUS
  <2>2. \A m, o \in V : M!ShoppingKey(o) = M!ShoppingKey(m) => ~M!Before(M!Rank(o.b, o.r), M!Rank(m.b, m.r))
    BY <1>4, <1>8, <2>1
  <2>3. M!Winners(V) = V
    BY <2>2 DEF M!Winners
  <2>4. QED
    BY <2>1, <2>3
<1>10. \A p : /\ IsFiniteSet(OfProject(M!BestOfProject(W), p))
              /\ Cardinality(OfProject(M!BestOfProject(W), p)) <= PerProject
  BY <1>5, <1>6, FewOfProject
<1>11. ASSUME NEW m \in M!BestOfProject(W), NEW b \in bs, M!Pairs(b, m.r)
       PROVE  M!Score(b, m.r) <= M!Score(m.b, m.r)
  <2>1. m \in P /\ m \in W /\ m.r \in {r \in rs : r.valid} /\ m.b \in bs
    BY <1>1, <1>4
  <2>2. PICK o : o = [b |-> b, r |-> m.r]
    OBVIOUS
  <2>3. o \in P /\ o.b = b /\ o.r = m.r
    BY <1>1, <1>11, <2>1, <2>2
  <2>4. ~M!Before(M!Rank(b, m.r), M!Rank(m.b, m.r))
    BY <1>8, <2>1, <2>3 DEF M!ShoppingKey
  <2>5. b \in BudgetRows /\ m.b \in BudgetRows /\ Pairable(m.r)
    BY <2>1 DEF Sides
  <2>6. PICK s : s = M!Rank(b, m.r) /\ s \in [1..9 -> Int] /\ s[1] = -M!Score(b, m.r)
    BY <2>5, RankIsInts
  <2>7. PICK t : t = M!Rank(m.b, m.r) /\ t \in [1..9 -> Int] /\ t[1] = -M!Score(m.b, m.r)
    BY <2>5, RankIsInts
  <2>8. ~(s[1] < t[1])
    BY <2>4, <2>6, <2>7 DEF M!Before
  <2>9. M!Score(b, m.r) \in Int /\ M!Score(m.b, m.r) \in Int
    BY <2>5, ScoreIsInt
  <2>10. QED
    BY <2>6, <2>7, <2>8, <2>9
<1>12. QED
  BY <1>3, <1>5, <1>7, <1>9, <1>10, <1>11

-----------------------------------------------------------------------------
(* What a save stores of the sides that were read.                         *)
Fact(m) ==
  [project |-> m.b.project, org |-> m.b.org, heir |-> m.b.heir,
   request |-> m.r.request, amount |-> m.r.amount, score |-> M!Score(m.b, m.r)]

FactsOf(facts, p) == {f \in facts : f.project = p}

LEMMA EvidenceIs ==
  ASSUME NEW ms, Unique(ms)
  PROVE  /\ M!Evidence(ms) = {Fact(m) : m \in ms}
         /\ \A e, f \in M!Evidence(ms) : e.request = f.request => e = f
         /\ \A p : IsFiniteSet(OfProject(ms, p)) =>
                     Cardinality(FactsOf(M!Evidence(ms), p))
                       <= Cardinality(OfProject(ms, p))
<1>1. M!Evidence(ms) = {Fact(m) : m \in ms}
  BY DEF M!Evidence, Fact
<1>2. \A m : Fact(m).request = m.r.request /\ Fact(m).project = m.b.project
  BY DEF Fact
<1>3. PICK E : E = M!Evidence(ms)
  OBVIOUS
<1>4. \A e \in E : \E m \in ms : e = Fact(m)
  BY <1>1, <1>3
<1>5. \A m \in ms : Fact(m) \in E
  BY <1>1, <1>3
<1>6. \A e, f \in E : e.request = f.request => e = f
  BY <1>2, <1>4 DEF Unique
<1>7. ASSUME NEW p, NEW A, A = OfProject(ms, p), IsFiniteSet(A), NEW C, C = FactsOf(E, p)
      PROVE  Cardinality(C) <= Cardinality(A)
  <2> DEFINE f == [m \in A |-> Fact(m)]
  <2>1. \A m \in A : Fact(m) \in C
    BY <1>2, <1>5, <1>7 DEF OfProject, FactsOf
  <2>2. f \in [A -> C] /\ \A m \in A : f[m] = Fact(m)
    BY <2>1
  <2> HIDE DEF f
  <2>3. \A e \in C : \E m \in A : f[m] = e
    BY <1>2, <1>4, <1>7, <2>2 DEF OfProject, FactsOf
  <2>4. f \in Surjection(A, C)
    BY <2>2, <2>3 DEF Surjection
  <2>5. QED
    BY <1>7, <2>4, FS_Surjection
<1>8. QED
  BY <1>1, <1>3, <1>6, <1>7

LEMMA BestIs ==
  ASSUME NEW bs, NEW rs, Sides(bs, rs), NEW ms, Among(ms, bs, rs), NEW m \in ms
  PROVE  M!Score(m.b, m.r) <= M!Best(ms, m.b.project)
<1> DEFINE A == {o \in ms : o.b.project = m.b.project}
           T == {0} \cup {M!Score(o.b, o.r) : o \in A}
           g == [o \in A |-> M!Score(o.b, o.r)]
<1>1. \A o \in ms : M!Score(o.b, o.r) \in Int
  BY ScoreIsInt DEF Among, Sides
<1>2. IsFiniteSet(A) /\ m \in A
  BY PairsFinite, FS_Subset
<1>3. g \in [A -> Int] /\ \A o \in A : g[o] = M!Score(o.b, o.r)
  BY <1>1
<1> HIDE DEF g
<1>4. PICK o \in A : \A u \in A : g[u] <= g[o]
  BY <1>2, <1>3, FiniteMax
<1>5. PICK best \in T : \A x \in T : best >= x
  <2>1. g[o] \in Int /\ g[o] = M!Score(o.b, o.r)
    BY <1>3, <1>4
  <2>2. CASE g[o] >= 0
    <3>1. g[o] \in T /\ \A x \in T : g[o] >= x
      BY <1>3, <1>4, <2>1, <2>2
    <3>2. QED
      BY <3>1
  <2>3. CASE g[o] < 0
    <3>1. \A x \in T : 0 >= x
      BY <1>3, <1>4, <2>1, <2>3
    <3>2. QED
      BY <3>1
  <2>4. QED
    BY <2>1, <2>2, <2>3
<1>6. M!Best(ms, m.b.project) = M!Max(T)
  BY DEF M!Best
<1> HIDE DEF T
<1>7. M!Max(T) \in T /\ \A x \in T : M!Max(T) >= x
  BY <1>5 DEF M!Max
<1>8. M!Score(m.b, m.r) \in T /\ T \subseteq Int
  BY <1>1, <1>2 DEF T
<1>9. QED
  BY <1>6, <1>7, <1>8

LEMMA NewRunIs ==
  ASSUME Sides(m_kept, m_found), NEW pop \in BOOLEAN, NEW run, run = M!NewRun(pop)
  PROVE  /\ run.verified = pop /\ run.evidence = M!Evidence(M!Assigned(m_kept, m_found))
         /\ IsFiniteSet(run.projects)
         /\ \A e, f \in run.evidence : e.request = f.request => e = f
         /\ \A e \in run.evidence : Cardinality(FactsOf(run.evidence, e.project)) <= PerProject
         /\ pop => /\ \A e \in run.evidence : \E p \in run.projects : p.project = e.project /\ p.best >= e.score
                   /\ {p.project : p \in run.projects} = {b.project : b \in m_kept}
                   /\ Cardinality(run.projects) = Cardinality({p.project : p \in run.projects})
         /\ \A e \in run.evidence, r \in m_found, b \in m_kept :
              r.request = e.request /\ M!Pairs(b, r) => M!Score(b, r) <= e.score
<1>1. PICK ms : ms = M!Assigned(m_kept, m_found)
  OBVIOUS
<1>2. /\ Among(ms, m_kept, m_found) /\ Unique(ms) /\ M!Winners(ms) = ms
      /\ \A p : /\ IsFiniteSet(OfProject(ms, p))
                /\ Cardinality(OfProject(ms, p)) <= PerProject
      /\ \A m \in ms, b \in m_kept : M!Pairs(b, m.r) => M!Score(b, m.r) <= M!Score(m.b, m.r)
  BY <1>1, AssignedAre
<1> DEFINE Of(b) == [project |-> b.project, org |-> b.org, heir |-> b.heir, best |-> M!Best(ms, b.project)]
<1>3. /\ run.verified = pop /\ run.evidence = M!Evidence(ms)
      /\ run.projects = IF pop THEN {Of(b) : b \in m_kept} ELSE {}
  BY <1>1, <1>2 DEF M!NewRun
<1>4. \A b : Of(b).project = b.project /\ Of(b).best = M!Best(ms, b.project)
  OBVIOUS
<1> HIDE DEF Of
<1>5. PICK E : E = M!Evidence(ms)
  OBVIOUS
<1>6. /\ E = {Fact(m) : m \in ms} /\ \A e, f \in E : e.request = f.request => e = f
      /\ \A p : IsFiniteSet(OfProject(ms, p)) =>
                  Cardinality(FactsOf(E, p)) <= Cardinality(OfProject(ms, p))
  BY <1>2, <1>5, EvidenceIs
<1>7. \A m : /\ Fact(m).request = m.r.request /\ Fact(m).project = m.b.project
             /\ Fact(m).score = M!Score(m.b, m.r)
  BY DEF Fact
<1>8. IsFiniteSet(m_kept)
  BY MatchConstants, FS_Subset DEF Sides
<1>9. PICK N : N = {b.project : b \in m_kept}
  OBVIOUS
<1>10. IsFiniteSet(N) /\ Cardinality(N) = Cardinality(m_kept)
  <2> DEFINE f == [b \in m_kept |-> b.project]
  <2>1. f \in Surjection(m_kept, N) /\ f \in Injection(m_kept, N)
    BY <1>9 DEF Surjection, Injection, IsInjective, Sides
  <2>2. QED
    BY <1>8, <2>1, FS_Surjection
<1>11. pop => IsFiniteSet(run.projects) /\ Cardinality(run.projects) = Cardinality(m_kept)
  <2>1. SUFFICES ASSUME pop, NEW R, R = run.projects
                 PROVE  IsFiniteSet(R) /\ Cardinality(R) = Cardinality(m_kept)
    OBVIOUS
  <2> DEFINE f == [b \in m_kept |-> Of(b)]
  <2>2. R = {Of(b) : b \in m_kept}
    BY <1>3, <2>1
  <2>3. f \in [m_kept -> R] /\ \A b \in m_kept : f[b] = Of(b)
    BY <2>2
  <2>4. \A r \in R : \E b \in m_kept : r = Of(b)
    BY <2>2
  <2> HIDE DEF f
  <2>5. f \in Surjection(m_kept, R)
    BY <2>3, <2>4 DEF Surjection
  <2>6. \A a, b \in m_kept : f[a] = f[b] => a = b
    BY <1>4, <2>3 DEF Sides
  <2>7. f \in Injection(m_kept, R)
    BY <2>3, <2>6 DEF Injection, IsInjective
  <2>8. QED
    BY <1>8, <2>5, <2>7, FS_Surjection
<1>12. IsFiniteSet(run.projects)
  BY <1>3, <1>11, FS_EmptySet
<1>13. pop => {p.project : p \in run.projects} = N
  <2>1. SUFFICES ASSUME pop, NEW R, R = run.projects PROVE {p.project : p \in R} = N
    OBVIOUS
  <2>2. R = {Of(b) : b \in m_kept}
    BY <1>3, <2>1
  <2>3. /\ \A r \in R : \E b \in m_kept : r = Of(b)
        /\ \A b \in m_kept : Of(b) \in R
    BY <2>2
  <2>4. QED
    BY <1>4, <1>9, <2>3
<1>14. ASSUME NEW e \in E PROVE Cardinality(FactsOf(E, e.project)) <= PerProject
  <2>1. PICK c : c = Cardinality(FactsOf(E, e.project))
    OBVIOUS
  <2>2. PICK d \in Nat : d = Cardinality(OfProject(ms, e.project))
    BY <1>2, FS_CardinalityType
  <2>3. c <= d /\ d <= PerProject
    BY <1>2, <1>6, <2>1, <2>2
  <2>4. FactsOf(E, e.project) \subseteq E /\ IsFiniteSet(E)
    <3>0. FactsOf(E, e.project) \subseteq E
      BY DEF FactsOf
    <3>1. IsFiniteSet(ms)
      BY <1>2, PairsFinite
    <3> DEFINE f == [m \in ms |-> Fact(m)]
    <3>2. f \in Surjection(ms, E)
      BY <1>6 DEF Surjection
    <3>3. QED
      BY <3>0, <3>1, <3>2, FS_Surjection
  <2>5. c \in Nat
    BY <2>1, <2>4, FS_Subset, FS_CardinalityType
  <2>6. QED
    BY <2>1, <2>3, <2>5, RowTypes
<1>15. ASSUME pop, NEW e \in E PROVE \E p \in run.projects : p.project = e.project /\ p.best >= e.score
  <2>1. PICK m \in ms : e = Fact(m)
    BY <1>6
  <2>2. m.b \in m_kept /\ m.b \in BudgetRows /\ Pairable(m.r)
    BY <1>2 DEF Among, Sides
  <2>3. M!Score(m.b, m.r) <= M!Best(ms, m.b.project)
    BY <1>2, BestIs
  <2>4. Of(m.b) \in run.projects
    BY <1>3, <1>15, <2>2
  <2>5. Of(m.b).best >= e.score /\ Of(m.b).project = e.project
    BY <1>4, <1>7, <2>1, <2>3
  <2>6. QED
    BY <2>4, <2>5
<1>16. ASSUME NEW e \in E, NEW r \in m_found, NEW b \in m_kept, r.request = e.request, M!Pairs(b, r)
       PROVE  M!Score(b, r) <= e.score
  <2>1. PICK m \in ms : e = Fact(m)
    BY <1>6
  <2>2. m.r = r
    BY <1>2, <1>7, <1>16, <2>1 DEF Among, Sides
  <2>3. QED
    BY <1>2, <1>7, <1>16, <2>1, <2>2
<1>17. pop => /\ {p.project : p \in run.projects} = {b.project : b \in m_kept}
              /\ Cardinality(run.projects) = Cardinality({p.project : p \in run.projects})
  BY <1>9, <1>10, <1>11, <1>13
<1>18. run.evidence = E /\ run.verified = pop /\ E = M!Evidence(M!Assigned(m_kept, m_found))
  BY <1>1, <1>3, <1>5
<1>19. \A e \in run.evidence : Cardinality(FactsOf(run.evidence, e.project)) <= PerProject
  BY <1>14, <1>18
<1>20. QED
  BY <1>6, <1>12, <1>15, <1>16, <1>17, <1>18, <1>19

-----------------------------------------------------------------------------
(* The rows and the requests of a year in reading order, and their pages.  *)
LEMMA BudgetInOrder ==
  ASSUME m_budget \subseteq BudgetRows, NEW y
  PROVE  /\ M!BudgetOf(y) \in Seq(M!RowsOf(y)) /\ Len(M!BudgetOf(y)) \in Nat
         /\ DOMAIN M!BudgetOf(y) = 1..Len(M!BudgetOf(y))
         /\ \A i \in 1..Len(M!BudgetOf(y)) : M!BudgetOf(y)[i] \in M!RowsOf(y)
         /\ \A b \in M!RowsOf(y) : \E i \in 1..Len(M!BudgetOf(y)) : M!BudgetOf(y)[i] = b
<1>1. PICK R : R = M!RowsOf(y)
  OBVIOUS
<1>2. R \subseteq BudgetRows /\ IsFiniteSet(R) /\ \A b \in R : b.year = y
  <2>1. R \subseteq BudgetRows /\ \A b \in R : b.year = y
    BY <1>1 DEF M!RowsOf
  <2>2. QED
    BY <2>1, MatchConstants, FS_Subset
<1> DEFINE g == [b \in R |-> b.rank]
<1>3. g \in [R -> Int] /\ \A b \in R : g[b] = b.rank
  BY <1>2, RowTypes
<1> HIDE DEF g
<1>4. \A a, b \in R : g[a] = g[b] => a = b
  BY <1>2, <1>3, RowTypes
<1>5. PICK n \in Nat : n = Cardinality(R)
  BY <1>2, FS_CardinalityType
<1>6. PICK s : InOrder(R, g, s)
  BY <1>2, <1>3, <1>4, OrderExists
<1>7. s \in [1..n -> R] /\ \A i, j \in DOMAIN s : i < j => s[i].rank < s[j].rank
  BY <1>3, <1>5, <1>6 DEF InOrder
<1>8. M!BudgetOf(y) = CHOOSE t \in [1..n -> R] : \A i, j \in DOMAIN t : i < j => t[i].rank < t[j].rank
  BY <1>1, <1>5, SameCardinality DEF M!BudgetOf
<1>9. PICK t : t = M!BudgetOf(y) /\ t \in [1..n -> R] /\ \A i, j \in DOMAIN t : i < j => t[i].rank < t[j].rank
  BY <1>7, <1>8
<1>10. InOrder(R, g, t)
  BY <1>3, <1>5, <1>9 DEF InOrder
<1>11. (\A x \in R : \E i \in 1..n : t[i] = x) /\ t \in Seq(R) /\ Len(t) = n
  BY <1>2, <1>3, <1>5, <1>10, OrderIsWhole
<1>12. QED
  BY <1>1, <1>9, <1>11

LEMMA KeysInOrder ==
  ASSUME m_shopping \subseteq Details, NEW y
  PROVE  /\ M!KeysOf(y) \in Seq(M!RequestsOf(y)) /\ Len(M!KeysOf(y)) \in Nat
         /\ DOMAIN M!KeysOf(y) = 1..Len(M!KeysOf(y))
         /\ \A i \in 1..Len(M!KeysOf(y)) : M!KeysOf(y)[i] \in M!RequestsOf(y)
         /\ \A q \in M!RequestsOf(y) : \E i \in 1..Len(M!KeysOf(y)) : M!KeysOf(y)[i] = q
<1>1. PICK R : R = M!RequestsOf(y)
  OBVIOUS
<1>2. IsFiniteSet(R) /\ R \subseteq Int
  <2>1. PICK D : D = M!DetailsOf(y)
    OBVIOUS
  <2>2. D \subseteq Details /\ IsFiniteSet(D)
    <3>1. D \subseteq Details
      BY <2>1 DEF M!DetailsOf
    <3>2. QED
      BY <3>1, MatchConstants, FS_Subset
  <2>3. R = {d.request : d \in D}
    BY <1>1, <2>1 DEF M!RequestsOf
  <2> DEFINE f == [d \in D |-> d.request]
  <2>4. f \in Surjection(D, R)
    BY <2>3 DEF Surjection
  <2>5. IsFiniteSet(R)
    BY <2>2, <2>4, FS_Surjection
  <2>6. \A d \in D : d.request \in Int
    BY <2>2, MatchConstants DEF M!MatchAssumption
  <2>7. QED
    BY <2>3, <2>5, <2>6
<1> DEFINE g == [q \in R |-> q]
<1>3. g \in [R -> Int] /\ \A q \in R : g[q] = q
  BY <1>2
<1> HIDE DEF g
<1>4. \A a, b \in R : g[a] = g[b] => a = b
  BY <1>3
<1>5. PICK n \in Nat : n = Cardinality(R)
  BY <1>2, FS_CardinalityType
<1>6. PICK s : InOrder(R, g, s)
  BY <1>2, <1>3, <1>4, OrderExists
<1>7. s \in [1..n -> R] /\ \A i, j \in DOMAIN s : i < j => s[i] < s[j]
  BY <1>3, <1>5, <1>6 DEF InOrder
<1>8. M!KeysOf(y) = CHOOSE t \in [1..n -> R] : \A i, j \in DOMAIN t : i < j => t[i] < t[j]
  BY <1>1, <1>5, SameCardinality DEF M!KeysOf
<1>9. PICK t : t = M!KeysOf(y) /\ t \in [1..n -> R] /\ \A i, j \in DOMAIN t : i < j => t[i] < t[j]
  BY <1>7, <1>8
<1>10. InOrder(R, g, t)
  BY <1>3, <1>5, <1>9 DEF InOrder
<1>11. (\A x \in R : \E i \in 1..n : t[i] = x) /\ t \in Seq(R) /\ Len(t) = n
  BY <1>2, <1>3, <1>5, <1>10, OrderIsWhole
<1>12. QED
  BY <1>1, <1>9, <1>11

LEMMA ChunkIs ==
  ASSUME NEW X, NEW s \in Seq(X), NEW o \in Nat, o <= Len(s), NEW size \in Nat
  PROVE  LET page == M!Chunk(s, o, size) IN
         /\ Len(page) \in Nat /\ Len(page) <= size /\ o + Len(page) <= Len(s)
         /\ Len(page) < size => o + Len(page) = Len(s)
         /\ DOMAIN page = 1..Len(page) /\ \A i \in 1..Len(page) : page[i] = s[o + i] /\ page[i] \in X
<1>1. PICK n \in Nat : n = Len(s) /\ s \in [1..n -> X]
  BY LenProperties
<1>2. PICK e \in Nat : e = M!Least(o + size, n) /\ o <= e /\ e <= n /\ e <= o + size /\ (e < o + size => e = n)
  <2>1. o <= n /\ n \in Nat
    BY <1>1
  <2>2. CASE o + size < n
    <3>1. M!Least(o + size, n) = o + size
      BY <2>2 DEF M!Least
    <3>2. QED
      BY <2>1, <2>2, <3>1
  <2>3. CASE ~(o + size < n)
    <3>1. M!Least(o + size, n) = n
      BY <2>3 DEF M!Least
    <3>2. QED
      BY <2>1, <2>3, <3>1
  <2>4. QED
    BY <2>2, <2>3
<1>3. PICK page : page = SubSeq(s, o + 1, e)
  OBVIOUS
<1>4. M!Chunk(s, o, size) = page
  BY <1>1, <1>2, <1>3 DEF M!Chunk
<1>5. o + 1 \in Int /\ e \in Int /\ \A i \in (o + 1)..e : s[i] \in X
  BY <1>1, <1>2
<1>6. /\ page \in Seq(X) /\ Len(page) = (IF o + 1 <= e THEN e - (o + 1) + 1 ELSE 0)
      /\ \A i \in 1..(e - (o + 1) + 1) : page[i] = s[(o + 1) + i - 1]
  BY <1>3, <1>5, SubSeqProperties
<1>7. PICK k \in Nat : k = e - o
  BY <1>2
<1>8. Len(page) = k /\ DOMAIN page = 1..k
  BY <1>2, <1>6, <1>7, LenProperties
<1>9. \A i \in 1..k : page[i] = s[o + i] /\ page[i] \in X
  <2>1. TAKE i \in 1..k
  <2>2. i \in 1..(e - (o + 1) + 1) /\ (o + 1) + i - 1 = o + i /\ o + i \in (o + 1)..e
    BY <1>7
  <2>3. QED
    BY <1>5, <1>6, <2>2
<1>10. QED
  BY <1>1, <1>2, <1>4, <1>7, <1>8, <1>9

-----------------------------------------------------------------------------
(* The cycle of the matches: the inductive invariant.  What a full read    *)
(* has kept after n rows are the rows that are the first target of their   *)
(* project, and after n keys the requests of those keys.                   *)
First(s, i) ==
  M!Target(s[i]) /\ \A j \in 1..(i - 1) : M!Target(s[j]) => s[j].project # s[i].project
Firsts(s, n) == {s[i] : i \in {i \in 1..n : First(s, i)}}
Seen(s, n) == {s[i] : i \in 1..n}
Asked(ds, Q) == M!Requests({d \in ds : d.request \in Q})
Ended(len) == m_scan.offset <= len /\ (m_scan.done => m_scan.offset = len /\ len < MaxRows)

MatchTypes ==
  /\ M!TypeOK /\ m_budget \subseteq BudgetRows /\ m_shopping \subseteq Details
  /\ m_legacy \in [snapshot : BOOLEAN, days : SUBSET (1..LegacyDays)]
  /\ m_covered \in [snapshot : BOOLEAN, days : BOOLEAN]
  /\ m_runs = [y \in M!Years |-> m_runs[y]] /\ \A y \in M!Years : m_runs[y].verified \in BOOLEAN
  /\ m_full \in BOOLEAN /\ m_scan \in [offset : Nat, done : BOOLEAN, budget : BOOLEAN]
  /\ m_todo \in {<<>>, <<M!Legacy>>, <<M!Current, M!Legacy>>}

(* A sample is one page, and the rows kept have one row for each project.  *)
MatchScan ==
  /\ m_full => m_scan.offset <= MaxRows
  /\ ~m_full => m_scan.offset <= Sample /\ (m_scan.offset > 0 => m_scan.done)
  /\ m_kept \subseteq BudgetRows /\ \A a, b \in m_kept : a.project = b.project => a = b

MatchYear ==
  m_pc \in {"budget", "shopping"} =>
    /\ m_year \in M!Years /\ m_full = M!Covered(m_year)
    /\ m_found \subseteq M!Requests(M!DetailsOf(m_year))

MatchBudget ==
  m_pc = "budget" =>
    /\ m_found = {}
    /\ m_full => /\ Ended(Len(M!BudgetOf(m_year)))
                 /\ m_kept = Firsts(M!BudgetOf(m_year), m_scan.offset)

MatchShopping ==
  m_pc = "shopping" /\ m_full =>
    /\ Ended(Len(M!KeysOf(m_year)))
    /\ m_found = Asked(M!DetailsOf(m_year), Seen(M!KeysOf(m_year), m_scan.offset))
    /\ m_scan.budget <=> Len(M!BudgetOf(m_year)) < MaxRows
    /\ m_scan.budget => m_kept = Firsts(M!BudgetOf(m_year), Len(M!BudgetOf(m_year)))

(* What a cycle read completely is stored, and reading it again would give *)
(* the same until the cycle ends.                                          *)
Matched(y) ==
  M!Evidence(M!Assigned(M!FirstOf(M!BudgetOf(y), {}), M!Requests(M!DetailsOf(y))))
MatchComplete ==
  m_pc # "idle" => \A y \in m_complete :
    /\ M!Covered(y) /\ Len(M!BudgetOf(y)) < MaxRows /\ Len(M!KeysOf(y)) < MaxRows
    /\ m_runs[y].verified /\ m_runs[y].evidence = Matched(y)

SoundRun(run) ==
  /\ IsFiniteSet(run.projects)
  /\ \A e, f \in run.evidence : e.request = f.request => e = f
  /\ \A e \in run.evidence :
       /\ Cardinality(FactsOf(run.evidence, e.project)) <= PerProject
       /\ run.verified => \E p \in run.projects : p.project = e.project /\ p.best >= e.score
MatchRuns == \A y \in M!Years : SoundRun(m_runs[y])
MatchRates == \A g \in m_patterns : g.total > 0 => g.high <= g.total

MatchInv ==
  /\ MatchTypes /\ MatchScan /\ MatchYear /\ MatchBudget /\ MatchShopping
  /\ MatchComplete /\ MatchRuns /\ MatchRates

LEMMA CountedOnceFollows == ASSUME MatchInv PROVE M!CountedOnce
<1>1. M!TypeOK /\ MatchRuns /\ MatchRates
  BY DEF MatchInv, MatchTypes
<1>2. ASSUME NEW y \in M!Years, NEW m \in m_runs[y].evidence
      PROVE  M!Cardinality({n \in m_runs[y].evidence : n.project = m.project}) <= PerProject
  <2>1. FactsOf(m_runs[y].evidence, m.project) = {n \in m_runs[y].evidence : n.project = m.project}
    BY DEF FactsOf
  <2>2. QED
    BY <1>1, <1>2, <2>1, SameCardinality DEF MatchRuns, SoundRun
<1>3. \A y \in M!Years : \A m, n \in m_runs[y].evidence : m.request = n.request => m = n
  BY <1>1 DEF MatchRuns, SoundRun
<1>4. \A y \in M!Years : \A m \in m_runs[y].evidence :
        m_runs[y].verified => \E p \in m_runs[y].projects : p.project = m.project /\ p.best >= m.score
  BY <1>1 DEF MatchRuns, SoundRun
<1>5. \A g \in m_patterns : g.total > 0 => g.high <= g.total
  BY <1>1 DEF MatchRates
<1>6. QED
  BY ONLY <1>1, <1>2, <1>3, <1>4, <1>5 DEF M!CountedOnce

(* The rows of a year while the source stays.                              *)
LEMMA SameRows ==
  ASSUME UNCHANGED m_budget, NEW y
  PROVE  M!BudgetOf(y)' = M!BudgetOf(y) /\ M!RowsOf(y)' = M!RowsOf(y)
<1>1. PICK R : R = M!RowsOf(y) /\ M!RowsOf(y)' = R
  BY DEF M!RowsOf
<1>2. M!BudgetOf(y)' = CHOOSE s \in [1..M!Cardinality(R) -> R] : \A i, j \in DOMAIN s : i < j => s[i].rank < s[j].rank
  BY <1>1 DEF M!BudgetOf
<1>3. M!BudgetOf(y) = CHOOSE s \in [1..M!Cardinality(R) -> R] : \A i, j \in DOMAIN s : i < j => s[i].rank < s[j].rank
  BY <1>1 DEF M!BudgetOf
<1>4. QED
  BY <1>1, <1>2, <1>3

LEMMA SameDetails ==
  ASSUME NEW y, M!DetailsOf(y)' = M!DetailsOf(y)
  PROVE  M!KeysOf(y)' = M!KeysOf(y)
<1>1. PICK R : R = M!RequestsOf(y) /\ M!RequestsOf(y)' = R
  BY DEF M!RequestsOf
<1>2. M!KeysOf(y)' = CHOOSE s \in [1..M!Cardinality(R) -> R] : \A i, j \in DOMAIN s : i < j => s[i] < s[j]
  BY <1>1 DEF M!KeysOf
<1>3. M!KeysOf(y) = CHOOSE s \in [1..M!Cardinality(R) -> R] : \A i, j \in DOMAIN s : i < j => s[i] < s[j]
  BY <1>1 DEF M!KeysOf
<1>4. QED
  BY <1>2, <1>3

LEMMA SameSource ==
  ASSUME UNCHANGED <<m_budget, m_shopping, m_covered, m_legacy>>
  PROVE  \A y : /\ M!BudgetOf(y)' = M!BudgetOf(y) /\ M!RowsOf(y)' = M!RowsOf(y)
                /\ M!DetailsOf(y)' = M!DetailsOf(y) /\ M!KeysOf(y)' = M!KeysOf(y)
                /\ M!Covered(y)' = M!Covered(y) /\ Matched(y)' = Matched(y)
<1>1. TAKE y
<1>2. M!BudgetOf(y)' = M!BudgetOf(y) /\ M!RowsOf(y)' = M!RowsOf(y)
  BY SameRows
<1>3. M!DetailsOf(y)' = M!DetailsOf(y)
  BY DEF M!DetailsOf
<1>4. M!KeysOf(y)' = M!KeysOf(y)
  BY <1>3, SameDetails
<1>5. M!Covered(y)' = M!Covered(y)
  BY DEF M!Covered
<1>6. Matched(y)' = Matched(y)
  BY <1>2, <1>3 DEF Matched
<1>7. QED
  BY <1>2, <1>3, <1>4, <1>5, <1>6

LEMMA MatchStays == ASSUME MatchInv, UNCHANGED matchVars PROVE MatchInv'
<1>1. UNCHANGED <<m_budget, m_shopping, m_covered, m_legacy, m_runs, m_pc, m_todo, m_year, m_full,
    m_scan, m_kept, m_found, m_complete, m_result, m_enough, m_state, m_patterns>>
  BY DEF matchVars
<1>2. \A y : /\ M!BudgetOf(y)' = M!BudgetOf(y) /\ M!DetailsOf(y)' = M!DetailsOf(y)
             /\ M!KeysOf(y)' = M!KeysOf(y) /\ M!Covered(y)' = M!Covered(y) /\ Matched(y)' = Matched(y)
  BY <1>1, SameSource
<1>3. MatchTypes'
  BY <1>1 DEF MatchInv, MatchTypes, M!TypeOK
<1>4. MatchScan'
  BY <1>1 DEF MatchInv, MatchScan
<1>5. MatchYear'
  BY <1>1, <1>2 DEF MatchInv, MatchYear
<1>6. MatchBudget'
  BY <1>1, <1>2 DEF MatchInv, MatchBudget, Ended
<1>7. MatchShopping'
  BY <1>1, <1>2 DEF MatchInv, MatchShopping, Ended
<1>8. MatchComplete'
  BY <1>1, <1>2 DEF MatchInv, MatchComplete
<1>9. MatchRuns' /\ MatchRates'
  BY <1>1 DEF MatchInv, MatchRuns, MatchRates
<1>10. QED
  BY <1>3, <1>4, <1>5, <1>6, <1>7, <1>8, <1>9 DEF MatchInv

-----------------------------------------------------------------------------
(* A page after n rows: the first targets grow, and are a whole read's.    *)
LEMMA FirstBefore ==
  ASSUME NEW s, NEW n \in Nat, NEW i \in 1..n, M!Target(s[i])
  PROVE  \E j \in 1..i : First(s, j) /\ s[j].project = s[i].project
<1> DEFINE A == {j \in 1..n : M!Target(s[j]) /\ s[j].project = s[i].project}
           g == [j \in A |-> j]
<1>1. IsFiniteSet(A)
  <2>1. IsFiniteSet(1..n)
    BY FS_Interval
  <2>2. A \subseteq 1..n
    OBVIOUS
  <2>3. QED
    BY <2>1, <2>2, FS_Subset
<1>2. i \in A
  OBVIOUS
<1>3. g \in [A -> Int] /\ \A j \in A : g[j] = j /\ j \in 1..n
  OBVIOUS
<1>4. \A j \in 1..n : M!Target(s[j]) /\ s[j].project = s[i].project => j \in A
  OBVIOUS
<1>5. \A j \in A : M!Target(s[j]) /\ s[j].project = s[i].project
  OBVIOUS
<1> HIDE DEF A, g
<1>6. PICK m \in A : \A u \in A : g[m] <= g[u]
  BY <1>1, <1>2, <1>3, FiniteMin
<1>7. m \in 1..n /\ \A u \in A : m <= u /\ u \in 1..n
  BY <1>3, <1>6
<1>8. m \in 1..i
  BY <1>2, <1>7
<1>9. ASSUME NEW j \in 1..(m - 1), M!Target(s[j]), s[j].project = s[m].project PROVE FALSE
  <2>1. j \in 1..n /\ j < m
    BY <1>7, <1>9
  <2>2. j \in A
    BY <1>4, <1>5, <1>6, <1>9, <2>1
  <2>3. QED
    BY <1>7, <2>1, <2>2
<1>10. First(s, m)
  BY <1>5, <1>6, <1>9 DEF First
<1>11. QED
  BY <1>5, <1>6, <1>8, <1>10

LEMMA FirstsGrow ==
  ASSUME NEW s, NEW o \in Nat, NEW k \in Nat, NEW page,
         DOMAIN page = 1..k, \A i \in 1..k : page[i] = s[o + i]
  PROVE  Firsts(s, o) \cup M!FirstOf(page, Firsts(s, o)) = Firsts(s, o + k)
<1> DEFINE old == Firsts(s, o)
           First1(i) == /\ M!Target(page[i]) /\ page[i].project \notin {b.project : b \in old}
                        /\ \A j \in 1..(i - 1) : M!Target(page[j]) => page[j].project # page[i].project
<1>1. ASSUME NEW i \in 1..k PROVE First1(i) <=> First(s, o + i)
  <2>1. \A j \in 1..(i - 1) : j \in 1..k /\ page[j] = s[o + j] /\ o + j \in 1..(o + i - 1)
    OBVIOUS
  <2>2. page[i] = s[o + i] /\ o + i \in Nat
    OBVIOUS
  <2>3. ASSUME First(s, o + i) PROVE First1(i)
    <3>1. M!Target(s[o + i]) /\ \A j \in 1..(o + i - 1) : M!Target(s[j]) => s[j].project # s[o + i].project
      BY <2>3 DEF First
    <3>2. \A j \in 1..o : j \in 1..(o + i - 1)
      OBVIOUS
    <3>3. \A b \in old : b.project # s[o + i].project
      BY <3>1, <3>2 DEF Firsts, First
    <3>4. \A j \in 1..(i - 1) : M!Target(page[j]) => page[j].project # page[i].project
      BY <2>1, <2>2, <3>1
    <3>5. QED
      BY <2>2, <3>1, <3>3, <3>4
  <2>4. ASSUME First1(i) PROVE First(s, o + i)
    <3>1. M!Target(s[o + i])
      BY <2>2, <2>4
    <3>2. ASSUME NEW j \in 1..(o + i - 1), M!Target(s[j]), s[j].project = s[o + i].project PROVE FALSE
      <4>1. CASE j <= o
        <5>1. j \in 1..o
          BY <4>1
        <5>2. PICK l \in 1..j : First(s, l) /\ s[l].project = s[j].project
          BY <3>2, <5>1, FirstBefore
        <5>3. l \in 1..o
          BY <5>1, <5>2
        <5>4. s[l] \in old
          BY <5>2, <5>3 DEF Firsts
        <5>5. QED
          BY <2>2, <2>4, <3>2, <5>2, <5>4
      <4>2. CASE ~(j <= o)
        <5>1. j - o \in 1..(i - 1) /\ o + (j - o) = j
          BY <4>2
        <5>2. page[j - o] = s[j]
          BY <2>1, <5>1
        <5>3. QED
          BY <2>2, <2>4, <3>2, <5>1, <5>2
      <4>3. QED
        BY <4>1, <4>2
    <3>3. QED
      BY <3>1, <3>2 DEF First
  <2>5. QED
    BY <2>3, <2>4
<1>2. M!FirstOf(page, old) = {page[i] : i \in {i \in 1..k : First1(i)}}
  BY DEF M!FirstOf
<1> HIDE DEF First1
<1>3. M!FirstOf(page, old) = {s[o + i] : i \in {i \in 1..k : First(s, o + i)}}
  BY <1>1, <1>2
<1>4. ASSUME NEW x \in Firsts(s, o + k) PROVE x \in old \cup M!FirstOf(page, old)
  <2>1. PICK j \in 1..(o + k) : x = s[j] /\ First(s, j)
    BY <1>4 DEF Firsts
  <2>2. CASE j <= o
    <3>1. j \in 1..o
      BY <2>2
    <3>2. QED
      BY <2>1, <3>1 DEF Firsts
  <2>3. CASE ~(j <= o)
    <3>1. j - o \in 1..k /\ o + (j - o) = j
      BY <2>3
    <3>2. QED
      BY <1>3, <2>1, <3>1
  <2>4. QED
    BY <2>2, <2>3
<1>5. ASSUME NEW x \in old PROVE x \in Firsts(s, o + k)
  <2>1. PICK j \in 1..o : x = s[j] /\ First(s, j)
    BY <1>5 DEF Firsts
  <2>2. j \in 1..(o + k)
    OBVIOUS
  <2>3. QED
    BY <2>1, <2>2 DEF Firsts
<1>6. ASSUME NEW x \in M!FirstOf(page, old) PROVE x \in Firsts(s, o + k)
  <2>1. PICK i \in 1..k : x = s[o + i] /\ First(s, o + i)
    BY <1>3, <1>6
  <2>2. o + i \in 1..(o + k)
    OBVIOUS
  <2>3. QED
    BY <2>1, <2>2 DEF Firsts
<1>7. QED
  BY <1>4, <1>5, <1>6

LEMMA FirstsOfNone == ASSUME NEW s PROVE Firsts(s, 0) = {} /\ Seen(s, 0) = {}
BY DEF Firsts, Seen

LEMMA FirstsOfAll ==
  ASSUME NEW s, NEW n \in Nat, DOMAIN s = 1..n
  PROVE  /\ Firsts(s, n) = M!FirstOf(s, {})
         /\ {b.project : b \in Firsts(s, n)}
              = {b.project : b \in {b \in {s[i] : i \in 1..n} : M!Target(b)}}
<1>1. \A i \in 1..n : s[i] = s[0 + i]
  OBVIOUS
<1>2. Firsts(s, 0) = {}
  BY FirstsOfNone
<1>3. {} \cup M!FirstOf(s, {}) = Firsts(s, 0 + n)
  <2>1. 0 \in Nat
    OBVIOUS
  <2>2. Firsts(s, 0) \cup M!FirstOf(s, Firsts(s, 0)) = Firsts(s, 0 + n)
    BY <1>1, <2>1, FirstsGrow
  <2>3. QED
    BY <1>2, <2>2
<1>4. 0 + n = n
  OBVIOUS
<1>5. \A b \in Firsts(s, n) : b \in {s[i] : i \in 1..n} /\ M!Target(b)
  BY DEF Firsts, First
<1>6. ASSUME NEW i \in 1..n, M!Target(s[i]) PROVE \E b \in Firsts(s, n) : b.project = s[i].project
  <2>1. PICK j \in 1..i : First(s, j) /\ s[j].project = s[i].project
    BY <1>6, FirstBefore
  <2>2. j \in 1..n
    OBVIOUS
  <2>3. QED
    BY <2>1, <2>2 DEF Firsts
<1>7. QED
  BY <1>3, <1>4, <1>5, <1>6

LEMMA FirstOfFits ==
  ASSUME NEW page, NEW k \in Nat, DOMAIN page = 1..k, \A i \in 1..k : page[i] \in BudgetRows,
         NEW old, old \subseteq BudgetRows, \A a, b \in old : a.project = b.project => a = b
  PROVE  LET new == old \cup M!FirstOf(page, old) IN
         new \subseteq BudgetRows /\ \A a, b \in new : a.project = b.project => a = b
<1>1. ASSUME NEW a \in M!FirstOf(page, old)
      PROVE  a \in BudgetRows /\ \A b \in old : a.project # b.project
  BY <1>1 DEF M!FirstOf
<1>2. ASSUME NEW a \in M!FirstOf(page, old), NEW b \in M!FirstOf(page, old), a.project = b.project
      PROVE  a = b
  <2>1. PICK i \in 1..k : /\ a = page[i] /\ M!Target(page[i])
                          /\ \A j \in 1..(i - 1) : M!Target(page[j]) => page[j].project # page[i].project
    BY <1>2 DEF M!FirstOf
  <2>2. PICK l \in 1..k : /\ b = page[l] /\ M!Target(page[l])
                          /\ \A j \in 1..(l - 1) : M!Target(page[j]) => page[j].project # page[l].project
    BY <1>2 DEF M!FirstOf
  <2>3. ~(i < l)
    <3>1. i < l => i \in 1..(l - 1)
      OBVIOUS
    <3>2. QED
      BY <1>2, <2>1, <2>2, <3>1
  <2>4. ~(l < i)
    <3>1. l < i => l \in 1..(i - 1)
      OBVIOUS
    <3>2. QED
      BY <1>2, <2>1, <2>2, <3>1
  <2>5. i = l
    BY <2>3, <2>4
  <2>6. QED
    BY <2>1, <2>2, <2>5
<1>3. QED
  BY <1>1, <1>2

LEMMA SeenGrows ==
  ASSUME NEW s, NEW o \in Nat, NEW k \in Nat, NEW page,
         \A i \in 1..k : page[i] = s[o + i]
  PROVE  \A x : x \in Seen(s, o + k) <=> x \in Seen(s, o) \/ x \in Seen(page, k)
<1>1. Seen(page, k) = {s[o + i] : i \in 1..k}
  BY DEF Seen
<1>2. ASSUME NEW j \in 1..(o + k) PROVE s[j] \in Seen(s, o) \cup Seen(page, k)
  <2>1. CASE j <= o
    <3>1. j \in 1..o
      BY <2>1
    <3>2. QED
      BY <3>1 DEF Seen
  <2>2. CASE ~(j <= o)
    <3>1. j - o \in 1..k /\ o + (j - o) = j
      BY <2>2
    <3>2. QED
      BY <1>1, <3>1
  <2>3. QED
    BY <2>1, <2>2
<1>3. \A j \in 1..o : j \in 1..(o + k)
  OBVIOUS
<1>4. \A i \in 1..k : o + i \in 1..(o + k)
  OBVIOUS
<1>5. QED
  BY <1>1, <1>2, <1>3, <1>4 DEF Seen

-----------------------------------------------------------------------------
(* One lemma for each action.                                              *)
LEMMA LegacyIsNotCurrent == M!Legacy \in M!Years /\ M!Current \in M!Years /\ M!Legacy # M!Current
                            /\ \A y \in M!Years : y = M!Legacy \/ y = M!Current
BY DEF M!Years, M!Legacy, M!Current

LEMMA CoveredIsBoolean == ASSUME MatchTypes, NEW y PROVE M!Covered(y) \in BOOLEAN
<1>1. m_legacy.snapshot \in BOOLEAN /\ m_covered.snapshot \in BOOLEAN /\ m_covered.days \in BOOLEAN
  BY DEF MatchTypes
<1>2. QED
  BY <1>1 DEF M!Covered

LEMMA MatchStarts == M!Init => MatchInv
<1> SUFFICES ASSUME M!Init PROVE MatchInv
  OBVIOUS
<1>1. /\ m_budget \in {{}, BudgetRows} /\ m_legacy \in [snapshot : {FALSE}, days : {{}, 1..LegacyDays}]
      /\ m_shopping \subseteq Details /\ m_covered \in [snapshot : BOOLEAN, days : BOOLEAN]
      /\ m_runs = [y \in M!Years |-> M!NoRun] /\ m_pc = "idle" /\ m_todo = <<>> /\ m_year = 0
      /\ m_full = FALSE /\ m_scan = M!Nothing /\ m_kept = {} /\ m_found = {} /\ m_complete = {}
      /\ m_state = "IDLE" /\ m_patterns = {}
  BY DEF M!Init
<1>2. MaxRows \in Nat /\ Sample \in Nat
  BY RowTypes
<1>3. /\ m_scan \in [offset : Nat, done : BOOLEAN, budget : BOOLEAN] /\ m_scan.offset = 0
  BY <1>1 DEF M!Nothing
<1>4. \A y \in M!Years : m_runs[y] = M!NoRun
  BY <1>1
<1>5. M!NoRun.projects = {} /\ M!NoRun.evidence = {} /\ M!NoRun.verified = FALSE
  BY DEF M!NoRun
<1>6. MatchTypes
  <2>1. 0 \in 0..(MaxRows + Sample)
    BY <1>2
  <2>2. m_legacy.days \subseteq 1..LegacyDays /\ m_legacy \in [snapshot : BOOLEAN, days : SUBSET (1..LegacyDays)]
    BY <1>1
  <2>3. M!TypeOK
    BY <1>1, <1>3, <2>1, <2>2 DEF M!TypeOK
  <2>4. m_runs = [y \in M!Years |-> m_runs[y]] /\ \A y \in M!Years : m_runs[y].verified \in BOOLEAN
    BY <1>1, <1>4, <1>5
  <2>5. QED
    BY <1>1, <1>3, <2>2, <2>3, <2>4 DEF MatchTypes
<1>7. MatchScan
  BY <1>1, <1>2, <1>3 DEF MatchScan
<1>8. MatchYear /\ MatchBudget /\ MatchShopping /\ MatchComplete
  BY <1>1 DEF MatchYear, MatchBudget, MatchShopping, MatchComplete
<1>9. MatchRuns /\ MatchRates
  <2>1. IsFiniteSet({})
    BY FS_EmptySet
  <2>2. QED
    BY <1>1, <1>4, <1>5, <2>1 DEF MatchRuns, MatchRates, SoundRun
<1>10. QED
  BY <1>6, <1>7, <1>8, <1>9 DEF MatchInv

(* An action that leaves the reading state and the runs alone, for idle.   *)
LEMMA IdleKeeps ==
  ASSUME MatchInv, MatchTypes', m_pc' = "idle", UNCHANGED <<m_full, m_scan, m_kept, m_runs>>, MatchRates'
  PROVE  MatchInv'
<1>1. MatchScan' /\ MatchRuns'
  BY DEF MatchInv, MatchScan, MatchRuns
<1>2. MatchYear' /\ MatchBudget' /\ MatchShopping' /\ MatchComplete'
  BY DEF MatchYear, MatchBudget, MatchShopping, MatchComplete
<1>3. QED
  BY <1>1, <1>2 DEF MatchInv

LEMMA CollectKeeps == ASSUME MatchInv, M!Collect PROVE MatchInv'
<1>1. m_pc = "idle" /\ m_covered' \in [snapshot : BOOLEAN, days : BOOLEAN]
      /\ UNCHANGED <<m_legacy, m_runs, m_pc, m_todo, m_year, m_full, m_scan, m_kept, m_found,
                     m_complete, m_result, m_enough, m_state, m_patterns>>
  BY DEF M!Collect, M!cycle
<1>2. m_budget' \subseteq BudgetRows /\ m_shopping' \subseteq Details
  <2>1. m_budget \subseteq BudgetRows /\ m_shopping \subseteq Details
    BY DEF MatchInv, MatchTypes
  <2>2. CASE \E b \in BudgetRows : m_budget' = M!SymDiff(m_budget, {b}) /\ UNCHANGED m_shopping
    BY <2>1, <2>2 DEF M!SymDiff
  <2>3. CASE \E d \in {x \in Details : x.year = M!Current} :
               m_shopping' = M!SymDiff(m_shopping, {d}) /\ UNCHANGED m_budget
    BY <2>1, <2>3 DEF M!SymDiff
  <2>4. CASE m_shopping' = {d \in m_shopping : d.year = M!Current} /\ UNCHANGED m_budget
    BY <2>1, <2>4
  <2>5. QED
    BY <2>2, <2>3, <2>4 DEF M!Collect
<1>3. MatchTypes'
  BY <1>1, <1>2 DEF MatchInv, MatchTypes, M!TypeOK
<1>4. MatchRates'
  BY <1>1 DEF MatchInv, MatchRates
<1>5. QED
  BY <1>1, <1>3, <1>4, IdleKeeps

LEMMA StartKeeps == ASSUME MatchInv, M!Start PROVE MatchInv'
<1>1. m_pc = "idle" /\ UNCHANGED <<m_budget, m_shopping, m_covered, m_legacy, m_runs, m_year, m_full,
                                   m_scan, m_kept, m_found, m_patterns>>
  BY DEF M!Start, M!source
<1>2. MatchRates'
  BY <1>1 DEF MatchInv, MatchRates
<1>3. CASE m_state' = "RUNNING" /\ m_pc' = "cover" /\ m_todo' = <<M!Current, M!Legacy>> /\ m_complete' = {}
  <2>1. MatchTypes'
    BY <1>1, <1>3 DEF MatchInv, MatchTypes, M!TypeOK
  <2>2. MatchScan' /\ MatchRuns'
    BY <1>1 DEF MatchInv, MatchScan, MatchRuns
  <2>3. MatchYear' /\ MatchBudget' /\ MatchShopping' /\ MatchComplete'
    BY <1>3 DEF MatchYear, MatchBudget, MatchShopping, MatchComplete
  <2>4. QED
    BY <1>2, <2>1, <2>2, <2>3 DEF MatchInv
<1>4. CASE m_state' \in {"LEASE_HELD", "WAITING_STORAGE", "WAITING_MEMORY"}
           /\ UNCHANGED <<m_pc, m_todo, m_complete>>
  <2>1. MatchTypes'
    BY <1>1, <1>4 DEF MatchInv, MatchTypes, M!TypeOK
  <2>2. QED
    BY <1>1, <1>2, <1>4, <2>1, IdleKeeps
<1>5. QED
  BY <1>3, <1>4 DEF M!Start

LEMMA FailKeeps == ASSUME MatchInv, M!Fail PROVE MatchInv'
<1>1. m_pc' = "idle" /\ m_state' \in {"FAILED", "WAITING_QUOTA"}
      /\ UNCHANGED <<m_budget, m_shopping, m_covered, m_legacy, m_runs, m_todo, m_year, m_full, m_scan,
                     m_kept, m_found, m_complete, m_result, m_enough, m_patterns>>
  BY DEF M!Fail, M!source, M!cycle
<1>2. MatchTypes'
  BY <1>1 DEF MatchInv, MatchTypes, M!TypeOK
<1>3. MatchRates'
  BY <1>1 DEF MatchInv, MatchRates
<1>4. QED
  BY <1>1, <1>2, <1>3, IdleKeeps

LEMMA CrashKeeps == ASSUME MatchInv, M!Crash PROVE MatchInv'
<1>1. m_pc' = "idle" /\ m_state' = "IDLE" /\ m_patterns' = {}
      /\ UNCHANGED <<m_budget, m_shopping, m_covered, m_legacy, m_runs, m_todo, m_year, m_full, m_scan,
                     m_kept, m_found, m_complete, m_result, m_enough>>
  BY DEF M!Crash, M!source, M!cycle
<1>2. MatchTypes'
  BY <1>1 DEF MatchInv, MatchTypes, M!TypeOK
<1>3. MatchRates'
  BY <1>1 DEF MatchRates
<1>4. QED
  BY <1>1, <1>2, <1>3, IdleKeeps

LEMMA RunDaysTypes ==
  ASSUME MatchTypes, NEW days, days \subseteq M!NextDays, M!RunDays(days)
  PROVE  /\ m_shopping' \subseteq Details /\ UNCHANGED <<m_budget, m_covered>>
         /\ m_legacy' \in [snapshot : BOOLEAN, days : SUBSET (1..LegacyDays)]
         /\ m_legacy'.days = m_legacy.days /\ m_shopping' = m_shopping \cup days
         /\ m_legacy'.snapshot = m_legacy.snapshot \/ m_legacy'.snapshot = TRUE
<1>1. m_shopping' = m_shopping \cup days /\ UNCHANGED <<m_budget, m_covered>>
      /\ \E s \in {TRUE, m_legacy.snapshot} : m_legacy' = [m_legacy EXCEPT !.snapshot = s]
  BY DEF M!RunDays
<1>2. m_legacy \in [snapshot : BOOLEAN, days : SUBSET (1..LegacyDays)] /\ m_shopping \subseteq Details
  BY DEF MatchTypes
<1>3. days \subseteq Details
  BY DEF M!NextDays
<1>4. m_legacy.snapshot \in BOOLEAN
  BY <1>2
<1>5. PICK s \in BOOLEAN : m_legacy' = [m_legacy EXCEPT !.snapshot = s] /\ (s = m_legacy.snapshot \/ s = TRUE)
  BY <1>1, <1>4
<1>6. m_legacy' \in [snapshot : BOOLEAN, days : SUBSET (1..LegacyDays)]
      /\ m_legacy'.days = m_legacy.days /\ m_legacy'.snapshot = s
  BY <1>2, <1>5
<1>7. QED
  BY <1>1, <1>2, <1>3, <1>5, <1>6

LEMMA BackfillRaisesKeeps == ASSUME MatchInv, M!BackfillRaises PROVE MatchInv'
<1>1. m_pc' = "idle" /\ m_state' = "FAILED"
      /\ UNCHANGED <<m_runs, m_todo, m_year, m_full, m_scan,
                     m_kept, m_found, m_complete, m_result, m_enough, m_patterns>>
  BY DEF M!BackfillRaises, M!cycle
<1>2. PICK days : days \subseteq M!NextDays /\ M!RunDays(days)
  BY DEF M!BackfillRaises
<1>3. MatchTypes
  BY DEF MatchInv
<1>4. /\ m_shopping' \subseteq Details /\ UNCHANGED <<m_budget, m_covered>>
      /\ m_legacy' \in [snapshot : BOOLEAN, days : SUBSET (1..LegacyDays)]
  BY <1>2, <1>3, RunDaysTypes
<1>5. m_legacy'.days \subseteq 1..LegacyDays
  BY <1>4
<1>6. MatchTypes'
  BY <1>1, <1>3, <1>4, <1>5 DEF MatchTypes, M!TypeOK
<1>7. MatchRates'
  BY <1>1 DEF MatchInv, MatchRates
<1>8. QED
  BY <1>1, <1>6, <1>7, IdleKeeps

LEMMA NoDayIsLeft ==
  ASSUME M!Covered(M!Legacy) PROVE M!NextDays = {} /\ m_legacy.snapshot
<1>1. m_legacy.snapshot /\ m_legacy.days = 1..LegacyDays
  BY DEF M!Covered
<1>2. \A d \in Details : d.year = M!Legacy => d.day \in 1..LegacyDays
  BY RowTypes
<1>3. QED
  BY <1>1, <1>2 DEF M!NextDays

LEMMA BackfillKeeps == ASSUME MatchInv, M!Backfill PROVE MatchInv'
<1>1. m_pc = "legacy" /\ UNCHANGED <<m_runs, m_year, m_full, m_scan, m_kept, m_found, m_complete,
                                     m_enough, m_state, m_patterns>>
  BY DEF M!Backfill
<1>2. m_pc' \in {"publish", "cover"} /\ m_todo' \in {m_todo, <<M!Legacy>>}
  BY DEF M!Backfill
<1>3. UNCHANGED <<m_budget, m_shopping, m_covered, m_legacy>>
      \/ \E days : days \subseteq M!NextDays /\ M!RunDays(days)
  BY DEF M!Backfill, M!source
<1>4. MatchTypes
  BY DEF MatchInv
<1>5. /\ m_shopping' \subseteq Details /\ UNCHANGED <<m_budget, m_covered>>
      /\ m_legacy' \in [snapshot : BOOLEAN, days : SUBSET (1..LegacyDays)]
  <2>1. CASE UNCHANGED <<m_budget, m_shopping, m_covered, m_legacy>>
    BY <1>4, <2>1 DEF MatchTypes
  <2>2. CASE \E days : days \subseteq M!NextDays /\ M!RunDays(days)
    BY <1>4, <2>2, RunDaysTypes
  <2>3. QED
    BY <1>3, <2>1, <2>2
<1>6. MatchTypes'
  <2>1. m_legacy'.days \subseteq 1..LegacyDays
    BY <1>5
  <2>2. QED
    BY <1>1, <1>2, <1>4, <1>5, <2>1 DEF MatchTypes, M!TypeOK
<1>7. MatchScan' /\ MatchRuns' /\ MatchRates'
  BY <1>1 DEF MatchInv, MatchScan, MatchRuns, MatchRates
<1>8. MatchYear' /\ MatchBudget' /\ MatchShopping'
  BY <1>2 DEF MatchYear, MatchBudget, MatchShopping
<1>9. ASSUME NEW y \in m_complete
      PROVE  M!DetailsOf(y)' = M!DetailsOf(y) /\ (M!Covered(y) => M!Covered(y)')
  <2>1. M!Covered(y) /\ y \in M!Years
    BY <1>1, <1>4, <1>9 DEF MatchInv, MatchComplete, MatchTypes, M!TypeOK
  <2>2. CASE UNCHANGED <<m_budget, m_shopping, m_covered, m_legacy>>
    BY <2>2, SameSource
  <2>3. ASSUME NEW days, days \subseteq M!NextDays, M!RunDays(days)
        PROVE  M!DetailsOf(y)' = M!DetailsOf(y) /\ M!Covered(y)'
    <3>1. /\ m_shopping' = m_shopping \cup days /\ UNCHANGED <<m_budget, m_covered>>
          /\ m_legacy'.days = m_legacy.days
          /\ m_legacy'.snapshot = m_legacy.snapshot \/ m_legacy'.snapshot = TRUE
      BY <1>4, <2>3, RunDaysTypes
    <3>2. CASE y = M!Legacy
      <4>1. M!NextDays = {} /\ m_legacy.snapshot
        BY <2>1, <3>2, NoDayIsLeft
      <4>2. m_shopping' = m_shopping /\ m_legacy'.snapshot
        BY <2>3, <3>1, <4>1
      <4>3. M!DetailsOf(y)' = M!DetailsOf(y)
        BY <4>2 DEF M!DetailsOf
      <4>4. M!Covered(y)'
        BY <2>1, <3>1, <3>2, <4>2 DEF M!Covered
      <4>5. QED
        BY <4>3, <4>4
    <3>3. CASE y = M!Current
      <4>1. \A d \in days : d.year # y
        BY <2>3, <3>3, LegacyIsNotCurrent DEF M!NextDays
      <4>2. M!DetailsOf(y)' = M!DetailsOf(y)
        BY <3>1, <4>1 DEF M!DetailsOf
      <4>3. M!Covered(y)'
        BY <2>1, <3>1, <3>3, LegacyIsNotCurrent DEF M!Covered
      <4>4. QED
        BY <4>2, <4>3
    <3>4. QED
      BY <2>1, <3>2, <3>3, LegacyIsNotCurrent
  <2>4. QED
    BY <1>3, <2>2, <2>3
<1>10. MatchComplete'
  <2>1. ASSUME NEW y \in m_complete'
        PROVE  (/\ M!Covered(y) /\ Len(M!BudgetOf(y)) < MaxRows /\ Len(M!KeysOf(y)) < MaxRows
                /\ m_runs[y].verified /\ m_runs[y].evidence = Matched(y))'
    <3>1. /\ M!Covered(y) /\ Len(M!BudgetOf(y)) < MaxRows /\ Len(M!KeysOf(y)) < MaxRows
          /\ m_runs[y].verified /\ m_runs[y].evidence = Matched(y) /\ y \in m_complete
      BY <1>1, <2>1 DEF MatchInv, MatchComplete
    <3>2. M!DetailsOf(y)' = M!DetailsOf(y) /\ M!Covered(y)'
      BY <1>9, <3>1
    <3>3. M!BudgetOf(y)' = M!BudgetOf(y)
      BY <1>5, SameRows
    <3>4. M!KeysOf(y)' = M!KeysOf(y)
      BY <3>2, SameDetails
    <3>5. Matched(y)' = Matched(y)
      BY <3>2, <3>3 DEF Matched
    <3>6. QED
      BY <1>1, <3>1, <3>2, <3>3, <3>4, <3>5
  <2>2. QED
    BY <2>1 DEF MatchComplete
<1>11. QED
  BY <1>6, <1>7, <1>8, <1>10 DEF MatchInv

-----------------------------------------------------------------------------
LEMMA DetailsFinite ==
  ASSUME MatchTypes, NEW y
  PROVE  M!DetailsOf(y) \subseteq Details /\ IsFiniteSet(M!DetailsOf(y))
<1>1. M!DetailsOf(y) \subseteq Details
  BY DEF MatchTypes, M!DetailsOf
<1>2. QED
  BY <1>1, MatchConstants, FS_Subset

LEMMA CompleteKeeps ==
  ASSUME MatchInv, m_pc # "idle", UNCHANGED <<m_budget, m_shopping, m_covered, m_legacy, m_runs, m_complete>>
  PROVE  MatchComplete'
<1>1. \A y : /\ M!BudgetOf(y)' = M!BudgetOf(y) /\ M!KeysOf(y)' = M!KeysOf(y)
             /\ M!Covered(y)' = M!Covered(y) /\ Matched(y)' = Matched(y)
  BY SameSource
<1>2. QED
  BY <1>1 DEF MatchInv, MatchComplete

LEMMA CoverKeeps == ASSUME MatchInv, M!Cover PROVE MatchInv'
<1>1. m_pc = "cover" /\ m_todo # <<>> /\ m_year' = Head(m_todo) /\ m_todo' = Tail(m_todo)
      /\ m_full' = M!Covered(Head(m_todo)) /\ m_scan' = M!Nothing /\ m_kept' = {} /\ m_found' = {}
      /\ m_pc' = "budget"
      /\ UNCHANGED <<m_budget, m_shopping, m_covered, m_legacy, m_runs, m_complete, m_result, m_enough,
                     m_state, m_patterns>>
  BY DEF M!Cover, M!source
<1>2. MatchTypes
  BY DEF MatchInv
<1>3. m_year' \in M!Years /\ m_todo' \in {<<>>, <<M!Legacy>>}
  <2>1. m_todo \in {<<M!Legacy>>, <<M!Current, M!Legacy>>}
    BY <1>1, <1>2 DEF MatchTypes
  <2>2. PICK l, c : l = M!Legacy /\ c = M!Current
    OBVIOUS
  <2>3. CASE m_todo = <<l>>
    <3>1. m_year' = l /\ m_todo' = <<>>
      BY <1>1, <2>3
    <3>2. QED
      BY <2>2, <3>1, LegacyIsNotCurrent
  <2>4. CASE m_todo = <<c, l>>
    <3>1. m_year' = c /\ m_todo' = <<l>>
      BY <1>1, <2>4
    <3>2. QED
      BY <2>2, <3>1, LegacyIsNotCurrent
  <2>5. QED
    BY <2>1, <2>2, <2>3, <2>4
<1>4. m_full' = M!Covered(m_year') /\ m_full' \in BOOLEAN
  BY <1>1, <1>2, CoveredIsBoolean
<1>5. \A y : M!Covered(y)' = M!Covered(y) /\ M!BudgetOf(y)' = M!BudgetOf(y)
  BY <1>1, SameSource
<1>6. m_scan' \in [offset : Nat, done : BOOLEAN, budget : BOOLEAN] /\ m_scan'.offset = 0 /\ ~m_scan'.done
  BY <1>1 DEF M!Nothing
<1>7. MaxRows \in Nat /\ Sample \in Nat
  BY RowTypes
<1>8. MatchTypes'
  <2>1. 0 \in 0..(MaxRows + Sample)
    BY <1>7
  <2>2. M!TypeOK'
    BY <1>1, <1>2, <1>3, <1>6, <2>1 DEF MatchTypes, M!TypeOK
  <2>3. QED
    BY <1>1, <1>2, <1>3, <1>4, <1>6, <2>2 DEF MatchTypes
<1>9. MatchScan'
  BY <1>1, <1>6, <1>7 DEF MatchScan
<1>10. MatchYear'
  <2>1. M!Covered(m_year)' = M!Covered(m_year')
    BY <1>1 DEF M!Covered
  <2>2. QED
    BY <1>1, <1>3, <1>4, <2>1 DEF MatchYear
<1>11. MatchBudget'
  <2>1. PICK B : B = M!BudgetOf(m_year)'
    OBVIOUS
  <2>2. m_budget' \subseteq BudgetRows
    BY <1>8 DEF MatchTypes
  <2>3. Len(B) \in Nat
    <3>1. B = M!BudgetOf(m_year')
      <4>1. UNCHANGED m_budget
        BY <1>1
      <4>2. M!BudgetOf(m_year)' = M!BudgetOf(m_year')
        <5>1. PICK R : R = M!RowsOf(m_year') /\ M!RowsOf(m_year)' = R
          BY <4>1 DEF M!RowsOf
        <5>2. M!BudgetOf(m_year)' = CHOOSE s \in [1..M!Cardinality(R) -> R] : \A i, j \in DOMAIN s : i < j => s[i].rank < s[j].rank
          BY <5>1 DEF M!BudgetOf
        <5>3. M!BudgetOf(m_year') = CHOOSE s \in [1..M!Cardinality(R) -> R] : \A i, j \in DOMAIN s : i < j => s[i].rank < s[j].rank
          BY <5>1 DEF M!BudgetOf
        <5>4. QED
          BY <5>2, <5>3
      <4>3. QED
        BY <2>1, <4>2
    <3>2. m_budget \subseteq BudgetRows
      BY <1>2 DEF MatchTypes
    <3>3. QED
      BY <3>1, <3>2, BudgetInOrder
  <2>4. Firsts(B, 0) = {}
    BY FirstsOfNone
  <2>5. Ended(Len(B))'
    BY <1>6, <2>3 DEF Ended
  <2>6. QED
    BY <1>1, <1>6, <2>1, <2>4, <2>5 DEF MatchBudget
<1>12. MatchShopping'
  BY <1>1 DEF MatchShopping
<1>13. MatchComplete'
  BY <1>1, CompleteKeeps
<1>14. MatchRuns' /\ MatchRates'
  BY <1>1 DEF MatchInv, MatchRuns, MatchRates
<1>15. QED
  BY <1>8, <1>9, <1>10, <1>11, <1>12, <1>13, <1>14 DEF MatchInv

(* What is read next: at most the limit of a full read, or the sample.     *)
LEMMA SizeIs ==
  ASSUME MatchInv, ~M!Over
  PROVE  /\ M!Size \in Nat \ {0} /\ ~m_scan.done /\ m_scan.offset \in Nat /\ m_scan.offset < MaxRows
         /\ m_full => m_scan.offset + M!Size <= MaxRows
         /\ ~m_full => M!Size = Sample /\ m_scan.offset = 0
<1>1. ~m_scan.done /\ ~(m_scan.offset >= MaxRows)
  BY DEF M!Over
<1>2. m_scan.offset \in Nat /\ PageRows \in Nat \ {0} /\ MaxRows \in Nat /\ Sample \in Nat \ {0}
  BY RowTypes DEF MatchInv, MatchTypes
<1>3. CASE m_full
  <2>1. M!Size = M!Least(PageRows, MaxRows - m_scan.offset)
    BY <1>3 DEF M!Size
  <2>2. CASE PageRows < MaxRows - m_scan.offset
    <3>1. M!Size = PageRows
      BY <2>1, <2>2 DEF M!Least
    <3>2. QED
      BY <1>1, <1>2, <1>3, <2>2, <3>1
  <2>3. CASE ~(PageRows < MaxRows - m_scan.offset)
    <3>1. M!Size = MaxRows - m_scan.offset
      BY <2>1, <2>3 DEF M!Least
    <3>2. QED
      BY <1>1, <1>2, <1>3, <2>3, <3>1
  <2>4. QED
    BY <2>2, <2>3
<1>4. CASE ~m_full
  <2>1. M!Size = Sample
    BY <1>4 DEF M!Size
  <2>2. ~(m_scan.offset > 0)
    BY <1>1, <1>4 DEF MatchInv, MatchScan
  <2>3. m_scan.offset = 0 /\ m_scan.offset < MaxRows
    BY <1>1, <1>2, <2>2
  <2>4. QED
    BY <1>1, <1>2, <1>4, <2>1, <2>3
<1>5. QED
  BY <1>3, <1>4

(* A page of a list: where the scan is after it.                           *)
LEMMA ReadIs ==
  ASSUME MatchInv, ~M!Over, NEW X, NEW s \in Seq(X), m_full => Ended(Len(s)),
         NEW page, page = M!Chunk(s, m_scan.offset, M!Size), NEW used,
         M!Read(page, used)
  PROVE  /\ m_scan.offset <= Len(s)
         /\ Len(page) \in Nat /\ m_scan'.offset = m_scan.offset + Len(page)
         /\ DOMAIN page = 1..Len(page)
         /\ \A i \in 1..Len(page) : page[i] = s[m_scan.offset + i] /\ page[i] \in X
         /\ m_scan' \in [offset : Nat, done : BOOLEAN, budget : BOOLEAN] /\ m_scan'.budget = m_scan.budget
         /\ m_scan'.offset <= MaxRows \/ m_scan'.offset <= Sample
         /\ m_full => m_scan'.offset <= MaxRows /\ Ended(Len(s))'
         /\ ~m_full => m_scan'.offset <= Sample /\ m_scan'.done
         /\ UNCHANGED <<m_budget, m_shopping, m_covered, m_legacy, m_runs, m_pc, m_todo, m_year, m_full,
                        m_complete, m_result, m_enough, m_state, m_patterns>>
<1>1. /\ M!Size \in Nat \ {0} /\ ~m_scan.done /\ m_scan.offset \in Nat /\ m_scan.offset < MaxRows
      /\ m_full => m_scan.offset + M!Size <= MaxRows
      /\ ~m_full => M!Size = Sample /\ m_scan.offset = 0
  BY SizeIs
<1>2. PICK n \in Nat : n = Len(s)
  BY LenProperties
<1>3. m_scan.offset <= n
  BY <1>1, <1>2 DEF Ended
<1>4. PICK z \in Nat : z = M!Size
  BY <1>1
<1>5. PICK o \in Nat : o = m_scan.offset
  BY <1>1
<1>6. /\ Len(page) \in Nat /\ Len(page) <= z /\ o + Len(page) <= n
      /\ Len(page) < z => o + Len(page) = n
      /\ DOMAIN page = 1..Len(page) /\ \A i \in 1..Len(page) : page[i] = s[o + i] /\ page[i] \in X
  BY <1>2, <1>3, <1>4, <1>5, ChunkIs
<1>7. m_scan' = [m_scan EXCEPT !.offset = m_scan.offset + Len(page),
                               !.done = ~m_full \/ Len(page) < M!Size]
  BY DEF M!Read, M!IsLast
<1>8. m_scan \in [offset : Nat, done : BOOLEAN, budget : BOOLEAN] /\ MaxRows \in Nat /\ Sample \in Nat
  BY RowTypes DEF MatchInv, MatchTypes
<1>9. PICK done \in BOOLEAN : done = (~m_full \/ Len(page) < M!Size)
  OBVIOUS
<1>10. PICK k \in Nat : k = Len(page)
  BY <1>6
<1>11. m_scan' = [m_scan EXCEPT !.offset = o + k, !.done = done]
  BY <1>5, <1>7, <1>9, <1>10
<1>12. /\ m_scan' \in [offset : Nat, done : BOOLEAN, budget : BOOLEAN]
       /\ m_scan'.offset = o + k /\ m_scan'.done = done /\ m_scan'.budget = m_scan.budget
  <2>1. o + k \in Nat
    OBVIOUS
  <2>2. QED
    BY <1>8, <1>11, <2>1
<1>13. UNCHANGED <<m_budget, m_shopping, m_covered, m_legacy, m_runs, m_pc, m_todo, m_year, m_full,
                   m_complete, m_result, m_enough, m_state, m_patterns>>
  BY DEF M!Read, M!source
<1>14. m_full => o + k <= MaxRows /\ o + k <= n /\ (done => o + k = n /\ n < MaxRows)
  <2>1. k <= z /\ o + k <= n /\ (k < z => o + k = n)
    BY <1>6, <1>10
  <2>2. m_full => o + z <= MaxRows
    BY <1>1, <1>4, <1>5
  <2>3. m_full /\ done => k < z
    BY <1>4, <1>9, <1>10
  <2>4. QED
    BY <1>8, <2>1, <2>2, <2>3
<1>15. ~m_full => o + k <= Sample /\ done
  <2>1. ~m_full => z = Sample /\ o = 0
    BY <1>1, <1>4, <1>5
  <2>2. k <= z
    BY <1>6, <1>10
  <2>3. ASSUME ~m_full PROVE o + k <= Sample
    BY <1>8, <2>1, <2>2, <2>3
  <2>4. ASSUME ~m_full PROVE done
    BY <1>9, <2>4
  <2>5. QED
    BY <2>3, <2>4
<1>16. m_full => Ended(Len(s))'
  BY <1>2, <1>12, <1>14 DEF Ended
<1>17. QED
  BY <1>2, <1>3, <1>5, <1>6, <1>10, <1>12, <1>13, <1>14, <1>15, <1>16

-----------------------------------------------------------------------------
LEMMA ReadKeepsTypes ==
  ASSUME MatchTypes,
         UNCHANGED <<m_budget, m_shopping, m_covered, m_legacy, m_runs, m_pc, m_todo, m_year, m_full,
                     m_complete, m_result, m_enough, m_state, m_patterns>>,
         m_scan' \in [offset : Nat, done : BOOLEAN, budget : BOOLEAN],
         m_scan'.offset <= MaxRows \/ m_scan'.offset <= Sample
  PROVE  MatchTypes'
<1>1. m_scan'.offset \in 0..(MaxRows + Sample)
  <2>1. m_scan'.offset \in Nat
    OBVIOUS
  <2>2. MaxRows \in Nat /\ Sample \in Nat
    BY RowTypes
  <2>3. PICK o \in Nat : o = m_scan'.offset
    BY <2>1
  <2>4. o <= MaxRows \/ o <= Sample
    BY <2>3
  <2>5. o \in 0..(MaxRows + Sample)
    BY <2>2, <2>4
  <2>6. QED
    BY <2>3, <2>5
<1>2. QED
  BY <1>1 DEF MatchTypes, M!TypeOK

LEMMA ReadBudgetKeeps == ASSUME MatchInv, M!ReadBudget PROVE MatchInv'
<1>1. m_pc = "budget" /\ ~M!Over /\ m_found' = m_found
  BY DEF M!ReadBudget
<1>2. PICK page, used :
        /\ page = M!Chunk(M!BudgetOf(m_year), m_scan.offset, M!Size)
        /\ m_kept' = m_kept \cup M!FirstOf(page, m_kept)
        /\ M!Read(page, used)
  BY DEF M!ReadBudget
<1>3. MatchTypes /\ m_budget \subseteq BudgetRows
  BY DEF MatchInv, MatchTypes
<1>4. PICK s, X : s = M!BudgetOf(m_year) /\ X = M!RowsOf(m_year)
  OBVIOUS
<1>5. s \in Seq(X) /\ DOMAIN s = 1..Len(s) /\ X \subseteq BudgetRows
  <2>1. X \subseteq BudgetRows
    BY <1>3, <1>4 DEF M!RowsOf
  <2>2. QED
    BY <1>3, <1>4, <2>1, BudgetInOrder
<1>6. m_full => Ended(Len(s)) /\ m_kept = Firsts(s, m_scan.offset)
  BY <1>1, <1>4 DEF MatchInv, MatchBudget
<1>7. /\ Len(page) \in Nat /\ m_scan'.offset = m_scan.offset + Len(page)
      /\ DOMAIN page = 1..Len(page)
      /\ \A i \in 1..Len(page) : page[i] = s[m_scan.offset + i] /\ page[i] \in X
      /\ m_scan' \in [offset : Nat, done : BOOLEAN, budget : BOOLEAN]
      /\ m_scan'.offset <= MaxRows \/ m_scan'.offset <= Sample
      /\ m_full => m_scan'.offset <= MaxRows /\ Ended(Len(s))'
      /\ ~m_full => m_scan'.offset <= Sample /\ m_scan'.done
      /\ UNCHANGED <<m_budget, m_shopping, m_covered, m_legacy, m_runs, m_pc, m_todo, m_year, m_full,
                     m_complete, m_result, m_enough, m_state, m_patterns>>
  BY <1>1, <1>2, <1>4, <1>5, <1>6, ReadIs
<1>8. MatchTypes'
  BY <1>3, <1>7, ReadKeepsTypes
<1>9. m_kept' \subseteq BudgetRows /\ \A a, b \in m_kept' : a.project = b.project => a = b
  <2>1. m_kept \subseteq BudgetRows /\ \A a, b \in m_kept : a.project = b.project => a = b
    BY DEF MatchInv, MatchScan
  <2>2. \A i \in 1..Len(page) : page[i] \in BudgetRows
    BY <1>5, <1>7
  <2>3. QED
    BY <1>2, <1>7, <2>1, <2>2, FirstOfFits
<1>10. MatchScan'
  BY <1>7, <1>9 DEF MatchScan
<1>11. \A y : /\ M!BudgetOf(y)' = M!BudgetOf(y) /\ M!DetailsOf(y)' = M!DetailsOf(y)
              /\ M!Covered(y)' = M!Covered(y)
  BY <1>7, SameSource
<1>12. MatchYear'
  BY <1>1, <1>7, <1>11 DEF MatchInv, MatchYear
<1>13. m_full => m_kept' = Firsts(s, m_scan'.offset)
  <2>1. PICK o \in Nat : o = m_scan.offset
    BY <1>3 DEF MatchTypes
  <2>2. PICK k \in Nat : k = Len(page)
    BY <1>7
  <2>3. DOMAIN page = 1..k /\ \A i \in 1..k : page[i] = s[o + i]
    BY <1>7, <2>1, <2>2
  <2>4. Firsts(s, o) \cup M!FirstOf(page, Firsts(s, o)) = Firsts(s, o + k)
    BY <2>3, FirstsGrow
  <2>5. QED
    BY <1>2, <1>6, <1>7, <2>1, <2>2, <2>4
<1>14. MatchBudget'
  <2>1. M!BudgetOf(m_year)' = s
    BY <1>4, <1>7, <1>11
  <2>2. m_found' = {}
    BY <1>1 DEF MatchInv, MatchBudget
  <2>3. m_full' = m_full
    BY <1>7
  <2>4. QED
    BY <1>7, <1>13, <2>1, <2>2, <2>3 DEF MatchBudget, Ended
<1>15. MatchShopping'
  BY <1>1, <1>7 DEF MatchShopping
<1>16. MatchComplete'
  BY <1>1, <1>7, CompleteKeeps
<1>17. MatchRuns' /\ MatchRates'
  BY <1>7 DEF MatchInv, MatchRuns, MatchRates
<1>18. QED
  BY <1>8, <1>10, <1>12, <1>14, <1>15, <1>16, <1>17 DEF MatchInv

(* No requests of no keys.                                                 *)
LEMMA NothingAsked ==
  ASSUME NEW ds, IsFiniteSet(ds), ds \subseteq Details
  PROVE  Asked(ds, {}) = {}
<1>1. Asked(ds, {}) = {r \in M!Requests(ds) : r.request \in {}}
  BY RequestsOfSome DEF Asked
<1>2. QED
  BY <1>1

LEMMA TurnToShoppingKeeps == ASSUME MatchInv, M!TurnToShopping PROVE MatchInv'
<1>1. m_pc = "budget" /\ M!Over /\ m_pc' = "shopping" /\ m_scan' = [M!Nothing EXCEPT !.budget = m_scan.done]
      /\ UNCHANGED <<m_budget, m_shopping, m_covered, m_legacy, m_runs, m_todo, m_year, m_full, m_kept, m_found,
                     m_complete, m_result, m_enough, m_state, m_patterns>>
  BY DEF M!TurnToShopping, M!source
<1>2. MatchTypes /\ m_budget \subseteq BudgetRows /\ m_shopping \subseteq Details
      /\ m_scan \in [offset : Nat, done : BOOLEAN, budget : BOOLEAN]
  BY DEF MatchInv, MatchTypes
<1>3. /\ m_scan' \in [offset : Nat, done : BOOLEAN, budget : BOOLEAN]
      /\ m_scan'.offset = 0 /\ m_scan'.done = FALSE /\ m_scan'.budget = m_scan.done
  BY <1>1, <1>2 DEF M!Nothing
<1>4. MaxRows \in Nat /\ Sample \in Nat
  BY RowTypes
<1>5. MatchTypes'
  <2>1. 0 \in 0..(MaxRows + Sample)
    BY <1>4
  <2>2. QED
    BY <1>1, <1>2, <1>3, <2>1 DEF MatchTypes, M!TypeOK
<1>6. MatchScan'
  BY <1>1, <1>3, <1>4 DEF MatchInv, MatchScan
<1>7. \A y : /\ M!BudgetOf(y)' = M!BudgetOf(y) /\ M!DetailsOf(y)' = M!DetailsOf(y)
             /\ M!KeysOf(y)' = M!KeysOf(y) /\ M!Covered(y)' = M!Covered(y)
  BY <1>1, SameSource
<1>8. MatchYear' /\ MatchBudget'
  BY <1>1, <1>7 DEF MatchInv, MatchYear, MatchBudget
<1>9. PICK B, K, ds : B = M!BudgetOf(m_year) /\ K = M!KeysOf(m_year) /\ ds = M!DetailsOf(m_year)
  OBVIOUS
<1>10. M!BudgetOf(m_year)' = B /\ M!KeysOf(m_year)' = K /\ M!DetailsOf(m_year)' = ds
  BY <1>1, <1>7, <1>9
<1>11. MatchShopping'
  <2>1. SUFFICES ASSUME m_full
        PROVE  /\ Ended(Len(K))' /\ m_found' = Asked(ds, Seen(K, m_scan'.offset))
               /\ m_scan'.budget <=> Len(B) < MaxRows
               /\ m_scan'.budget => m_kept' = Firsts(B, Len(B))
    BY <1>1, <1>10 DEF MatchShopping, Ended
  <2>2. Len(K) \in Nat /\ Len(B) \in Nat
    BY <1>2, <1>9, BudgetInOrder, KeysInOrder
  <2>3. Ended(Len(B)) /\ m_kept = Firsts(B, m_scan.offset) /\ m_found = {}
    BY <1>1, <1>9, <2>1 DEF MatchInv, MatchBudget
  <2>4. Ended(Len(K))'
    BY <1>3, <2>2 DEF Ended
  <2>5. m_found' = Asked(ds, Seen(K, m_scan'.offset))
    <3>1. Seen(K, 0) = {}
      BY FirstsOfNone
    <3>2. Asked(ds, {}) = {}
      BY <1>2, <1>9, DetailsFinite, NothingAsked
    <3>3. QED
      BY <1>1, <1>3, <2>3, <3>1, <3>2
  <2>6. m_scan.done <=> Len(B) < MaxRows
    <3>1. m_scan.done => Len(B) < MaxRows
      BY <2>3 DEF Ended
    <3>2. ~m_scan.done => m_scan.offset >= MaxRows /\ m_scan.offset <= Len(B)
      BY <1>1, <2>3 DEF M!Over, Ended
    <3>3. m_scan.offset \in Nat
      BY <1>2
    <3>4. QED
      BY <1>4, <2>2, <3>1, <3>2, <3>3
  <2>7. m_scan.done => m_kept = Firsts(B, Len(B))
    BY <2>3 DEF Ended
  <2>8. m_scan'.budget = m_scan.done /\ m_kept' = m_kept
    BY <1>1, <1>3
  <2>9. QED
    BY <2>4, <2>5, <2>6, <2>7, <2>8
<1>12. MatchComplete'
  BY <1>1, CompleteKeeps
<1>13. MatchRuns' /\ MatchRates'
  BY <1>1 DEF MatchInv, MatchRuns, MatchRates
<1>14. QED
  BY <1>5, <1>6, <1>8, <1>11, <1>12, <1>13 DEF MatchInv

LEMMA ReadShoppingKeeps == ASSUME MatchInv, M!ReadShopping PROVE MatchInv'
<1>1. m_pc = "shopping" /\ ~M!Over /\ m_kept' = m_kept
  BY DEF M!ReadShopping
<1>2. PICK page :
        /\ page = M!Chunk(M!KeysOf(m_year), m_scan.offset, M!Size)
        /\ m_found' = m_found \cup M!Requests({d \in M!DetailsOf(m_year) : d.request \in M!ToSet(page)})
        /\ M!Read(page, Len(page))
  BY DEF M!ReadShopping
<1>3. MatchTypes /\ m_shopping \subseteq Details
  BY DEF MatchInv, MatchTypes
<1>4. PICK s, X, ds : s = M!KeysOf(m_year) /\ X = M!RequestsOf(m_year) /\ ds = M!DetailsOf(m_year)
  OBVIOUS
<1>5. s \in Seq(X) /\ DOMAIN s = 1..Len(s) /\ ds \subseteq Details /\ IsFiniteSet(ds)
  BY <1>3, <1>4, KeysInOrder, DetailsFinite
<1>6. m_full => Ended(Len(s)) /\ m_found = Asked(ds, Seen(s, m_scan.offset))
  BY <1>1, <1>4 DEF MatchInv, MatchShopping
<1>7. /\ Len(page) \in Nat /\ m_scan'.offset = m_scan.offset + Len(page)
      /\ DOMAIN page = 1..Len(page)
      /\ \A i \in 1..Len(page) : page[i] = s[m_scan.offset + i] /\ page[i] \in X
      /\ m_scan' \in [offset : Nat, done : BOOLEAN, budget : BOOLEAN] /\ m_scan'.budget = m_scan.budget
      /\ m_scan'.offset <= MaxRows \/ m_scan'.offset <= Sample
      /\ m_full => m_scan'.offset <= MaxRows /\ Ended(Len(s))'
      /\ ~m_full => m_scan'.offset <= Sample /\ m_scan'.done
      /\ UNCHANGED <<m_budget, m_shopping, m_covered, m_legacy, m_runs, m_pc, m_todo, m_year, m_full,
                     m_complete, m_result, m_enough, m_state, m_patterns>>
  BY <1>1, <1>2, <1>4, <1>5, <1>6, ReadIs
<1>8. MatchTypes'
  BY <1>3, <1>7, ReadKeepsTypes
<1>9. MatchScan'
  BY <1>1, <1>7 DEF MatchInv, MatchScan
<1>10. \A y : /\ M!BudgetOf(y)' = M!BudgetOf(y) /\ M!DetailsOf(y)' = M!DetailsOf(y)
              /\ M!KeysOf(y)' = M!KeysOf(y) /\ M!Covered(y)' = M!Covered(y)
  BY <1>7, SameSource
<1>11. PICK new : new = M!Requests({d \in ds : d.request \in M!ToSet(page)})
  OBVIOUS
<1>12. m_found' = m_found \cup new
  BY <1>2, <1>4, <1>11
<1>13. new = {r \in M!Requests(ds) : r.request \in M!ToSet(page)}
  BY <1>5, <1>11, RequestsOfSome
<1>14. MatchYear'
  <2>1. m_found \subseteq M!Requests(ds) /\ m_year \in M!Years /\ m_full = M!Covered(m_year)
    BY <1>1, <1>4 DEF MatchInv, MatchYear
  <2>2. m_found' \subseteq M!Requests(ds)
    BY <1>12, <1>13, <2>1
  <2>3. M!DetailsOf(m_year)' = ds /\ M!Covered(m_year)' = M!Covered(m_year) /\ m_year' = m_year /\ m_full' = m_full
    BY <1>4, <1>7, <1>10
  <2>4. QED
    BY <2>1, <2>2, <2>3 DEF MatchYear
<1>15. MatchBudget'
  BY <1>1, <1>7 DEF MatchBudget
<1>16. ASSUME m_full PROVE m_found' = Asked(ds, Seen(s, m_scan'.offset))
  <2>1. PICK o \in Nat : o = m_scan.offset
    BY <1>3 DEF MatchTypes
  <2>2. PICK k \in Nat : k = Len(page)
    BY <1>7
  <2>3. DOMAIN page = 1..k /\ \A i \in 1..k : page[i] = s[o + i]
    BY <1>7, <2>1, <2>2
  <2>4. Seen(s, o) \cup M!ToSet(page) = Seen(s, o + k)
    <3>1. M!ToSet(page) = Seen(page, k)
      BY <2>3 DEF M!ToSet, Seen
    <3>2. \A x : x \in Seen(s, o + k) <=> x \in Seen(s, o) \/ x \in Seen(page, k)
      BY <2>3, SeenGrows
    <3>3. QED
      BY <3>1, <3>2
  <2>5. m_found = {r \in M!Requests(ds) : r.request \in Seen(s, o)}
    BY <1>5, <1>6, <1>16, <2>1, RequestsOfSome DEF Asked
  <2>6. Asked(ds, Seen(s, o + k)) = {r \in M!Requests(ds) : r.request \in Seen(s, o + k)}
    BY <1>5, RequestsOfSome DEF Asked
  <2>7. m_found' = {r \in M!Requests(ds) : r.request \in Seen(s, o + k)}
    BY <1>12, <1>13, <2>4, <2>5
  <2>8. m_scan'.offset = o + k
    BY <1>7, <2>1, <2>2
  <2>9. QED
    BY <2>6, <2>7, <2>8
<1>17. MatchShopping'
  <2>1. PICK B : B = M!BudgetOf(m_year)
    OBVIOUS
  <2>2. M!BudgetOf(m_year)' = B /\ M!KeysOf(m_year)' = s /\ M!DetailsOf(m_year)' = ds /\ m_full' = m_full
        /\ m_scan'.budget = m_scan.budget
    BY <1>4, <1>7, <1>10, <2>1
  <2>3. SUFFICES ASSUME m_full
        PROVE  /\ Ended(Len(s))' /\ m_found' = Asked(ds, Seen(s, m_scan'.offset))
               /\ m_scan'.budget <=> Len(B) < MaxRows
               /\ m_scan'.budget => m_kept' = Firsts(B, Len(B))
    BY <2>2 DEF MatchShopping, Ended
  <2>4. (m_scan.budget <=> Len(B) < MaxRows) /\ (m_scan.budget => m_kept = Firsts(B, Len(B)))
    BY <1>1, <2>1, <2>3 DEF MatchInv, MatchShopping
  <2>5. Ended(Len(s))'
    BY <1>7, <2>3
  <2>6. m_found' = Asked(ds, Seen(s, m_scan'.offset))
    BY <1>16, <2>3
  <2>7. m_scan'.budget = m_scan.budget /\ m_kept' = m_kept
    BY <1>1, <2>2
  <2>8. QED
    BY <2>4, <2>5, <2>6, <2>7
<1>18. MatchComplete'
  BY <1>1, <1>7, CompleteKeeps
<1>19. MatchRuns' /\ MatchRates'
  BY <1>7 DEF MatchInv, MatchRuns, MatchRates
<1>20. QED
  BY <1>8, <1>9, <1>14, <1>15, <1>17, <1>18, <1>19 DEF MatchInv

-----------------------------------------------------------------------------
LEMMA SidesAre == ASSUME MatchInv, m_pc = "shopping" PROVE Sides(m_kept, m_found)
<1>1. PICK ds : ds = M!DetailsOf(m_year)
  OBVIOUS
<1>2. ds \subseteq Details /\ IsFiniteSet(ds) /\ m_found \subseteq M!Requests(ds)
  BY <1>1, DetailsFinite DEF MatchInv, MatchYear
<1>3. IsFiniteSet(m_found)
  BY <1>2, RequestsFinite, FS_Subset
<1>4. \A r \in m_found : Pairable(r) /\ \A q \in m_found : r.request = q.request => r = q
  BY <1>2, RequestsAre DEF Pairable
<1>5. QED
  BY <1>3, <1>4 DEF MatchInv, MatchScan, Sides

(* A population is what a whole read of the year gives.                    *)
LEMMA PopulationIsWhole ==
  ASSUME MatchInv, m_pc = "shopping", m_full, m_scan.budget, m_scan.done
  PROVE  /\ M!Covered(m_year) /\ Len(M!BudgetOf(m_year)) < MaxRows /\ Len(M!KeysOf(m_year)) < MaxRows
         /\ m_kept = M!FirstOf(M!BudgetOf(m_year), {}) /\ m_found = M!Requests(M!DetailsOf(m_year))
         /\ {b.project : b \in m_kept} = {b.project : b \in {b \in M!RowsOf(m_year) : M!Target(b)}}
<1>1. m_budget \subseteq BudgetRows /\ m_shopping \subseteq Details /\ MatchTypes
  BY DEF MatchInv, MatchTypes
<1>2. PICK B, K, ds, R : /\ B = M!BudgetOf(m_year) /\ K = M!KeysOf(m_year) /\ ds = M!DetailsOf(m_year)
                         /\ R = M!RowsOf(m_year)
  OBVIOUS
<1>3. PICK n \in Nat : n = Len(B)
  BY <1>1, <1>2, BudgetInOrder
<1>4. PICK k \in Nat : k = Len(K)
  BY <1>1, <1>2, KeysInOrder
<1>5. DOMAIN B = 1..n /\ (\A i \in 1..n : B[i] \in R) /\ \A b \in R : \E i \in 1..n : B[i] = b
  BY <1>1, <1>2, <1>3, BudgetInOrder
<1>6. \A q \in M!RequestsOf(m_year) : \E i \in 1..k : K[i] = q
  BY <1>1, <1>2, <1>4, KeysInOrder
<1>7. /\ Ended(k) /\ m_found = Asked(ds, Seen(K, m_scan.offset))
      /\ n < MaxRows /\ m_kept = Firsts(B, n)
  BY <1>2, <1>3, <1>4 DEF MatchInv, MatchShopping
<1>8. m_scan.offset = k /\ k < MaxRows
  BY <1>7 DEF Ended
<1>9. m_full = M!Covered(m_year)
  BY DEF MatchInv, MatchYear
<1>10. /\ m_kept = M!FirstOf(B, {})
       /\ {b.project : b \in m_kept} = {b.project : b \in {b \in {B[i] : i \in 1..n} : M!Target(b)}}
  BY <1>5, <1>7, FirstsOfAll
<1>11. {B[i] : i \in 1..n} = R
  BY <1>5
<1>12. m_found = M!Requests(ds)
  <2>1. ds \subseteq Details /\ IsFiniteSet(ds)
    BY <1>1, <1>2, DetailsFinite
  <2>2. m_found = {r \in M!Requests(ds) : r.request \in Seen(K, k)}
    BY <1>7, <1>8, <2>1, RequestsOfSome DEF Asked
  <2>3. ASSUME NEW r \in M!Requests(ds) PROVE r.request \in Seen(K, k)
    <3>1. r.request \in {d.request : d \in ds}
      BY <2>1, RequestsAre
    <3>2. r.request \in M!RequestsOf(m_year)
      BY <1>2, <3>1 DEF M!RequestsOf
    <3>3. PICK i \in 1..k : K[i] = r.request
      BY <1>6, <3>2
    <3>4. QED
      BY <3>3 DEF Seen
  <2>4. QED
    BY <2>2, <2>3
<1>13. QED
  BY <1>2, <1>3, <1>4, <1>7, <1>8, <1>9, <1>10, <1>11, <1>12

(* What a save stores is sound.                                            *)
LEMMA SavedIsSound ==
  ASSUME Sides(m_kept, m_found), NEW pop \in BOOLEAN, NEW run, run = M!NewRun(pop)
  PROVE  SoundRun(run) /\ run.verified = pop
<1>1. /\ run.verified = pop /\ IsFiniteSet(run.projects)
      /\ \A e, f \in run.evidence : e.request = f.request => e = f
      /\ \A e \in run.evidence : Cardinality(FactsOf(run.evidence, e.project)) <= PerProject
      /\ pop => \A e \in run.evidence : \E p \in run.projects : p.project = e.project /\ p.best >= e.score
  BY NewRunIs
<1>2. QED
  BY <1>1 DEF SoundRun

LEMMA SaveKeeps == ASSUME MatchInv, M!Save PROVE MatchInv'
<1>1. PICK pop : pop = (m_full /\ m_scan.budget /\ m_scan.done)
  OBVIOUS
<1>2. /\ m_pc = "shopping" /\ M!Over
      /\ m_runs' = IF M!Replaces(m_runs[m_year], pop)
                     THEN [m_runs EXCEPT ![m_year] = M!NewRun(pop)] ELSE m_runs
      /\ m_complete' = IF pop THEN m_complete \cup {m_year} ELSE m_complete
      /\ m_pc' \in {"cover", "legacy", "publish"}
      /\ UNCHANGED <<m_budget, m_shopping, m_covered, m_legacy, m_todo, m_year, m_full, m_scan, m_kept,
                     m_found, m_result, m_state, m_patterns>>
  BY <1>1 DEF M!Save, M!source
<1>3. MatchTypes /\ m_year \in M!Years
  BY <1>2 DEF MatchInv, MatchYear
<1>4. pop \in BOOLEAN
  BY <1>1, <1>3 DEF MatchTypes
<1>5. PICK run : run = M!NewRun(pop)
  OBVIOUS
<1>6. SoundRun(run) /\ run.verified = pop
  BY <1>2, <1>4, <1>5, SidesAre, SavedIsSound
<1>7. m_runs = [y \in M!Years |-> m_runs[y]] /\ \A y \in M!Years : m_runs[y].verified \in BOOLEAN
  BY <1>3 DEF MatchTypes
<1>8. /\ m_runs' = [y \in M!Years |-> m_runs'[y]]
      /\ \A y \in M!Years : y # m_year => m_runs'[y] = m_runs[y]
      /\ m_runs'[m_year] = run \/ (~pop /\ m_runs'[m_year] = m_runs[m_year])
      /\ pop => m_runs'[m_year] = run
  <2>1. CASE M!Replaces(m_runs[m_year], pop)
    <3>1. m_runs' = [m_runs EXCEPT ![m_year] = run]
      BY <1>2, <1>5, <2>1
    <3>2. m_runs' = [y \in M!Years |-> m_runs'[y]] /\ m_runs'[m_year] = run
          /\ \A y \in M!Years : y # m_year => m_runs'[y] = m_runs[y]
      BY <1>3, <1>7, <3>1
    <3>3. QED
      BY <3>2
  <2>2. CASE ~M!Replaces(m_runs[m_year], pop)
    <3>1. m_runs' = m_runs
      BY <1>2, <2>2
    <3>2. ~pop
      BY <2>2 DEF M!Replaces
    <3>3. QED
      BY <1>7, <3>1, <3>2
  <2>3. QED
    BY <2>1, <2>2
<1>9. \A y \in M!Years : y = m_year \/ m_runs'[y] = m_runs[y]
  BY <1>8
<1>10. MatchRuns'
  <2>1. \A y \in M!Years : SoundRun(m_runs[y])
    BY DEF MatchInv, MatchRuns
  <2>2. \A y \in M!Years : SoundRun(m_runs'[y])
    BY <1>3, <1>6, <1>8, <2>1
  <2>3. QED
    BY <2>2 DEF MatchRuns, SoundRun
<1>11. MatchTypes'
  <2>1. \A y \in M!Years : m_runs'[y].verified \in BOOLEAN
    BY <1>3, <1>4, <1>6, <1>7, <1>8
  <2>2. m_complete' \subseteq M!Years
    BY <1>2, <1>3 DEF MatchTypes, M!TypeOK
  <2>3. M!TypeOK'
    BY <1>2, <1>3, <2>2 DEF MatchTypes, M!TypeOK
  <2>4. QED
    BY <1>2, <1>3, <1>8, <2>1, <2>3 DEF MatchTypes
<1>12. MatchScan' /\ MatchRates'
  BY <1>2 DEF MatchInv, MatchScan, MatchRates
<1>13. MatchYear' /\ MatchBudget' /\ MatchShopping'
  BY <1>2 DEF MatchYear, MatchBudget, MatchShopping
<1>14. \A y : /\ M!BudgetOf(y)' = M!BudgetOf(y) /\ M!KeysOf(y)' = M!KeysOf(y)
              /\ M!Covered(y)' = M!Covered(y) /\ Matched(y)' = Matched(y)
  BY <1>2, SameSource
<1>15. ASSUME NEW y \in m_complete'
       PROVE  /\ M!Covered(y) /\ Len(M!BudgetOf(y)) < MaxRows /\ Len(M!KeysOf(y)) < MaxRows
              /\ m_runs'[y].verified /\ m_runs'[y].evidence = Matched(y)
  <2>1. CASE pop /\ y = m_year
    <3>1. /\ M!Covered(y) /\ Len(M!BudgetOf(y)) < MaxRows /\ Len(M!KeysOf(y)) < MaxRows
          /\ m_kept = M!FirstOf(M!BudgetOf(y), {}) /\ m_found = M!Requests(M!DetailsOf(y))
      BY <1>1, <1>2, <2>1, PopulationIsWhole
    <3>2. run.evidence = M!Evidence(M!Assigned(m_kept, m_found))
      BY <1>2, <1>4, <1>5, SidesAre, NewRunIs
    <3>3. run.evidence = Matched(y)
      BY <3>1, <3>2 DEF Matched
    <3>4. QED
      BY <1>6, <1>8, <2>1, <3>1, <3>3
  <2>2. ASSUME y \in m_complete
        PROVE  /\ M!Covered(y) /\ Len(M!BudgetOf(y)) < MaxRows /\ Len(M!KeysOf(y)) < MaxRows
               /\ m_runs[y].verified /\ m_runs[y].evidence = Matched(y) /\ y \in M!Years
    BY <1>2, <1>3, <2>2 DEF MatchInv, MatchComplete, MatchTypes, M!TypeOK
  <2>3. CASE y \in m_complete /\ y # m_year
    BY <1>8, <2>2, <2>3
  <2>4. CASE y \in m_complete /\ y = m_year /\ ~pop
    <3>1. PICK n \in Nat, k \in Nat : n = Len(M!BudgetOf(y)) /\ k = Len(M!KeysOf(y))
      BY <1>3, BudgetInOrder, KeysInOrder DEF MatchTypes
    <3>2. n < MaxRows /\ k < MaxRows /\ M!Covered(y)
      BY <2>2, <2>4, <3>1
    <3>3. m_full
      BY <1>2, <2>4, <3>2 DEF MatchInv, MatchYear
    <3>4. m_scan.budget /\ Ended(k)
      BY <1>2, <2>4, <3>1, <3>2, <3>3 DEF MatchInv, MatchShopping
    <3>5. m_scan.done
      <4>1. m_scan.offset <= k /\ m_scan.offset \in Nat /\ MaxRows \in Nat
        BY <1>3, <3>4, RowTypes DEF Ended, MatchTypes
      <4>2. ~(m_scan.offset >= MaxRows)
        BY <3>2, <4>1
      <4>3. QED
        BY <1>2, <4>2 DEF M!Over
    <3>6. QED
      BY <1>1, <2>4, <3>3, <3>4, <3>5
  <2>5. QED
    BY <1>2, <1>4, <2>1, <2>3, <2>4
<1>16. MatchComplete'
  BY <1>14, <1>15 DEF MatchComplete
<1>17. QED
  BY <1>10, <1>11, <1>12, <1>13, <1>16 DEF MatchInv

-----------------------------------------------------------------------------
(* A rate is a share: the matched are among the population.                *)
LEMMA PopulationFinite ==
  ASSUME MatchRuns, NEW h
  PROVE  IsFiniteSet(M!Population(h))
<1>1. IsFiniteSet(m_runs[M!Legacy].projects) /\ IsFiniteSet(m_runs[M!Current].projects)
  BY LegacyIsNotCurrent DEF MatchRuns, SoundRun
<1>2. PICK L, C : L = {M!Legacy} \X m_runs[M!Legacy].projects /\ C = {M!Current} \X m_runs[M!Current].projects
  OBVIOUS
<1>3. IsFiniteSet(L) /\ IsFiniteSet(C)
  BY <1>1, <1>2, FS_Singleton, FS_Product
<1>4. IsFiniteSet(L \cup C)
  BY <1>3, FS_Union
<1>5. M!Population(h) \subseteq L \cup C
  BY <1>2, LegacyIsNotCurrent DEF M!Population
<1>6. QED
  BY <1>4, <1>5, FS_Subset

Named(ps) == {<<yp[1], yp[2].project>> : yp \in ps}

LEMMA NamedAreFewer ==
  ASSUME NEW A, IsFiniteSet(A), NEW B, B \subseteq A
  PROVE  /\ Cardinality(Named(B)) <= Cardinality(Named(A)) /\ Cardinality(Named(A)) \in Nat
         /\ Cardinality(Named(A)) > 0 => A # {}
<1> DEFINE f == [yp \in A |-> <<yp[1], yp[2].project>>]
<1>1. \A yp \in A : f[yp] = <<yp[1], yp[2].project>>
  OBVIOUS
<1>2. f \in [A -> Named(A)] /\ \A n \in Named(A) : \E yp \in A : f[yp] = n
  BY <1>1 DEF Named
<1> HIDE DEF f
<1>3. f \in Surjection(A, Named(A))
  BY <1>2 DEF Surjection
<1>4. IsFiniteSet(Named(A))
  BY <1>3, FS_Surjection
<1>5. Named(B) \subseteq Named(A)
  BY DEF Named
<1>6. Cardinality(Named(B)) <= Cardinality(Named(A)) /\ Cardinality(Named(A)) \in Nat
  BY <1>4, <1>5, FS_Subset, FS_CardinalityType
<1>7. A = {} => Cardinality(Named(A)) = 0
  <2>1. A = {} => Named(A) = {}
    BY DEF Named
  <2>2. QED
    BY <2>1, FS_EmptySet
<1>8. QED
  BY <1>6, <1>7

LEMMA RateIsShare ==
  ASSUME MatchRuns, NEW h, NEW g, g = M!Pattern(h), g.total > 0
  PROVE  g.high <= g.total
<1>1. PICK P : P = M!Population(h)
  OBVIOUS
<1>2. PICK H : H = {x \in P : x[2].best >= 80}
  OBVIOUS
<1>3. IsFiniteSet(P) /\ H \subseteq P
  BY <1>1, <1>2, PopulationFinite
<1>4. Cardinality(Named(H)) <= Cardinality(Named(P)) /\ (Cardinality(Named(P)) > 0 => P # {})
  BY <1>3, NamedAreFewer
<1>5. M!Once(h) = Cardinality(Named(P))
  BY <1>1, SameCardinality DEF M!Once, Named
<1>6. g.total = Cardinality(Named(P))
  BY <1>5 DEF M!Pattern
<1>7. P # {}
  BY <1>4, <1>6
<1>8. g.high = Cardinality(Named(H))
  BY <1>1, <1>2, <1>7, SameCardinality DEF M!Pattern, Named
<1>9. QED
  BY <1>4, <1>6, <1>8

LEMMA PublishKeeps == ASSUME MatchInv, M!Publish PROVE MatchInv'
<1>1. m_pc = "publish" /\ m_pc' = "idle" /\ m_state' = M!Status /\ m_patterns' = {M!Pattern(h) : h \in M!Heirs}
      /\ UNCHANGED <<m_budget, m_shopping, m_covered, m_legacy, m_runs, m_todo, m_year, m_full, m_scan,
                     m_kept, m_found, m_complete, m_result, m_enough>>
  BY DEF M!Publish, M!source, M!cycle
<1>2. m_state' \in {"PARTIAL", "COMPLETE"}
  BY <1>1 DEF M!Status
<1>3. MatchTypes'
  BY <1>1, <1>2 DEF MatchInv, MatchTypes, M!TypeOK
<1>4. MatchRates'
  <2>1. MatchRuns
    BY DEF MatchInv
  <2>2. \A h : M!Pattern(h).total > 0 => M!Pattern(h).high <= M!Pattern(h).total
    BY <2>1, RateIsShare
  <2>3. QED
    BY <1>1, <2>2 DEF MatchRates
<1>5. QED
  BY <1>1, <1>3, <1>4, IdleKeeps

-----------------------------------------------------------------------------
LEMMA MatchNextKeeps == ASSUME MatchInv, M!Next PROVE MatchInv'
<1>1. CASE M!Collect
  BY <1>1, CollectKeeps
<1>2. CASE M!Start
  BY <1>2, StartKeeps
<1>3. CASE M!Cover
  BY <1>3, CoverKeeps
<1>4. CASE M!ReadBudget
  BY <1>4, ReadBudgetKeeps
<1>5. CASE M!TurnToShopping
  BY <1>5, TurnToShoppingKeeps
<1>6. CASE M!ReadShopping
  BY <1>6, ReadShoppingKeeps
<1>7. CASE M!Save
  BY <1>7, SaveKeeps
<1>8. CASE M!Backfill
  BY <1>8, BackfillKeeps
<1>9. CASE M!BackfillRaises
  BY <1>9, BackfillRaisesKeeps
<1>10. CASE M!Publish
  BY <1>10, PublishKeeps
<1>11. CASE M!Fail
  BY <1>11, FailKeeps
<1>12. CASE M!Crash
  BY <1>12, CrashKeeps
<1>13. QED
  BY <1>1, <1>2, <1>3, <1>4, <1>5, <1>6, <1>7, <1>8, <1>9, <1>10, <1>11, <1>12 DEF M!Next

LEMMA MatchStep == MatchInv /\ [EvidenceNext]_evidenceVars => MatchInv'
<1> SUFFICES ASSUME MatchInv, [EvidenceNext]_evidenceVars PROVE MatchInv'
  OBVIOUS
<1>1. CASE UNCHANGED matchVars
  BY <1>1, MatchStays
<1>2. CASE M!Next
  BY <1>2, MatchNextKeeps
<1>3. QED
  BY <1>1, <1>2 DEF EvidenceNext, evidenceVars

LEMMA MatchInvHolds == EvidenceSpec => []MatchInv
<1>1. EvidenceInit => MatchInv
  BY MatchStarts DEF EvidenceInit
<1>2. QED
  BY <1>1, MatchStep, PTL DEF EvidenceSpec

-----------------------------------------------------------------------------
(* The runs change by a save only.                                         *)
LEMMA RunsChange ==
  ASSUME MatchInv, M!Next, m_runs' # m_runs
  PROVE  M!Save
BY DEF M!Next, M!Collect, M!Start, M!Cover, M!ReadBudget, M!Read, M!TurnToShopping, M!ReadShopping,
       M!Backfill, M!BackfillRaises, M!Publish, M!Fail, M!Crash

LEMMA SavedRun ==
  ASSUME MatchInv, M!Next, NEW y \in M!Years, m_runs'[y] # m_runs[y]
  PROVE  /\ m_pc = "shopping" /\ y = m_year /\ UNCHANGED <<m_budget, m_shopping>>
         /\ \E pop \in BOOLEAN :
              /\ pop <=> m_full /\ m_scan.budget /\ m_scan.done
              /\ m_runs'[y] = M!NewRun(pop) /\ m_runs'[y].verified = pop
              /\ pop \/ m_runs[y].projects = {}
<1>1. M!Save
  <2>1. m_runs' # m_runs
    OBVIOUS
  <2>2. QED
    BY <2>1, RunsChange
<1>2. PICK pop : pop = (m_full /\ m_scan.budget /\ m_scan.done)
  OBVIOUS
<1>3. /\ m_pc = "shopping" /\ UNCHANGED <<m_budget, m_shopping>>
      /\ m_runs' = IF M!Replaces(m_runs[m_year], pop)
                     THEN [m_runs EXCEPT ![m_year] = M!NewRun(pop)] ELSE m_runs
  BY <1>1, <1>2 DEF M!Save, M!source
<1>4. MatchTypes /\ m_year \in M!Years
  BY <1>3 DEF MatchInv, MatchYear
<1>5. pop \in BOOLEAN
  BY <1>2, <1>4 DEF MatchTypes
<1>6. PICK run : run = M!NewRun(pop)
  OBVIOUS
<1>7. run.verified = pop
  BY <1>3, <1>5, <1>6, SidesAre, SavedIsSound
<1>8. M!Replaces(m_runs[m_year], pop) /\ m_runs' = [m_runs EXCEPT ![m_year] = run]
  BY <1>3, <1>6
<1>9. m_runs = [z \in M!Years |-> m_runs[z]]
  BY <1>4 DEF MatchTypes
<1>10. y = m_year /\ m_runs'[y] = run
  BY <1>4, <1>8, <1>9
<1>11. pop \/ m_runs[y].projects = {}
  BY <1>8, <1>10 DEF M!Replaces
<1>12. QED
  BY <1>2, <1>3, <1>5, <1>6, <1>7, <1>10, <1>11

Exact(y) ==
  /\ {p.project : p \in m_runs'[y].projects} = {b.project : b \in {b \in m_budget : b.year = y /\ M!Target(b)}}
  /\ M!Cardinality(m_runs'[y].projects) = M!Cardinality({p.project : p \in m_runs'[y].projects})
  /\ \A m \in m_runs'[y].evidence, r \in M!Requests(M!DetailsOf(y)), b \in m_kept :
       r.request = m.request /\ M!Pairs(b, r) => M!Score(b, r) <= m.score

LEMMA SavedIsExact ==
  ASSUME MatchInv, M!Next, NEW y \in M!Years, m_runs'[y] # m_runs[y], m_runs'[y].verified
  PROVE  Exact(y)
<1>1. m_pc = "shopping" /\ y = m_year /\ m_full /\ m_scan.budget /\ m_scan.done /\ m_runs'[y] = M!NewRun(TRUE)
  BY SavedRun
<1>2. PICK run : run = M!NewRun(TRUE)
  OBVIOUS
<1>3. m_runs'[y] = run
  BY <1>1, <1>2
<1>4. /\ {p.project : p \in run.projects} = {b.project : b \in m_kept}
      /\ Cardinality(run.projects) = Cardinality({p.project : p \in run.projects})
      /\ \A e \in run.evidence, r \in m_found, b \in m_kept :
           r.request = e.request /\ M!Pairs(b, r) => M!Score(b, r) <= e.score
  BY <1>1, <1>2, SidesAre, NewRunIs
<1>5. /\ m_found = M!Requests(M!DetailsOf(y))
      /\ {b.project : b \in m_kept} = {b.project : b \in {b \in M!RowsOf(y) : M!Target(b)}}
  BY <1>1, PopulationIsWhole
<1>6. {b \in M!RowsOf(y) : M!Target(b)} = {b \in m_budget : b.year = y /\ M!Target(b)}
  BY DEF M!RowsOf
<1>7. QED
  BY <1>3, <1>4, <1>5, <1>6, SameCardinality DEF Exact

LEMMA VerifiedStays ==
  ASSUME MatchInv, M!Next, NEW y \in M!Years, m_runs[y].projects # {}, m_runs'[y] # m_runs[y]
  PROVE  m_runs'[y].verified
<1>1. PICK pop \in BOOLEAN : m_runs'[y].verified = pop /\ (pop \/ m_runs[y].projects = {})
  BY SavedRun
<1>2. QED
  BY <1>1

LEMMA PublishedIsEarned ==
  ASSUME MatchInv, M!Next, m_pc = "publish", m_state' = "COMPLETE", NEW y \in M!Years
  PROVE  m_runs[y].verified /\ m_runs[y].evidence = Matched(y)
<1>1. M!Publish
  BY DEF M!Next, M!Collect, M!Start, M!Cover, M!ReadBudget, M!TurnToShopping, M!ReadShopping, M!Save,
         M!Backfill, M!BackfillRaises, M!Fail, M!Crash
<1>2. M!Status = "COMPLETE"
  BY <1>1 DEF M!Publish
<1>3. m_complete = M!Years
  BY <1>2 DEF M!Status
<1>4. QED
  BY <1>3 DEF MatchInv, MatchComplete

(* A population that is stored is exact however the pages fell; nothing    *)
(* but another population replaces it; and COMPLETE is published only when *)
(* both years are what matching all the stored rows gives.                 *)
THEOREM PopulationIsTrueHolds == EvidenceSpec => PopulationIsTrue
<1> DEFINE Saved == \A y \in M!Years : m_runs'[y] # m_runs[y] /\ m_runs'[y].verified => Exact(y)
           Stays == \A y \in M!Years : m_runs[y].projects # {} /\ m_runs'[y] # m_runs[y] => m_runs'[y].verified
           Earned == m_pc = "publish" /\ m_state' = "COMPLETE" =>
                       \A y \in M!Years : m_runs[y].verified /\ m_runs[y].evidence = Matched(y)
<1>1. [EvidenceNext]_evidenceVars => M!Next \/ UNCHANGED M!vars
  BY DEF EvidenceNext, evidenceVars, matchVars, M!vars, M!source, M!cycle
<1>2. MatchInv /\ M!Next => Saved /\ Stays /\ Earned
  BY SavedIsExact, VerifiedStays, PublishedIsEarned
<1>3. MatchInv /\ [EvidenceNext]_evidenceVars
        => [\A y \in M!Years : m_runs'[y] # m_runs[y] /\ m_runs'[y].verified =>
              /\ {p.project : p \in m_runs'[y].projects}
                   = {b.project : b \in {b \in m_budget : b.year = y /\ M!Target(b)}}
              /\ M!Cardinality(m_runs'[y].projects) = M!Cardinality({p.project : p \in m_runs'[y].projects})
              /\ \A m \in m_runs'[y].evidence, r \in M!Requests(M!DetailsOf(y)), b \in m_kept :
                   r.request = m.request /\ M!Pairs(b, r) => M!Score(b, r) <= m.score]_(M!vars)
  <2> SUFFICES ASSUME MatchInv, M!Next, NEW y \in M!Years, m_runs'[y] # m_runs[y], m_runs'[y].verified
               PROVE  /\ {p.project : p \in m_runs'[y].projects}
                           = {b.project : b \in {b \in m_budget : b.year = y /\ M!Target(b)}}
                      /\ M!Cardinality(m_runs'[y].projects)
                           = M!Cardinality({p.project : p \in m_runs'[y].projects})
                      /\ \A m \in m_runs'[y].evidence, r \in M!Requests(M!DetailsOf(y)), b \in m_kept :
                           r.request = m.request /\ M!Pairs(b, r) => M!Score(b, r) <= m.score
    BY <1>1
  <2>1. Exact(y)
    BY <1>2
  <2>2. QED
    BY <2>1 DEF Exact
<1>4. MatchInv /\ [EvidenceNext]_evidenceVars
        => [\A y \in M!Years : m_runs[y].projects # {} /\ m_runs'[y] # m_runs[y]
              => m_runs'[y].verified]_(M!vars)
  BY <1>1, <1>2
<1>5. MatchInv /\ [EvidenceNext]_evidenceVars
        => [m_pc = "publish" /\ m_state' = "COMPLETE" =>
              \A y \in M!Years :
                /\ m_runs[y].verified
                /\ m_runs[y].evidence
                     = M!Evidence(M!Assigned(M!FirstOf(M!BudgetOf(y), {}), M!Requests(M!DetailsOf(y))))]_(M!vars)
  BY <1>1, <1>2 DEF Matched
<1>6. QED
  BY <1>3, <1>4, <1>5, MatchInvHolds, PTL
  DEF EvidenceSpec, PopulationIsTrue, M!PopulationIsExact, M!VerifiedIsKept, M!CompleteIsEarned

(* Nothing is counted twice: a page counts a row once whatever rules it    *)
(* was classified under, a stored request is evidence for one project, a   *)
(* project has at most its few, and a published rate is a share.           *)
THEOREM CountedOnceHolds == EvidenceSpec => []CountedOnce
<1>1. MatchInv => M!CountedOnce
  BY CountedOnceFollows
<1>2. StoreInv /\ StoreOnce /\ MatchInv => CountedOnce
  BY <1>1, SummaryFollows DEF CountedOnce
<1>3. QED
  BY <1>2, StoreInvHolds, StoreOnceHolds, MatchInvHolds, PTL

=============================================================================
