---------------------- MODULE CollectionMonitorProofs ----------------------
(***************************************************************************)
(* Proofs about CollectionMonitor, for any calendar, region plan and       *)
(* number of recent rows, and however many rows are written meanwhile.     *)
(***************************************************************************)
EXTENDS CollectionMonitor, FiniteSetTheorems, WellFoundedInduction, TLAPS

Row == [status : Statuses, at : Int]
Phases == {"running", "orphan", "exited", "reported"}
Stages == Statuses \cup {"NOT_STARTED", "STALE", "PARTIAL"}
Words == Stages \cup Waits \cup {"", "IDLE"}
View ==
  [pc : {"idle", "budget", "runs", "slot", "shown"}, today : Nat, cut : Nat, shop : Words,
   budget : Words, aidfa : Words, earned : BOOLEAN, exact : BOOLEAN, aged : BOOLEAN,
   runs : [Sources -> Words], taken : Sources \cup {"none"}]
Typed ==
  /\ today \in 2..LastDay /\ clock \in Nat /\ cp \in [Scopes -> Row] /\ whole \subseteq Scopes
  /\ slot = NoSlot \/ slot \in [kind : Sources, phase : Phases]
  /\ pending \subseteq Sources /\ run \in [Sources -> Words] /\ view \in View

(* No two rows were written at once.                                       *)
Dated ==
  /\ \A s \in Scopes : cp[s].at <= clock
  /\ \A s, u \in Present(Scopes) : cp[s].at = cp[u].at => s = u

(* What rows say, now or when they were cached: who is said to be done has *)
(* been stored, a day collected by region with all its regions.            *)
Honest(t) ==
  \A s \in DOMAIN t :
    /\ s \in Scopes /\ t[s] \in Row
    /\ t[s].status \in {"COMPLETE", "PARTITION"} => s \in whole
    /\ s.kind = "nation" /\ t[s].status = "PARTITION" => Regional(s.day) \subseteq whole
    /\ s.kind = "region" => t[s].status \notin {"LEGACY", "EXHAUSTED", "PARTITION"}
    /\ s.kind # "shop" => t[s].status # "LEGACY"

(* A region is collected only on a day the nation was collected, and while *)
(* it is, or the nation is read again, no other day is: days before it are *)
(* finished and have the older rows.                                       *)
Daily == {s \in Budget : s.kind \in {"nation", "region"}}
RegionsFollow ==
  \A d \in Days, r \in Regions :
    cp[Scope("region", d, r)].status # "NONE" => cp[Scope("nation", d, 0)].status # "NONE"
DaysFollow ==
  \A d \in Days : cp[Scope("nation", d, 0)].status # "NONE" =>
    /\ d < today
    /\ \A e \in Days : cp[Scope("nation", e, 0)].status # "NONE" /\ d < e => Done(Scope("nation", d, 0))
InOrder == \A s, u \in Present(Daily) : s.day < u.day => cp[s].at < cp[u].at
Ordered == RegionsFollow /\ DaysFollow /\ InOrder

(* The page shows stages until the slot is read.                           *)
StagesRead ==
  /\ view.pc \in {"budget", "runs", "slot"} => view.shop \in Stages
  /\ view.pc \in {"runs", "slot"} => {view.budget, view.aidfa} \subseteq Stages

MonitorInv ==
  /\ Typed /\ Dated /\ Honest(cp) /\ Honest(cache) /\ Ordered /\ StagesRead
  /\ ShownIsTrue /\ BoundedIsExact

-----------------------------------------------------------------------------
(* A finite set has an element whose value is the greatest: the smallest   *)
(* subset without one would have one.                                      *)
LEMMA FiniteMax ==
  ASSUME NEW A, IsFiniteSet(A), A # {}, NEW g \in [A -> Int]
  PROVE  \E m \in A : \A u \in A : g[u] <= g[m]
<1> DEFINE Has(U) == \E m \in U : \A u \in U : g[u] <= g[m]
           B == {U \in SUBSET A : U # {} /\ ~Has(U)}
<1>1. FiniteSubsetsOf(A) = SUBSET A
  BY FS_FiniteSubsetsOfFinite
<1>2. IsWellFoundedOn(StrictSubsetOrdering(A), SUBSET A)
  BY <1>1, FS_StrictSubsetOrderingWellFounded
<1>3. SUFFICES ASSUME B # {} PROVE FALSE
  OBVIOUS
<1>4. B \subseteq SUBSET A
  OBVIOUS
<1> HIDE DEF B
<1>5. PICK U \in B : \A V \in B : ~(<<V, U>> \in StrictSubsetOrdering(A))
  BY <1>2, <1>3, <1>4, WFMin
<1> USE DEF B
<1>6. PICK x : x \in U
  BY <1>5
<1> DEFINE V == U \ {x}
<1>7. <<V, U>> \in StrictSubsetOrdering(A)
  BY <1>5, <1>6 DEF StrictSubsetOrdering
<1>8. V \notin B
  BY <1>5, <1>7
<1>9. V = {} \/ Has(V)
  BY <1>5, <1>8
<1>10. \A u \in U : u \in A /\ g[u] \in Int
  BY <1>5
<1>11. CASE V = {}
  <2>1. \A u \in U : u = x
    BY <1>11
  <2>2. Has(U)
    BY <1>6, <1>10, <2>1
  <2>3. QED
    BY <1>5, <2>2
<1>12. CASE Has(V)
  <2>1. PICK m \in V : \A u \in V : g[u] <= g[m]
    BY <1>12
  <2>2. m \in U /\ g[m] \in Int /\ g[x] \in Int
    BY <1>6, <1>10, <2>1
  <2>3. CASE g[x] <= g[m]
    BY <1>5, <2>1, <2>2, <2>3
  <2>4. CASE g[m] <= g[x]
    <3>1. \A u \in U : g[u] <= g[x]
      BY <1>10, <2>1, <2>2, <2>4
    <3>2. QED
      BY <1>5, <1>6, <3>1
  <2>5. QED
    BY <2>2, <2>3, <2>4
<1>13. QED
  BY <1>9, <1>11, <1>12

(* Of a finite set of numbers, and of values that are numbers.             *)
LEMMA MaxOf ==
  ASSUME NEW T, IsFiniteSet(T), T # {}, T \subseteq Int
  PROVE  Max(T) \in T /\ \A u \in T : u <= Max(T)
<1> DEFINE g == [x \in T |-> x]
<1>1. g \in [T -> Int] /\ \A x \in T : g[x] = x
  OBVIOUS
<1> HIDE DEF g
<1>2. PICK m \in T : \A u \in T : g[u] <= g[m]
  BY <1>1, FiniteMax
<1>3. \A u \in T : m >= u
  BY <1>1, <1>2
<1>4. Max(T) \in T /\ \A u \in T : Max(T) >= u
  BY <1>3 DEF Max
<1>5. QED
  BY <1>4

LEMMA MinOf ==
  ASSUME NEW T, IsFiniteSet(T), T # {}, T \subseteq Int
  PROVE  Min(T) \in T
<1> DEFINE g == [x \in T |-> -x]
<1>1. g \in [T -> Int] /\ \A x \in T : g[x] = -x
  OBVIOUS
<1> HIDE DEF g
<1>2. PICK m \in T : \A u \in T : g[u] <= g[m]
  BY <1>1, FiniteMax
<1>3. \A u \in T : m =< u
  BY <1>1, <1>2
<1>4. QED
  BY <1>3 DEF Min

(* The newest row of a finite set, and that leaving out others keeps it.   *)
LEMMA NewestExists ==
  ASSUME NEW t, NEW A, IsFiniteSet(A), A # {}, \A s \in A : t[s].at \in Int
  PROVE  /\ NewestOf(t, A) \in A
         /\ \A u \in A : t[u].at <= t[NewestOf(t, A)].at
<1>1. PICK g \in [A -> Int] : g = [s \in A |-> t[s].at]
  OBVIOUS
<1>2. PICK m \in A : \A u \in A : g[u] <= g[m]
  BY FiniteMax
<1>3. \A u \in A : t[u].at <= t[m].at
  BY <1>1, <1>2
<1>4. QED
  BY <1>2, <1>3 DEF NewestOf

LEMMA NewestKept ==
  ASSUME NEW t, NEW v, NEW A, NEW B, IsFiniteSet(B), B # {}, A \subseteq B,
         \A s \in A : t[s] = v[s], \A s \in B : v[s].at \in Int,
         \A s, u \in B : v[s].at = v[u].at => s = u, NewestOf(v, B) \in A
  PROVE  NewestOf(t, A) = NewestOf(v, B)
<1> DEFINE m == NewestOf(v, B)
<1>1. \A u \in B : v[u].at <= v[m].at
  BY NewestExists
<1>2. IsFiniteSet(A)
  BY FS_Subset
<1>3. \A s \in A : t[s].at = v[s].at /\ t[s].at \in Int /\ s \in B
  OBVIOUS
<1>4. /\ NewestOf(t, A) \in A
      /\ \A u \in A : t[u].at <= t[NewestOf(t, A)].at
  BY <1>2, <1>3, NewestExists
<1> HIDE DEF m
<1>5. m \in A
  BY DEF m
<1>6. v[m].at <= v[NewestOf(t, A)].at
  BY <1>3, <1>4, <1>5
<1>7. v[m].at = v[NewestOf(t, A)].at
  BY <1>1, <1>3, <1>4, <1>5, <1>6
<1>8. QED
  BY <1>3, <1>4, <1>5, <1>7 DEF m

LEMMA Kinds ==
  /\ \A s \in Shop : s.kind = "shop" /\ s.day \in Days
  /\ \A s \in Budget : s.kind \in {"nation", "history", "region"} /\ s.day \in Days
  /\ \A s \in Budget : s.kind \in {"nation", "history"} => s = Scope(s.kind, s.day, 0)
  /\ \A s \in Budget : s.kind = "region" => s.part \in Regions /\ s = Scope("region", s.day, s.part)
  /\ \A s \in Aidfa : s.kind \in {"appropriation", "future"} /\ s = Scope(s.kind, 1, 0)
  /\ Scopes = Shop \cup Budget \cup Aidfa
BY DEF Shop, Budget, Aidfa, Scope, Scopes

LEMMA ScopeOf ==
  /\ \A k, d, r : Scope(k, d, r).kind = k /\ Scope(k, d, r).day = d /\ Scope(k, d, r).part = r
  /\ \A d \in Days : Scope("shop", d, 0) \in Shop
  /\ \A d \in Days : Scope("nation", d, 0) \in Budget /\ Scope("history", d, 0) \in Budget
  /\ \A d \in Days, r \in Regions : Scope("region", d, r) \in Budget
  /\ \A k \in {"appropriation", "future"} : Scope(k, 1, 0) \in Aidfa
<1>1. \A k, d, r : Scope(k, d, r).kind = k /\ Scope(k, d, r).day = d /\ Scope(k, d, r).part = r
  BY DEF Scope
<1>2. QED
  BY <1>1 DEF Shop, Budget, Aidfa

LEMMA ScopesFinite ==
  IsFiniteSet(Scopes)
<1> DEFINE K == {"shop", "nation", "history", "region", "appropriation", "future"}
           N == 0..LastDay + 1
           P == Regions \cup {0}
           T == [kind : K, day : N, part : P]
           S == (K \X N) \X P
           f == [x \in S |-> [kind |-> x[1][1], day |-> x[1][2], part |-> x[2]]]
<1>1. IsFiniteSet(N) /\ IsFiniteSet(P)
  BY MonitorAssumption, FS_Interval, FS_AddElement
<1>2. IsFiniteSet(K)
  <2> DEFINE g == <<"shop", "nation", "history", "region", "appropriation", "future">>
  <2>1. g \in Surjection(1..6, K)
    <3>1. g \in [1..6 -> K]
      OBVIOUS
    <3>2. /\ g[1] = "shop" /\ g[2] = "nation" /\ g[3] = "history" /\ g[4] = "region"
          /\ g[5] = "appropriation" /\ g[6] = "future"
      OBVIOUS
    <3>3. \A k \in K : \E i \in 1..6 : g[i] = k
      BY <3>2
    <3>4. QED
      BY <3>1, <3>3 DEF Surjection
  <2>2. PICK n \in Int : n = 6
    OBVIOUS
  <2>3. IsFiniteSet(1..n)
    BY FS_Interval
  <2>4. g \in Surjection(1..n, K)
    BY <2>1, <2>2
  <2> HIDE DEF K, g
  <2>5. QED
    BY <2>3, <2>4, FS_Surjection
<1>3. IsFiniteSet(S)
  BY <1>1, <1>2, FS_Product
<1>4. f \in [S -> T]
  OBVIOUS
<1>5. \A r \in T : \E x \in S : f[x] = r
  <2>1. TAKE r \in T
  <2>2. <<<<r.kind, r.day>>, r.part>> \in S
    OBVIOUS
  <2>3. f[<<<<r.kind, r.day>>, r.part>>] = r
    BY <2>2
  <2>4. QED
    BY <2>2, <2>3
<1>6. f \in Surjection(S, T)
  BY <1>4, <1>5 DEF Surjection
<1>7. IsFiniteSet(T)
  BY <1>3, <1>6, FS_Surjection
<1>8. Scopes \subseteq T
  BY MonitorAssumption DEF Scopes, Shop, Budget, Aidfa, Scope, Days
<1>9. QED
  BY <1>7, <1>8, FS_Subset

-----------------------------------------------------------------------------
(* The stage a set of rows shows, and what it means when it says COMPLETE. *)
LEMMA StageOf ==
  ASSUME NEW t, NEW A, NEW old, IsFiniteSet(A), \A s \in A : t[s] \in Row
  PROVE  /\ StateFor(t, A, old) \in Stages
         /\ A = {} <=> StateFor(t, A, old) = "NOT_STARTED"
         /\ A # {} => NewestOf(t, A) \in A
         /\ StateFor(t, A, old) = "COMPLETE" =>
              A # {} /\ t[NewestOf(t, A)].status \in {"COMPLETE", "LEGACY", "PARTITION"}
<1>1. CASE A = {}
  BY <1>1 DEF StateFor, Stages
<1>2. CASE A # {}
  <2>1. NewestOf(t, A) \in A
    BY <1>2, NewestExists DEF Row
  <2>2. PICK r \in Row : r = t[NewestOf(t, A)]
    BY <2>1
  <2>3. StateFor(t, A, old) = IF r.status = "RUNNING" /\ r.at <= old THEN "STALE" ELSE Label(r.status)
    BY <1>2, <2>2 DEF StateFor
  <2>4. Label(r.status) \in Statuses
    <3>1. r.status \in Statuses
      BY DEF Row
    <3>2. Label(r.status) \in {"COMPLETE", "INCOMPLETE", r.status}
      BY DEF Label
    <3>3. QED
      BY <3>1, <3>2 DEF Statuses
  <2>5. StateFor(t, A, old) = "COMPLETE" => r.status \in {"COMPLETE", "LEGACY", "PARTITION"}
    BY <2>3 DEF Label
  <2>6. StateFor(t, A, old) # "NOT_STARTED"
    BY <2>3, <2>4 DEF Statuses
  <2>7. StateFor(t, A, old) \in Stages
    BY <2>3, <2>4 DEF Stages
  <2>8. QED
    BY <1>2, <2>1, <2>2, <2>5, <2>6, <2>7
<1>3. QED
  BY <1>1, <1>2

-----------------------------------------------------------------------------
LEMMA InitMonitor ==
  ASSUME Init
  PROVE  MonitorInv
<1> DEFINE Stored == {s \in Budget : cp[s].status # "NONE"}
<1>1. /\ today \in 2..LastDay /\ clock = 0 /\ whole = Stored /\ pending = {} /\ cache = NoCache
      /\ view = NoView /\ run = [k \in Sources |-> "IDLE"]
      /\ slot = NoSlot \/ slot \in [kind : Sources, phase : {"running"}]
  BY MonitorAssumption DEF Init
<1>2. slot = NoSlot \/ slot \in [kind : Sources, phase : Phases]
  BY <1>1 DEF Phases
<1>3. view \in View /\ view.pc = "idle" /\ view.earned /\ view.exact
  <2>1. [k \in Sources |-> ""] \in [Sources -> Words] /\ [k \in Sources |-> "IDLE"] \in [Sources -> Words]
    BY DEF Words
  <2>2. NoView \in View
    BY <2>1 DEF View, NoView, Words
  <2>3. QED
    BY <1>1, <2>2 DEF NoView
<1>4. SUFFICES ASSUME TRUE
               PROVE  /\ cp \in [Scopes -> Row] /\ Dated /\ Honest(cp) /\ Ordered
  <2>1. Honest(cache)
    BY <1>1 DEF Honest, NoCache
  <2>2. Stored \subseteq Scopes /\ run \in [Sources -> Words]
    <3>1. Stored \subseteq Budget
      OBVIOUS
    <3>2. [k \in Sources |-> "IDLE"] \in [Sources -> Words]
      BY DEF Words
    <3> HIDE DEF Stored
    <3>3. QED
      BY <1>1, <3>1, <3>2, Kinds
  <2>3. StagesRead /\ ShownIsTrue /\ BoundedIsExact
    BY <1>3 DEF StagesRead, ShownIsTrue, BoundedIsExact
  <2>4. QED
    BY <1>1, <1>2, <1>3, <2>1, <2>2, <2>3 DEF MonitorInv, Typed
<1>5. CASE cp = Fresh \/ cp = [Fresh EXCEPT ![Scope("shop", 1, 0)].status = "LEGACY"]
  <2> DEFINE none == [status |-> "NONE", at |-> 0]
             old == [status |-> "LEGACY", at |-> 0]
             day == Scope("shop", 1, 0)
  <2>1. cp \in [Scopes -> {none, old}] /\ \A s \in Scopes : s # day => cp[s] = none
    BY <1>5 DEF Fresh
  <2>2. none \in Row /\ old \in Row /\ none.status = "NONE" /\ old.status = "LEGACY"
        /\ none.at = 0 /\ old.at = 0 /\ day.kind = "shop"
    BY DEF Row, Statuses, Scope
  <2> HIDE DEF none, old, day
  <2>3. Dated
    BY <1>1, <2>1, <2>2 DEF Dated, Present
  <2>4. Honest(cp)
    BY <2>1, <2>2 DEF Honest
  <2>5. Ordered
    <3>1. \A s \in Budget : cp[s].status = "NONE"
      BY <2>1, <2>2, Kinds
    <3>2. QED
      BY <3>1, ScopeOf DEF Ordered, RegionsFollow, DaysFollow, InOrder, Daily, Present
  <2>6. QED
    BY <2>1, <2>2, <2>3, <2>4, <2>5
<1>6. CASE cp = Earlier
  <2> DEFINE Status(s) == IF s.day # 1 \/ s.kind \notin {"nation", "region"} THEN "NONE"
                          ELSE IF s.kind = "nation" THEN "PARTITION" ELSE "COMPLETE"
  <2>1. cp = [s \in Scopes |-> [status |-> Status(s), at |-> -s.part]]
    BY <1>6 DEF Earlier
  <2>2. \A s \in Scopes : Status(s) \in Statuses /\ s.part \in Nat /\ -s.part \in Int /\ -s.part <= 0
    BY MonitorAssumption DEF Scopes, Shop, Budget, Aidfa, Scope, Statuses
  <2>3. cp \in [Scopes -> Row]
    BY <2>1, <2>2 DEF Row
  <2>4. \A s \in Scopes : cp[s].status = Status(s) /\ cp[s].at = -s.part
    BY <2>1
  <2>5. \A s \in Scopes : Status(s) # "NONE" =>
          /\ s.day = 1 /\ s.kind \in {"nation", "region"} /\ s \in Budget
          /\ s.kind = "nation" => s.part = 0 /\ Status(s) = "PARTITION"
          /\ s.kind = "region" => s.part \in Regions /\ Status(s) = "COMPLETE"
          /\ s = Scope(s.kind, 1, s.part)
    BY Kinds DEF Scope
  <2>6. \A d \in Days, r \in Regions :
          /\ Scope("region", d, r) \in Scopes /\ Scope("region", d, r) \in Budget /\ Scope("region", d, r).kind = "region"
          /\ Scope("region", d, r).day = d
          /\ Scope("nation", d, 0) \in Scopes /\ Scope("nation", d, 0).kind = "nation"
          /\ Scope("nation", d, 0).day = d
    BY ScopeOf, Kinds
  <2>7. \A d \in Days, r \in Regions : /\ Status(Scope("nation", 1, 0)) = "PARTITION"
                                       /\ Status(Scope("region", 1, r)) = "COMPLETE"
                                       /\ Status(Scope("region", d, r)) # "NONE" => d = 1
    BY <2>6, <2>5 DEF Scope
  <2> HIDE DEF Status
  <2>8. Dated
    <3>1. \A s \in Scopes : cp[s].at <= clock
      BY <1>1, <2>2, <2>4
    <3>2. ASSUME NEW s \in Scopes, NEW u \in Scopes, Status(s) # "NONE", Status(u) # "NONE", -s.part = -u.part
          PROVE  s = u
      <4>1. s.part = u.part
        BY <2>2, <3>2
      <4>2. s.kind = u.kind
        BY <2>5, <3>2, <4>1, MonitorAssumption
      <4>3. QED
        BY <2>5, <3>2, <4>1, <4>2
    <3>3. QED
      BY <2>4, <3>1, <3>2 DEF Dated, Present
  <2>9. Honest(cp)
    <3>1. 1 \in Days
      BY MonitorAssumption DEF Days
    <3>2. Regional(1) \subseteq Stored
      BY <2>4, <2>6, <2>7, <3>1 DEF Regional
    <3>3. \A s \in Scopes : Status(s) \in {"NONE", "PARTITION", "COMPLETE"}
      BY DEF Status
    <3>4. QED
      BY <1>1, <2>3, <2>4, <2>5, <3>2, <3>3 DEF Honest
  <2>10. Ordered
    <3>1. \A s \in Scopes : cp[s].status # "NONE" => s.day = 1
      BY <2>4, <2>5
    <3>2. \A d \in Days : Scope("nation", d, 0) \in Scopes /\ Scope("nation", d, 0).day = d
      BY ScopeOf, Kinds
    <3>3. RegionsFollow
      BY <2>4, <2>6, <2>7 DEF RegionsFollow
    <3>4. DaysFollow
      BY <1>1, <3>1, <3>2 DEF DaysFollow
    <3>5. InOrder
      BY <3>1, Kinds DEF InOrder, Daily, Present
    <3>6. QED
      BY <3>3, <3>4, <3>5 DEF Ordered
  <2>11. QED
    BY <2>3, <2>8, <2>9, <2>10
<1>7. QED
  BY <1>5, <1>6 DEF Init

(* No day after d has been begun, and those before it are finished.        *)
LatestDay(d) ==
  /\ d < today
  /\ \A e \in Days : cp[Scope("nation", e, 0)].status # "NONE" =>
       e <= d /\ (e < d => Done(Scope("nation", e, 0)))

(* A row is written: what it must fit.                                     *)
LEMMA WriteStep ==
  ASSUME MonitorInv, NEW s \in Scopes, NEW st \in Statuses \ {"NONE", "LEGACY"}, Write(s, st),
         s.kind = "region" => /\ st \notin {"EXHAUSTED", "PARTITION"}
                              /\ cp[Scope("nation", s.day, 0)].status # "NONE",
         s.kind = "nation" /\ st = "PARTITION" => Regional(s.day) \subseteq whole,
         s.kind \in {"nation", "region"} => LatestDay(s.day)
  PROVE  MonitorInv'
<1>1. /\ clock' = clock + 1 /\ cp' = [cp EXCEPT ![s] = [status |-> st, at |-> clock + 1]]
      /\ whole \subseteq whole' /\ (st \in {"COMPLETE", "PARTITION"} => s \in whole')
      /\ whole' \subseteq whole \cup {s}
      /\ UNCHANGED <<today, slot, pending, run, cache, view>>
  <2>1. /\ clock' = clock + 1 /\ cp' = [cp EXCEPT ![s] = [status |-> st, at |-> clock']]
        /\ UNCHANGED <<today, slot, pending, run, cache, view>>
    BY DEF Write, Counted, child, page
  <2>2. whole' = IF st \in {"COMPLETE", "PARTITION"} THEN whole \cup {s} ELSE whole
    BY DEF Write
  <2>3. QED
    BY <2>1, <2>2
<1>2. PICK w \in Row : w = [status |-> st, at |-> clock + 1]
  <2>1. clock + 1 \in Int
    BY DEF MonitorInv, Typed
  <2>2. [status |-> st, at |-> clock + 1] \in Row
    BY <2>1 DEF Row
  <2>3. QED
    BY <2>2
<1>3. /\ cp' \in [Scopes -> Row] /\ cp'[s] = w /\ \A u \in Scopes : u # s => cp'[u] = cp[u]
      /\ w.status = st /\ w.at = clock + 1
  BY <1>1, <1>2 DEF MonitorInv, Typed
<1>4. Typed'
  BY <1>1, <1>3 DEF MonitorInv, Typed
<1>5. clock \in Nat /\ \A u \in Scopes : cp[u].at \in Int /\ cp[u].at <= clock
  BY DEF MonitorInv, Typed, Dated, Row
<1>6. Dated'
  <2>1. \A u \in Scopes : cp'[u].at <= clock'
    BY <1>1, <1>3, <1>5
  <2>2. ASSUME NEW u \in Scopes, NEW v \in Scopes, cp'[u].status # "NONE", cp'[v].status # "NONE",
               cp'[u].at = cp'[v].at
        PROVE  u = v
    <3>1. CASE u # s /\ v # s
      BY <1>3, <2>2, <3>1 DEF MonitorInv, Dated, Present
    <3>2. CASE u = s \/ v = s
      BY <1>3, <1>5, <2>2, <3>2
    <3>3. QED
      BY <3>1, <3>2
  <2>3. QED
    BY <2>1, <2>2 DEF Dated, Present
<1>7. Honest(cp)'
  <2>1. DOMAIN cp = Scopes /\ DOMAIN cp' = Scopes
    BY <1>3 DEF MonitorInv, Typed
  <2>2. SUFFICES ASSUME NEW u \in Scopes
                 PROVE  /\ cp'[u] \in Row
                        /\ cp'[u].status \in {"COMPLETE", "PARTITION"} => u \in whole'
                        /\ u.kind = "nation" /\ cp'[u].status = "PARTITION" => Regional(u.day) \subseteq whole'
                        /\ u.kind = "region" => cp'[u].status \notin {"LEGACY", "EXHAUSTED", "PARTITION"}
                        /\ u.kind # "shop" => cp'[u].status # "LEGACY"
    BY <2>1 DEF Honest, Regional
  <2>3. CASE u = s
    BY <1>1, <1>3, <2>3
  <2>4. CASE u # s
    BY <1>1, <1>3, <2>1, <2>4 DEF MonitorInv, Honest
  <2>5. QED
    BY <2>3, <2>4
<1>8. Honest(cache)'
  BY <1>1 DEF MonitorInv, Honest, Regional
<1>9. RegionsFollow'
  <2>1. SUFFICES ASSUME NEW d \in Days, NEW r \in Regions, cp'[Scope("region", d, r)].status # "NONE"
                 PROVE  cp'[Scope("nation", d, 0)].status # "NONE"
    BY DEF RegionsFollow
  <2>2. /\ Scope("region", d, r) \in Scopes /\ Scope("nation", d, 0) \in Scopes
        /\ Scope("region", d, r) \in Regional(d)
        /\ Scope("region", d, r).kind = "region" /\ Scope("region", d, r).day = d
        /\ Scope("nation", d, 0).kind = "nation" /\ Scope("nation", d, 0).day = d
    BY ScopeOf, Kinds DEF Regional
  <2>3. Scope("region", d, r) # Scope("nation", d, 0)
    BY <2>2
  <2>4. CASE s = Scope("region", d, r)
    BY <1>3, <2>2, <2>3, <2>4
  <2>5. CASE s = Scope("nation", d, 0)
    BY <1>3, <2>1, <2>2, <2>3, <2>5
  <2>6. CASE s # Scope("region", d, r) /\ s # Scope("nation", d, 0)
    BY <1>3, <2>1, <2>2, <2>6 DEF MonitorInv, Ordered, RegionsFollow
  <2>7. QED
    BY <2>4, <2>5, <2>6
<1>10. \A d \in Days : Scope("nation", d, 0) \in Scopes /\ Scope("nation", d, 0).kind = "nation"
                        /\ Scope("nation", d, 0).day = d /\ d \in Int
  BY ScopeOf, Kinds DEF Days
<1>11. DaysFollow'
  <2>1. SUFFICES ASSUME NEW d \in Days, cp'[Scope("nation", d, 0)].status # "NONE"
                 PROVE  /\ d < today'
                        /\ \A e \in Days : cp'[Scope("nation", e, 0)].status # "NONE" /\ d < e =>
                             cp'[Scope("nation", d, 0)].status \in {"COMPLETE", "PARTITION"}
    BY DEF DaysFollow, Done
  <2>2. CASE s = Scope("nation", d, 0)
    <3>1. /\ d < today
          /\ \A e \in Days : cp[Scope("nation", e, 0)].status # "NONE" => e <= d
      BY <1>10, <2>2 DEF LatestDay
    <3>2. ASSUME NEW e \in Days, cp'[Scope("nation", e, 0)].status # "NONE" PROVE ~(d < e)
      <4>1. d < e => Scope("nation", e, 0) # s
        BY <1>10, <2>2
      <4>2. QED
        BY <1>3, <1>10, <3>1, <3>2, <4>1
    <3>3. QED
      BY <1>1, <3>1, <3>2
  <2>3. CASE s # Scope("nation", d, 0)
    <3>1. cp'[Scope("nation", d, 0)] = cp[Scope("nation", d, 0)]
      BY <1>3, <1>10, <2>3
    <3>2. d < today
      BY <2>1, <3>1 DEF MonitorInv, Ordered, DaysFollow
    <3>3. ASSUME NEW e \in Days, cp'[Scope("nation", e, 0)].status # "NONE", d < e
          PROVE  Done(Scope("nation", d, 0))
      <4>1. CASE s = Scope("nation", e, 0)
        BY <1>10, <2>1, <3>1, <3>3, <4>1 DEF LatestDay
      <4>2. CASE s # Scope("nation", e, 0)
        BY <1>3, <1>10, <2>1, <3>1, <3>3, <4>2 DEF MonitorInv, Ordered, DaysFollow
      <4>3. QED
        BY <4>1, <4>2
    <3>4. QED
      BY <1>1, <3>1, <3>2, <3>3 DEF Done
  <2>4. QED
    BY <2>2, <2>3
<1>12. InOrder'
  <2>1. Daily \subseteq Scopes /\ \A u \in Daily : u.day \in Days /\ u.day \in Int /\ u.kind \in {"nation", "region"}
    BY Kinds DEF Daily, Days
  <2>2. SUFFICES ASSUME NEW u \in Daily, NEW v \in Daily, cp'[u].status # "NONE", cp'[v].status # "NONE",
                        u.day < v.day
                 PROVE  cp'[u].at < cp'[v].at
    BY DEF InOrder, Present
  <2>3. CASE v = s
    BY <1>3, <1>5, <2>1, <2>2, <2>3
  <2>4. CASE v # s /\ u = s
    <3>1. cp[v].status # "NONE"
      BY <1>3, <2>1, <2>2, <2>4
    <3>2. v.day <= s.day
      <4>1. s.kind \in {"nation", "region"}
        BY <2>1, <2>4
      <4>2. CASE v.kind = "nation"
        <5>1. v = Scope("nation", v.day, 0)
          BY <2>1, <4>2, Kinds DEF Daily
        <5>2. QED
          BY <2>1, <3>1, <4>1, <5>1 DEF LatestDay
      <4>3. CASE v.kind = "region"
        <5>1. v.part \in Regions /\ v = Scope("region", v.day, v.part)
          BY <4>3, Kinds DEF Daily
        <5>2. cp[Scope("nation", v.day, 0)].status # "NONE"
          BY <2>1, <3>1, <5>1 DEF MonitorInv, Ordered, RegionsFollow
        <5>3. QED
          BY <2>1, <4>1, <5>2 DEF LatestDay
      <4>4. QED
        BY <2>1, <4>2, <4>3
    <3>3. QED
      BY <2>1, <2>2, <2>4, <3>2
  <2>5. CASE v # s /\ u # s
    BY <1>3, <2>1, <2>2, <2>5 DEF MonitorInv, Ordered, InOrder, Present
  <2>6. QED
    BY <2>3, <2>4, <2>5
<1>13. StagesRead' /\ ShownIsTrue' /\ BoundedIsExact'
  BY <1>1 DEF MonitorInv, StagesRead, ShownIsTrue, BoundedIsExact
<1>14. QED
  BY <1>4, <1>6, <1>7, <1>8, <1>9, <1>11, <1>12, <1>13 DEF MonitorInv, Ordered

(* The snapshot that is collected is the latest one, of a past day.        *)
LEMMA SnapshotOf ==
  ASSUME MonitorInv
  PROVE  \E d \in Days : Snapshot = Scope("nation", d, 0) /\ LatestDay(d)
<1> DEFINE done == {d \in Days : Done(Scope("nation", d, 0))}
           T == {0} \cup done
           last == Max(T)
           open == {d \in (last + 1)..(today - 1) : cp[Scope("nation", d, 0)].status # "NONE"}
<1>1. today \in 2..LastDay /\ LastDay \in Nat
  BY MonitorAssumption DEF MonitorInv, Typed
<1>2. IsFiniteSet(0..LastDay) /\ T \subseteq 0..LastDay
  BY <1>1, FS_Interval DEF Days
<1>3. last \in T /\ \A u \in T : u <= last
  <2>1. IsFiniteSet(T)
    BY <1>2, FS_Subset
  <2>2. T # {} /\ T \subseteq Int
    BY <1>2
  <2>3. QED
    BY <2>1, <2>2, MaxOf
<1> HIDE DEF last
<1>10. last \in 0..LastDay /\ last <= today - 1
  <2>1. last \in 0..LastDay
    BY <1>2, <1>3
  <2>2. CASE last = 0
    BY <1>1, <2>2
  <2>3. CASE last # 0
    <3>1. last \in Days /\ Done(Scope("nation", last, 0))
      BY <1>3, <2>3
    <3>2. last < today
      BY <3>1 DEF MonitorInv, Ordered, DaysFollow, Done
    <3>3. QED
      BY <1>1, <2>1, <3>2
  <2>4. QED
    BY <2>1, <2>2, <2>3
<1>11. ASSUME NEW e \in Days, cp[Scope("nation", e, 0)].status # "NONE"
       PROVE  e \in Int /\ e < today /\ (e <= last \/ e \in open)
  <2>1. e \in Int /\ e < today
    BY <1>11 DEF MonitorInv, Ordered, DaysFollow, Days
  <2>2. QED
    BY <1>1, <1>10, <1>11, <2>1
<1>12. ASSUME NEW e \in Days, cp[Scope("nation", e, 0)].status # "NONE", e <= last
       PROVE  Done(Scope("nation", e, 0))
  <2>1. last \in Days /\ Done(Scope("nation", last, 0)) /\ e \in Int
    BY <1>2, <1>3, <1>10, <1>12 DEF Days
  <2>2. CASE e = last
    BY <2>1, <2>2
  <2>3. CASE e < last
    BY <1>12, <2>1, <2>3 DEF MonitorInv, Ordered, DaysFollow, Done
  <2>4. QED
    BY <1>10, <1>12, <2>1, <2>2, <2>3
<1>4. open \subseteq 1..(today - 1) /\ \A e \in open : last < e
  BY <1>1, <1>10
<1>5. open # {} => Min(open) \in open
  <2>1. SUFFICES ASSUME open # {} PROVE Min(open) \in open
    OBVIOUS
  <2>2. IsFiniteSet(1..(today - 1))
    BY <1>1, FS_Interval
  <2>3. IsFiniteSet(open)
    BY <1>4, <2>2, FS_Subset
  <2>4. open \subseteq Int
    BY <1>1, <1>4
  <2>5. QED
    BY <2>1, <2>3, <2>4, MinOf
<1>6. Snapshot = Scope("nation", IF open = {} THEN today - 1 ELSE Min(open), 0)
  BY DEF Snapshot, last
<1>7. (IF open = {} THEN today - 1 ELSE Min(open)) \in 1..(today - 1)
  <2>1. CASE open = {}
    BY <1>1, <2>1
  <2>2. CASE open # {}
    BY <1>4, <1>5, <2>2
  <2>3. QED
    BY <2>1, <2>2
<1>8. 1..(today - 1) \subseteq Days
  BY <1>1 DEF Days
<1>13. \A e \in open : cp[Scope("nation", e, 0)].status # "NONE" /\ ~Done(Scope("nation", e, 0))
  <2>1. ASSUME NEW e \in open, Done(Scope("nation", e, 0)) PROVE FALSE
    <3>1. e \in T /\ last < e /\ e \in Int
      BY <1>4, <1>8, <2>1
    <3>2. QED
      BY <1>3, <1>10, <3>1
  <2>2. QED
    BY <2>1
<1> HIDE DEF open, T
<1> DEFINE d == IF open = {} THEN today - 1 ELSE Min(open)
<1>14. CASE open = {}
  <2>1. d = today - 1 /\ d \in Days
    BY <1>7, <1>8, <1>14
  <2>2. LatestDay(today - 1)
    BY <1>1, <1>11, <1>12, <1>14 DEF LatestDay
  <2>3. QED
    BY <1>6, <2>1, <2>2
<1>15. CASE open # {}
  <2>1. PICK m \in open : m = Min(open)
    BY <1>5, <1>15
  <2>2. m \in Days /\ m \in Int /\ m < today /\ last < m /\ cp[Scope("nation", m, 0)].status # "NONE"
        /\ ~Done(Scope("nation", m, 0))
    BY <1>1, <1>4, <1>8, <1>13, <2>1
  <2>3. ASSUME NEW e \in Days, cp[Scope("nation", e, 0)].status # "NONE"
        PROVE  e <= m /\ (e < m => Done(Scope("nation", e, 0)))
    <3>1. e \in Int /\ ~(m < e)
      BY <1>11, <2>2, <2>3 DEF MonitorInv, Ordered, DaysFollow
    <3>2. e < m => Done(Scope("nation", e, 0))
      BY <2>2, <2>3 DEF MonitorInv, Ordered, DaysFollow
    <3>3. QED
      BY <2>2, <3>1, <3>2
  <2>4. LatestDay(m)
    BY <2>2, <2>3 DEF LatestDay
  <2>5. QED
    BY <1>6, <1>15, <2>1, <2>2, <2>4
<1>9. QED
  BY <1>14, <1>15

LEMMA Writers ==
  ASSUME MonitorInv, WriteShop \/ WriteAidfa \/ WriteNation \/ WriteRegion \/ WriteHistory
  PROVE  MonitorInv'
<1> DEFINE Kept == Statuses \ {"NONE", "LEGACY"}
<1>1. today \in 2..LastDay /\ LastDay \in Nat /\ 1..(today - 1) \subseteq Days
  BY MonitorAssumption DEF MonitorInv, Typed, Days
<1>2. {"RUNNING", "FAILED", "COMPLETE", "INCOMPLETE", "EXHAUSTED", "PARTITION"} \subseteq Kept
  BY DEF Statuses
<1>3. PICK d \in Days : Snapshot = Scope("nation", d, 0) /\ LatestDay(d)
  BY SnapshotOf
<1>4. Snapshot \in Scopes /\ Snapshot.kind = "nation" /\ Snapshot.day = d
  BY <1>3, ScopeOf, Kinds
<1> HIDE DEF Kept
<1> USE DEF Kept
<1>5. CASE WriteShop
  <2>1. PICK e \in 1..(today - 1), to \in {"RUNNING", "FAILED", "COMPLETE"} : Write(Scope("shop", e, 0), to)
    BY <1>5 DEF WriteShop
  <2>2. Scope("shop", e, 0) \in Scopes /\ Scope("shop", e, 0).kind = "shop" /\ to \in Kept
    BY <1>1, <1>2, ScopeOf, Kinds
  <2>3. QED
    BY <2>1, <2>2, WriteStep
<1>6. CASE WriteAidfa
  <2>1. PICK s \in Aidfa, to \in {"RUNNING", "INCOMPLETE", "COMPLETE"} : Write(s, to)
    BY <1>6 DEF WriteAidfa
  <2>2. s \in Scopes /\ s.kind \notin {"region", "nation"} /\ to \in Kept
    BY <1>2, Kinds
  <2>3. QED
    BY <2>1, <2>2, WriteStep
<1>7. CASE WriteHistory
  <2>1. PICK e \in 1..(today - 1), to \in {"RUNNING", "FAILED", "COMPLETE"} : Write(Scope("history", e, 0), to)
    BY <1>7 DEF WriteHistory
  <2>2. Scope("history", e, 0) \in Scopes /\ Scope("history", e, 0).kind = "history" /\ to \in Kept
    BY <1>1, <1>2, ScopeOf, Kinds
  <2>3. QED
    BY <2>1, <2>2, WriteStep
<1>8. CASE WriteNation
  <2>1. PICK to \in {"RUNNING", "FAILED", "EXHAUSTED", "COMPLETE"} : Write(Snapshot, to)
    BY <1>8 DEF WriteNation
  <2>2. to \in Kept /\ to # "PARTITION"
    BY <1>2
  <2>3. QED
    BY <1>3, <1>4, <2>1, <2>2, WriteStep
<1>9. CASE WriteRegion
  <2> DEFINE open == {s \in Regional(Snapshot.day) : ~Done(s)}
  <2>1. cp[Snapshot].status = "EXHAUSTED"
    BY <1>9 DEF WriteRegion
  <2>2. Regional(d) \subseteq Scopes
    BY ScopeOf, Kinds DEF Regional
  <2>3. CASE open = {}
    <3>1. Write(Snapshot, "PARTITION")
      BY <1>9, <2>3 DEF WriteRegion
    <3>2. \A s \in Regional(d) : Done(s) /\ s \in DOMAIN cp
      BY <1>4, <2>2, <2>3 DEF MonitorInv, Typed
    <3>3. Regional(d) \subseteq whole
      BY <3>2 DEF MonitorInv, Honest, Done
    <3>4. "PARTITION" \in Kept
      BY <1>2
    <3>5. QED
      BY <1>3, <1>4, <3>1, <3>3, <3>4, WriteStep
  <2>4. CASE open # {}
    <3> DEFINE s == CHOOSE s \in open : \A t \in open : s.part <= t.part
    <3>1. PICK to \in {"RUNNING", "FAILED", "COMPLETE"} : Write(s, to)
      BY <1>9, <2>4 DEF WriteRegion
    <3>2. s \in open
      <4>1. IsFiniteSet(open)
        BY <1>4, <2>2, ScopesFinite, FS_Subset
      <4>2. \A x \in open : x.part \in Int
        BY <1>4, ScopeOf, MonitorAssumption DEF Regional
      <4> HIDE DEF open
      <4> DEFINE g == [x \in open |-> -x.part]
      <4>3. g \in [open -> Int] /\ \A x \in open : g[x] = -x.part
        BY <4>2
      <4> HIDE DEF g
      <4>4. PICK m \in open : \A u \in open : g[u] <= g[m]
        BY <2>4, <4>1, <4>3, FiniteMax
      <4>5. \A u \in open : m.part <= u.part
        BY <4>2, <4>3, <4>4
      <4>6. QED
        BY <4>5
    <3> HIDE DEF s
    <3>3. s \in Scopes /\ s.kind = "region" /\ s.day = d
      BY <1>4, <2>2, <3>2, ScopeOf DEF Regional
    <3>4. to \in Kept /\ to \notin {"EXHAUSTED", "PARTITION"}
      BY <1>2
    <3>5. QED
      BY <1>3, <2>1, <3>1, <3>3, <3>4, WriteStep
  <2>5. QED
    BY <2>3, <2>4
<1>10. QED
  BY <1>5, <1>6, <1>7, <1>8, <1>9

(* The slot, the calendar and the cache's expiry leave the rows alone.     *)
SlotTyped ==
  /\ slot = NoSlot \/ slot \in [kind : Sources, phase : Phases]
  /\ pending \subseteq Sources /\ run \in [Sources -> Words]

LEMMA SlotMoves ==
  ASSUME MonitorInv,
         \/ \E k \in Sources : Launch(k) \/ Queue(k) \/ Hold(k)
         \/ Publish \/ Phase \/ Report \/ Release \/ Restart
  PROVE  SlotTyped'
<1>0. SlotTyped
  BY DEF MonitorInv, Typed, SlotTyped
<1>1. {"RUNNING", "QUEUED", "WAITING_MEMORY", "COMPLETE", "WAITING_QUOTA", "IDLE"} \subseteq Words
  BY DEF Words, Stages, Statuses, Waits
<1>2. \A k \in Sources : [kind |-> k, phase |-> "running"] \in [kind : Sources, phase : Phases]
  BY DEF Phases
<1>3. ASSUME NEW k \in Sources, Launch(k) \/ Queue(k) \/ Hold(k)
      PROVE  SlotTyped'
  BY <1>0, <1>1, <1>2, <1>3 DEF Launch, Queue, Hold, SlotTyped
<1>4. CASE Publish \/ Report
  BY <1>0, <1>1, <1>4 DEF Publish, Report, SlotTyped, Phases, NoSlot
<1>5. CASE Phase
  BY <1>0, <1>5 DEF Phase, SlotTyped, Phases, NoSlot
<1>6. CASE Release
  <2>1. pending # {} => (CHOOSE k \in pending : TRUE) \in Sources
    BY <1>0 DEF SlotTyped
  <2>2. QED
    BY <1>0, <1>2, <1>6, <2>1 DEF Release, SlotTyped
<1>7. CASE Restart
  BY <1>1, <1>7 DEF Restart, SlotTyped
<1>8. QED
  BY <1>3, <1>4, <1>5, <1>6, <1>7

LEMMA Others ==
  ASSUME MonitorInv,
         \/ \E k \in Sources : Launch(k) \/ Queue(k) \/ Hold(k)
         \/ Publish \/ Phase \/ Report \/ Release \/ Restart \/ Midnight \/ CacheExpires \/ Close
         \/ UNCHANGED vars
  PROVE  MonitorInv'
<1>1. /\ UNCHANGED <<cp, whole>> /\ cache' \in {cache, NoCache} /\ view' \in {view, NoView}
      /\ today' \in 2..LastDay /\ clock' \in Nat /\ clock' >= clock
  BY MonitorAssumption DEF MonitorInv, Typed, Launch, Queue, Hold, Publish, Phase, Report, Release, Restart,
     Midnight, CacheExpires, Close, Counted, vars, rows, child, page
<1>2. SlotTyped'
  <2>1. CASE Midnight \/ CacheExpires \/ Close \/ UNCHANGED vars
    BY <2>1 DEF MonitorInv, Typed, SlotTyped, Midnight, CacheExpires, Close, vars, child
  <2>2. QED
    BY <2>1, SlotMoves
<1>3. NoView \in View /\ NoView.pc = "idle" /\ NoView.earned /\ NoView.exact
  <2>1. [k \in Sources |-> ""] \in [Sources -> Words]
    BY DEF Words
  <2>2. QED
    BY <2>1 DEF View, NoView, Words
<1>4. Typed'
  BY <1>1, <1>2, <1>3 DEF MonitorInv, Typed, SlotTyped
<1>5. Dated'
  BY <1>1 DEF MonitorInv, Typed, Dated, Present, Row
<1>6. Honest(cp)' /\ Ordered'
  <2>1. Honest(cp)' /\ RegionsFollow' /\ InOrder'
    BY <1>1 DEF MonitorInv, Honest, Ordered, RegionsFollow, InOrder, Daily, Present, Regional
  <2>2. today \in Int /\ today' \in Int /\ today' >= today
    BY DEF MonitorInv, Typed, Launch, Queue, Hold, Publish, Phase, Report, Release, Restart,
       Midnight, CacheExpires, Close, vars
  <2>3. \A d \in Days : d \in Int
    BY DEF Days
  <2>4. DaysFollow'
    BY <1>1, <2>2, <2>3 DEF MonitorInv, Ordered, DaysFollow, Done
  <2>5. QED
    BY <2>1, <2>4 DEF Ordered
<1>7. Honest(cache)'
  <2>1. CASE cache' = cache
    BY <1>1, <2>1 DEF MonitorInv, Honest, Regional
  <2>2. CASE cache' = NoCache
    BY <2>2 DEF Honest, NoCache
  <2>3. QED
    BY <1>1, <2>1, <2>2
<1>8. StagesRead' /\ ShownIsTrue' /\ BoundedIsExact'
  BY <1>1, <1>3 DEF MonitorInv, StagesRead, ShownIsTrue, BoundedIsExact
<1>9. QED
  BY <1>4, <1>5, <1>6, <1>7, <1>8 DEF MonitorInv

-----------------------------------------------------------------------------
(* What the bounded reading has of the budget rows: the newest, the        *)
(* complete days, and every row of the day that was collected last by      *)
(* region.                                                                 *)
All == Present(Budget)
Some == Budget \cap Bounded
Triggers(t, S) == {s \in S : Trigger(t, s)}

LEMMA BoundedRows ==
  ASSUME MonitorInv
  PROVE  /\ Bounded \subseteq Scopes /\ Some \subseteq All /\ All \subseteq Budget
         /\ IsFiniteSet(All) /\ \A s \in Bounded : cp[s].status # "NONE"
         /\ All # {} => NewestOf(cp, All) \in Some
         /\ CompleteRows(cp, All) \subseteq Some
         /\ HasPartition(cp, All) => OfDay(All, NewestOf(cp, Triggers(cp, All)).day) \subseteq Some
<1>1. /\ Present(Budget) \subseteq Budget /\ Present(Aidfa) \subseteq Aidfa
      /\ \A S : CompleteRows(cp, S) \subseteq S /\ \A X, d : OfDay(X, d) \subseteq X
  BY DEF Present, CompleteRows, OfDay
<1>2. Budget \cap Aidfa = {}
  BY Kinds
<1>3. Bounded \subseteq All \cup Present(Aidfa)
  BY <1>1 DEF Bounded, SelectedDay, All
<1>4. IsFiniteSet(All) /\ \A s \in All : cp[s].at \in Int
  BY <1>1, Kinds, ScopesFinite, FS_Subset DEF All, MonitorInv, Typed, Row
<1>5. All # {} => NewestOf(cp, All) \in Some
  <2>1. SUFFICES ASSUME All # {} PROVE NewestOf(cp, All) \in Some
    OBVIOUS
  <2>2. PICK m \in All : m = NewestOf(cp, All) /\ \A u \in All : cp[u].at <= cp[m].at
    BY <1>4, <2>1, NewestExists
  <2>3. {u \in All : cp[u].at > cp[m].at} = {}
    BY <1>4, <2>2
  <2>4. Cardinality({u \in All : cp[u].at > cp[m].at}) = 0
    BY <2>3, FS_EmptySet
  <2>5. m \in Bounded
    BY <2>2, <2>4, MonitorAssumption DEF Bounded, All
  <2>6. QED
    BY <1>1, <2>2, <2>5 DEF Some, All
<1>6. CompleteRows(cp, All) \subseteq Some
  BY <1>1 DEF Bounded, Some, All
<1>7. HasPartition(cp, All) => OfDay(All, NewestOf(cp, Triggers(cp, All)).day) \subseteq Some
  <2>1. SUFFICES ASSUME HasPartition(cp, All)
                 PROVE  OfDay(All, NewestOf(cp, Triggers(cp, All)).day) \subseteq Some
    OBVIOUS
  <2>2. SelectedDay(All) \subseteq Bounded
    BY <2>1 DEF Bounded, All
  <2>3. QED
    BY <1>1, <2>2 DEF SelectedDay, Triggers, Some, All
<1>8. QED
  BY <1>1, <1>2, <1>3, <1>4, <1>5, <1>6, <1>7, Kinds DEF Some, All, Present

(* The newest row of the days collected by region and the newest row that  *)
(* tells so are of one day, though the nation's row of that day may be     *)
(* newer and, read again, tell nothing.                                    *)
LEMMA TargetOf ==
  ASSUME MonitorInv, NEW S, S \subseteq All, Triggers(cp, S) # {}
  PROVE  Target(cp, S) = NewestOf(cp, Triggers(cp, S)).day
<1> DEFINE V == Triggers(cp, S)
           m == NewestOf(cp, V)
           U == UNION {OfDay(S, d) : d \in {s.day : s \in V}}
           x == NewestOf(cp, U)
<1>1. /\ All \subseteq Present(Daily) \cup All /\ IsFiniteSet(S) /\ V \subseteq S /\ U \subseteq S
      /\ \A s \in S : cp[s].at \in Int /\ s.day \in Int
      /\ \A s \in S : s.kind \in {"nation", "region"} => s \in Present(Daily)
      /\ \A s \in V : s.kind \in {"nation", "region"}
  <2>1. IsFiniteSet(S) /\ \A s \in S : s \in Budget /\ s \in Scopes /\ cp[s].status # "NONE" /\ s.day \in Days
    BY BoundedRows, FS_Subset, Kinds DEF All, Present
  <2>2. \A s \in S : cp[s].at \in Int /\ s.day \in Int
    BY <2>1 DEF MonitorInv, Typed, Row, Days
  <2>3. V \subseteq S /\ U \subseteq S /\ \A s \in V : s.kind \in {"nation", "region"}
    BY DEF Triggers, Trigger, OfDay
  <2>4. \A s \in S : s.kind \in {"nation", "region"} => s \in Present(Daily)
    BY <2>1 DEF Present, Daily
  <2>5. QED
    BY <2>1, <2>2, <2>3, <2>4
<1>2. m \in V /\ \A u \in V : cp[u].at <= cp[m].at
  <2>1. IsFiniteSet(V) /\ \A s \in V : cp[s].at \in Int
    BY <1>1, FS_Subset
  <2> HIDE DEF V
  <2>2. QED
    BY <2>1, NewestExists DEF V
<1>3. m \in U
  BY <1>1, <1>2 DEF OfDay
<1>4. x \in U /\ \A u \in U : cp[u].at <= cp[x].at
  <2>1. IsFiniteSet(U) /\ U # {} /\ \A s \in U : cp[s].at \in Int
    BY <1>1, <1>3, FS_Subset
  <2> HIDE DEF U
  <2>2. QED
    BY <2>1, NewestExists
<1>5. PICK v \in V : v.day = x.day /\ x.kind \in {"nation", "region"}
  BY <1>4 DEF OfDay
<1>6. /\ m \in Present(Daily) /\ x \in Present(Daily) /\ v \in Present(Daily)
      /\ m.day \in Int /\ x.day \in Int
      /\ cp[m].at \in Int /\ cp[x].at \in Int /\ cp[v].at \in Int
  BY <1>1, <1>2, <1>4, <1>5
<1>7. cp[m].at <= cp[x].at /\ cp[v].at <= cp[m].at
  BY <1>2, <1>3, <1>4, <1>5
<1>8. Target(cp, S) = x.day
  BY DEF Target, Triggers
<1> HIDE DEF m, x
<1>9. ~(x.day < m.day)
  BY <1>6, <1>7 DEF MonitorInv, Ordered, InOrder
<1>10. ~(m.day < x.day)
  BY <1>5, <1>6, <1>7 DEF MonitorInv, Ordered, InOrder
<1>11. QED
  BY <1>6, <1>8, <1>9, <1>10 DEF m

LEMMA SameTarget ==
  ASSUME MonitorInv, NEW t, NEW S, S \subseteq All, Triggers(cp, S) # {}, \A s \in S : t[s] = cp[s]
  PROVE  Target(t, S) = Target(cp, S)
<1> DEFINE U == UNION {OfDay(S, d) : d \in {s.day : s \in {u \in S : Trigger(cp, u)}}}
<1>1. {u \in S : Trigger(t, u)} = {u \in S : Trigger(cp, u)}
  BY DEF Trigger
<1>2. Target(t, S) = NewestOf(t, U).day /\ Target(cp, S) = NewestOf(cp, U).day
  BY <1>1 DEF Target
<1>3. U \subseteq S /\ U # {}
  <2>1. U \subseteq S
    BY DEF OfDay
  <2>2. PICK v \in S : Trigger(cp, v)
    BY DEF Triggers
  <2>3. v \in OfDay(S, v.day)
    BY <2>2 DEF OfDay, Trigger
  <2>4. QED
    BY <2>1, <2>2, <2>3
<1>4. /\ IsFiniteSet(U) /\ \A s \in U : cp[s].at \in Int /\ t[s] = cp[s]
      /\ \A s, u \in U : cp[s].at = cp[u].at => s = u
  <2>1. IsFiniteSet(U)
    BY <1>3, BoundedRows, FS_Subset
  <2>2. U \subseteq All /\ U \subseteq Present(Scopes)
    BY <1>3, Kinds DEF All, Present
  <2> HIDE DEF U
  <2>3. \A s \in U : cp[s].at \in Int /\ t[s] = cp[s]
    BY <1>3, <2>2 DEF MonitorInv, Typed, Row, Present
  <2>4. QED
    BY <2>1, <2>2, <2>3 DEF MonitorInv, Dated
<1> HIDE DEF U
<1>5. NewestOf(cp, U) \in U
  BY <1>3, <1>4, NewestExists
<1>6. NewestOf(t, U) = NewestOf(cp, U)
  BY <1>3, <1>4, <1>5, NewestKept
<1>7. QED
  BY <1>2, <1>6

LEMMA PartitionOf ==
  ASSUME NEW t, NEW S, NEW D, NEW A, OfDay(S, Target(t, S)) = D, ActiveRegions(t, S) = A
  PROVE  PartitionState(t, S) = IF \E s \in D : s.kind = "nation" /\ t[s].status = "PARTITION" THEN "COMPLETE"
                                ELSE IF A = {} THEN (IF Regions = {} THEN "INCOMPLETE" ELSE "PARTIAL")
                                ELSE Label(t[NewestOf(t, A)].status)
BY DEF PartitionState

LEMMA BoundedSame ==
  ASSUME MonitorInv, NEW t, t = [s \in Bounded |-> cp[s]], NEW old
  PROVE  /\ BudgetState(t, Some, old) = BudgetState(cp, All, old)
         /\ CompleteDays(t, Some) = CompleteDays(cp, All)
         /\ HasPartition(cp, All) => CompleteRegions(t, Some) = CompleteRegions(cp, All)
<1>1. /\ Some \subseteq All /\ IsFiniteSet(All) /\ \A s \in Some : t[s] = cp[s]
      /\ \A s \in All : cp[s].at \in Int /\ s \in Scopes
      /\ \A s, u \in All : cp[s].at = cp[u].at => s = u
  BY BoundedRows, Kinds DEF Some, All, Present, MonitorInv, Typed, Row, Dated
<1>2. StateFor(t, Some, old) = StateFor(cp, All, old)
  <2>1. CASE All = {}
    BY <1>1, <2>1 DEF StateFor
  <2>2. CASE All # {}
    <3>1. NewestOf(cp, All) \in Some
      BY <2>2, BoundedRows
    <3>2. NewestOf(t, Some) = NewestOf(cp, All)
      BY <1>1, <2>2, <3>1, NewestKept
    <3>3. Some # {}
      BY <3>1
    <3>4. QED
      BY <1>1, <2>2, <3>1, <3>2, <3>3 DEF StateFor
  <2>3. QED
    BY <2>1, <2>2
<1>3. CompleteDays(t, Some) = CompleteDays(cp, All)
  <2>1. CompleteRows(cp, All) \subseteq Some
    BY BoundedRows
  <2>2. CompleteRows(t, Some) = CompleteRows(cp, All)
    BY <1>1, <2>1 DEF CompleteRows
  <2>3. QED
    BY <2>2 DEF CompleteDays
<1>4. Triggers(t, Some) = Triggers(cp, Some) /\ Triggers(cp, Some) \subseteq Triggers(cp, All)
      /\ Triggers(cp, All) \subseteq All
  BY <1>1 DEF Triggers, Trigger
<1>5. \A v, S : HasPartition(v, S) <=> Triggers(v, S) # {}
  BY DEF HasPartition, Triggers
<1>6. CASE ~HasPartition(cp, All)
  <2>1. ~HasPartition(t, Some)
    BY <1>4, <1>5, <1>6
  <2>2. QED
    BY <1>2, <1>3, <1>6, <2>1 DEF BudgetState
<1>7. CASE HasPartition(cp, All)
  <2> DEFINE T == Triggers(cp, All)
             m == NewestOf(cp, T)
  <2>1. /\ T # {} /\ IsFiniteSet(T) /\ \A s \in T : cp[s].at \in Int
        /\ \A s, u \in T : cp[s].at = cp[u].at => s = u
    BY <1>1, <1>4, <1>5, <1>7, FS_Subset
  <2>2. m \in T
    BY <2>1, NewestExists
  <2>3. OfDay(All, m.day) \subseteq Some
    BY <1>7, BoundedRows
  <2>4. m \in OfDay(All, m.day)
    BY <2>2 DEF OfDay, Triggers, Trigger
  <2>5. m \in Triggers(cp, Some)
    BY <2>2, <2>3, <2>4 DEF Triggers
  <2> HIDE DEF m, T
  <2>6. NewestOf(t, Triggers(t, Some)) = m
    <3>1. Triggers(t, Some) \subseteq T /\ \A s \in Triggers(t, Some) : t[s] = cp[s]
      BY <1>1, <1>4 DEF T, Triggers
    <3>2. NewestOf(cp, T) \in Triggers(t, Some)
      BY <1>4, <2>5 DEF m
    <3>3. QED
      BY <2>1, <3>1, <3>2, NewestKept DEF m
  <2>7. Target(cp, All) = m.day
    BY <2>1, TargetOf DEF m, T
  <2>8. Target(t, Some) = m.day
    <3>1. Target(cp, Some) = NewestOf(cp, Triggers(cp, Some)).day
      BY <1>1, <2>5, TargetOf
    <3>2. NewestOf(cp, Triggers(cp, Some)) = m
      BY <1>4, <2>1, <2>5, NewestKept DEF m, T
    <3>3. Target(t, Some) = Target(cp, Some)
      BY <1>1, <2>5, SameTarget
    <3>4. QED
      BY <3>1, <3>2, <3>3
  <2>9. OfDay(Some, m.day) = OfDay(All, m.day)
    BY <1>1, <2>3 DEF OfDay
  <2> DEFINE D == OfDay(All, m.day)
  <2>10. D \subseteq Some /\ \A s \in D : t[s] = cp[s]
    BY <1>1, <2>3
  <2>11. CompleteRegions(t, Some) = CompleteRegions(cp, All) /\ ActiveRegions(t, Some) = ActiveRegions(cp, All)
    BY <2>7, <2>8, <2>9, <2>10 DEF CompleteRegions, ActiveRegions
  <2> DEFINE A == ActiveRegions(cp, All)
  <2>12. A \subseteq D
    BY <2>7 DEF ActiveRegions
  <2>13. A # {} => NewestOf(t, A) = NewestOf(cp, A) /\ NewestOf(cp, A) \in D
    <3>1. SUFFICES ASSUME A # {} PROVE NewestOf(t, A) = NewestOf(cp, A) /\ NewestOf(cp, A) \in D
      OBVIOUS
    <3>2. A \subseteq All
      BY <1>1, <2>10, <2>12
    <3> HIDE DEF A, D
    <3>3. IsFiniteSet(A) /\ \A s \in A : cp[s].at \in Int /\ t[s] = cp[s]
      BY <1>1, <2>10, <2>12, <3>2, FS_Subset
    <3>4. NewestOf(cp, A) \in A
      BY <3>1, <3>3, NewestExists
    <3>5. NewestOf(t, A) = NewestOf(cp, A)
      BY <1>1, <3>1, <3>2, <3>3, <3>4, NewestKept
    <3>6. QED
      BY <2>12, <3>4, <3>5
  <2>14. PartitionState(t, Some) = PartitionState(cp, All)
    <3> HIDE DEF D
    <3>1. (\E s \in D : s.kind = "nation" /\ t[s].status = "PARTITION")
            <=> \E s \in D : s.kind = "nation" /\ cp[s].status = "PARTITION"
      BY <2>10
    <3>2. A # {} => Label(t[NewestOf(t, A)].status) = Label(cp[NewestOf(cp, A)].status)
      BY <2>10, <2>13
    <3>3. ActiveRegions(t, Some) = A
      BY <2>11
    <3>4. PartitionState(cp, All) = IF \E s \in D : s.kind = "nation" /\ cp[s].status = "PARTITION" THEN "COMPLETE"
                                    ELSE IF A = {} THEN (IF Regions = {} THEN "INCOMPLETE" ELSE "PARTIAL")
                                    ELSE Label(cp[NewestOf(cp, A)].status)
      BY <2>7, PartitionOf DEF D
    <3>5. PartitionState(t, Some) = IF \E s \in D : s.kind = "nation" /\ t[s].status = "PARTITION" THEN "COMPLETE"
                                    ELSE IF A = {} THEN (IF Regions = {} THEN "INCOMPLETE" ELSE "PARTIAL")
                                    ELSE Label(t[NewestOf(t, A)].status)
      <4>1. OfDay(Some, Target(t, Some)) = D
        BY <2>8, <2>9 DEF D
      <4> HIDE DEF A
      <4>2. QED
        BY <3>3, <4>1, PartitionOf
    <3> HIDE DEF A
    <3>6. QED
      BY <3>1, <3>2, <3>4, <3>5
  <2>15. HasPartition(t, Some)
    BY <1>4, <1>5, <2>5
  <2>16. QED
    BY <1>3, <1>7, <2>11, <2>14, <2>15 DEF BudgetState
<1>8. QED
  BY <1>6, <1>7

-----------------------------------------------------------------------------
(* What the page says of a set of honest rows: the words of a stage, and   *)
(* complete only what has been stored.                                     *)
LEMMA LabelOf ==
  \A status \in Statuses :
    /\ Label(status) \in Stages
    /\ Label(status) = "COMPLETE" => status \in {"COMPLETE", "LEGACY", "PARTITION"}
<1>1. ASSUME NEW status \in Statuses
      PROVE  Label(status) \in {"COMPLETE", "INCOMPLETE", status}
  BY DEF Label
<1>2. ASSUME NEW status \in Statuses, Label(status) = "COMPLETE"
      PROVE  status \in {"COMPLETE", "LEGACY", "PARTITION"}
  BY <1>2 DEF Label
<1>3. QED
  BY <1>1, <1>2 DEF Stages, Statuses

LEMMA BudgetOf ==
  ASSUME NEW t, Honest(t), NEW S, S = Budget \cap DOMAIN t, NEW old
  PROVE  /\ BudgetState(t, S, old) \in Stages
         /\ BudgetClaims(t, S, old) \subseteq whole
<1>1. /\ IsFiniteSet(S) /\ S \subseteq Budget /\ S \subseteq DOMAIN t
      /\ \A s \in S : t[s] \in Row /\ t[s].status \in Statuses /\ t[s].at \in Int
  <2>1. Budget \subseteq Scopes
    BY Kinds
  <2>2. IsFiniteSet(S)
    BY <2>1, ScopesFinite, FS_Subset
  <2>3. QED
    BY <2>2 DEF Honest, Row
<1>2. CASE ~HasPartition(t, S)
  <2>1. BudgetState(t, S, old) = StateFor(t, S, old)
    BY <1>2 DEF BudgetState
  <2>2. CASE StateFor(t, S, old) = "COMPLETE"
    <3> DEFINE m == NewestOf(t, S)
    <3>1. m \in S /\ t[m].status \in {"COMPLETE", "LEGACY", "PARTITION"}
      BY <1>1, <2>2, StageOf
    <3>2. BudgetClaims(t, S, old) = {m}
      BY <1>2, <2>1, <2>2 DEF BudgetClaims
    <3> HIDE DEF m
    <3>3. m.kind # "shop"
      BY <1>1, <3>1, Kinds
    <3>4. m \in whole
      BY <1>1, <3>1, <3>3 DEF Honest
    <3>5. QED
      BY <2>1, <2>2, <3>2, <3>4 DEF Stages, Statuses
  <2>3. CASE StateFor(t, S, old) # "COMPLETE"
    <3>1. BudgetClaims(t, S, old) = {}
      BY <2>1, <2>3 DEF BudgetClaims
    <3>2. StateFor(t, S, old) \in Stages
      BY <1>1, StageOf
    <3>3. QED
      BY <2>1, <3>1, <3>2
  <2>4. QED
    BY <2>2, <2>3
<1>3. CASE HasPartition(t, S)
  <2>1. PICK d : d = Target(t, S)
    OBVIOUS
  <2>2. PICK D : D = OfDay(S, d)
    OBVIOUS
  <2>3. PICK A : A = ActiveRegions(t, S)
    OBVIOUS
  <2>4. /\ D \subseteq S /\ \A s \in D : s.day = d
        /\ A \subseteq S /\ \A s \in A : s.kind = "region" /\ t[s].status # "COMPLETE"
    BY <2>1, <2>2, <2>3 DEF OfDay, ActiveRegions
  <2>5. A # {} => NewestOf(t, A) \in A
    BY <1>1, <2>4, FS_Subset, NewestExists
  <2>6. A # {} => /\ Label(t[NewestOf(t, A)].status) \in Stages
                  /\ Label(t[NewestOf(t, A)].status) # "COMPLETE"
    <3>1. SUFFICES ASSUME NEW s \in A
                   PROVE  Label(t[s].status) \in Stages /\ Label(t[s].status) # "COMPLETE"
      BY <2>5
    <3>2. t[s].status \in Statuses \ {"COMPLETE", "LEGACY", "PARTITION"}
      BY <1>1, <2>4 DEF Honest
    <3>3. QED
      BY <3>2, LabelOf
  <2>7. PartitionState(t, S) = IF \E s \in D : s.kind = "nation" /\ t[s].status = "PARTITION" THEN "COMPLETE"
                               ELSE IF A = {} THEN (IF Regions = {} THEN "INCOMPLETE" ELSE "PARTIAL")
                               ELSE Label(t[NewestOf(t, A)].status)
    BY <2>1, <2>2, <2>3, PartitionOf
  <2>8. BudgetState(t, S, old) = PartitionState(t, S)
    BY <1>3 DEF BudgetState
  <2>9. {"COMPLETE", "INCOMPLETE", "PARTIAL"} \subseteq Stages
    BY DEF Stages, Statuses
  <2>10. BudgetState(t, S, old) \in Stages
    BY <2>6, <2>7, <2>8, <2>9
  <2>11. CASE \E s \in D : s.kind = "nation" /\ t[s].status = "PARTITION"
    <3>1. PICK s \in D : s.kind = "nation" /\ t[s].status = "PARTITION"
      BY <2>11
    <3>2. Regional(d) \subseteq whole
      BY <1>1, <2>4, <3>1 DEF Honest
    <3>3. BudgetClaims(t, S, old) \subseteq Regional(d)
      BY <1>3, <2>1 DEF BudgetClaims
    <3>4. QED
      BY <2>10, <3>2, <3>3
  <2>12. CASE ~\E s \in D : s.kind = "nation" /\ t[s].status = "PARTITION"
    <3>1. BudgetState(t, S, old) # "COMPLETE"
      BY <2>6, <2>7, <2>8, <2>12
    <3>2. BudgetClaims(t, S, old) = {}
      BY <3>1 DEF BudgetClaims
    <3>3. QED
      BY <2>10, <3>2
  <2>13. QED
    BY <2>11, <2>12
<1>4. QED
  BY <1>2, <1>3

LEMMA YearsOf ==
  ASSUME NEW t, Honest(t)
  PROVE  /\ CombinedState(YearStates(t)) \in Stages
         /\ CombinedState(YearStates(t)) = "COMPLETE" => Aidfa \subseteq whole
<1>1. PICK states : states = YearStates(t)
  OBVIOUS
<1>2. /\ CombinedState(states) \in Stages
      /\ CombinedState(states) = "COMPLETE" => states = {"COMPLETE"}
  <2>1. states = {"COMPLETE"} \/ states = {"NOT_STARTED"} => (CHOOSE s \in states : TRUE) \in states
    OBVIOUS
  <2>2. QED
    BY <2>1 DEF CombinedState, Stages, Statuses
<1>3. SUFFICES ASSUME states = {"COMPLETE"} PROVE Aidfa \subseteq whole
  BY <1>1, <1>2
<1>4. ASSUME NEW k \in {"appropriation", "future"}
      PROVE  Scope(k, 1, 0) \in whole
  <2>1. PICK A : A = {s \in Aidfa \cap DOMAIN t : s.kind = k}
    OBVIOUS
  <2>2. StateFor(t, A, view.cut) = "COMPLETE"
    BY <1>1, <1>3, <2>1 DEF YearStates
  <2>3. IsFiniteSet(A) /\ \A s \in A : t[s] \in Row
    <3>1. A \subseteq Scopes
      BY <2>1, Kinds
    <3>2. QED
      BY <2>1, <3>1, ScopesFinite, FS_Subset DEF Honest
  <2>4. PICK m \in A : t[m].status \in {"COMPLETE", "LEGACY", "PARTITION"}
    BY <2>2, <2>3, StageOf
  <2>5. m = Scope(k, 1, 0) /\ m.kind # "shop" /\ m \in DOMAIN t
    BY <2>1, Kinds
  <2>6. QED
    BY <2>4, <2>5 DEF Honest
<1>5. QED
  BY <1>4, Kinds

LEMMA DaysOf ==
  ASSUME NEW t, Honest(t)
  PROVE  \A d \in CompleteDays(t, Budget \cap DOMAIN t) :
           whole \cap {Scope("nation", d, 0), Scope("history", d, 0)} # {}
<1>1. TAKE d \in CompleteDays(t, Budget \cap DOMAIN t)
<1>2. PICK s \in Budget \cap DOMAIN t :
        s.kind \in {"nation", "history"} /\ t[s].status = "COMPLETE" /\ s.day = d
  BY DEF CompleteDays, CompleteRows
<1>3. s \in whole
  BY <1>2 DEF Honest
<1>4. s = Scope(s.kind, d, 0)
  BY <1>2, Kinds
<1>5. QED
  BY <1>2, <1>3, <1>4

-----------------------------------------------------------------------------
(* The page, reading by reading.                                           *)
LEMMA ShopRead ==
  ASSUME MonitorInv, ReadShop
  PROVE  MonitorInv'
<1> DEFINE Begun(old, badge) ==
      view' = [NoView EXCEPT !.pc = "budget", !.today = today, !.cut = old, !.shop = badge,
        !.earned = badge = "COMPLETE" => Scope("shop", today - 1, 0) \in whole]
<1>0. PICK old \in 0..clock : Begun(old, ShopBadge(old))
  BY DEF ReadShop
<1>1. PICK badge : badge = ShopBadge(old) /\ Begun(old, badge)
  BY <1>0
<1>2. /\ UNCHANGED <<today, clock, cp, whole, slot, pending, run, cache>> /\ view.pc = "idle"
  BY DEF ReadShop, rows, child
<1>3. today \in Nat /\ clock \in Nat /\ old \in Nat /\ today - 1 \in Days
  <2>1. today \in 2..LastDay /\ clock \in Nat
    BY DEF MonitorInv, Typed
  <2>2. QED
    BY <2>1, MonitorAssumption DEF Days
<1>4. badge \in Stages
  <2>1. StateFor(cp, Present(Shop), old) \in Stages
    <3>1. Present(Shop) \subseteq Scopes /\ \A s \in Present(Shop) : cp[s] \in Row
      BY Kinds DEF Present, MonitorInv, Typed
    <3>2. IsFiniteSet(Present(Shop))
      BY <3>1, ScopesFinite, FS_Subset
    <3>3. QED
      BY <3>1, <3>2, StageOf
  <2>2. "PARTIAL" \in Stages
    BY DEF Stages
  <2>3. QED
    BY <1>1, <2>1, <2>2 DEF ShopBadge
<1>5. badge = "COMPLETE" => Scope("shop", today - 1, 0) \in whole
  <2>1. SUFFICES ASSUME badge = "COMPLETE" PROVE Scope("shop", today - 1, 0) \in whole
    OBVIOUS
  <2>2. Verified(Scope("shop", today - 1, 0))
    BY <1>1, <2>1 DEF ShopBadge
  <2>3. Scope("shop", today - 1, 0) \in DOMAIN cp
    BY <1>3, ScopeOf, Kinds DEF MonitorInv, Typed
  <2>4. QED
    BY <2>2, <2>3 DEF Verified, MonitorInv, Honest
<1>6. /\ view' \in View /\ view'.pc = "budget" /\ view'.shop = badge /\ view'.earned /\ view'.exact
  <2>1. [k \in Sources |-> ""] \in [Sources -> Words] /\ badge \in Words /\ "" \in Words
    BY <1>4 DEF Words
  <2>2. view' = [pc |-> "budget", today |-> today, cut |-> old, shop |-> badge, budget |-> "", aidfa |-> "",
                 earned |-> TRUE, exact |-> TRUE, aged |-> FALSE,
                 runs |-> [k \in Sources |-> ""], taken |-> "none"]
    BY <1>1, <1>5 DEF NoView
  <2>3. QED
    BY <1>3, <2>1, <2>2 DEF View
<1>7. Typed' /\ Dated' /\ Honest(cp)' /\ Honest(cache)' /\ Ordered'
  BY <1>2, <1>6 DEF MonitorInv, Typed, Dated, Honest, Ordered, RegionsFollow, DaysFollow, InOrder, Daily, Done, Present, Regional
<1>8. StagesRead' /\ ShownIsTrue' /\ BoundedIsExact'
  BY <1>4, <1>6 DEF StagesRead, ShownIsTrue, BoundedIsExact
<1>9. QED
  BY <1>7, <1>8 DEF MonitorInv

LEMMA BudgetRead ==
  ASSUME MonitorInv, ReadBudget
  PROVE  MonitorInv'
<1>1. /\ view.pc = "budget" /\ UNCHANGED <<today, clock, cp, whole, slot, pending, run>>
      /\ cache' = IF cache = NoCache THEN [s \in Bounded |-> cp[s]] ELSE cache
  BY DEF ReadBudget, rows, child
<1>2. PICK t : t = cache'
  OBVIOUS
<1>3. Honest(t)
  <2>1. CASE cache = NoCache
    <3>1. DOMAIN t = Bounded /\ \A s \in Bounded : t[s] = cp[s]
      BY <1>1, <1>2, <2>1
    <3>2. Bounded \subseteq DOMAIN cp
      BY BoundedRows DEF MonitorInv, Typed
    <3>3. Honest(cp)
      BY DEF MonitorInv
    <3>4. QED
      BY <3>1, <3>2, <3>3 DEF Honest
  <2>2. CASE cache # NoCache
    BY <1>1, <1>2, <2>2 DEF MonitorInv
  <2>3. QED
    BY <2>1, <2>2
<1>4. PICK S : S = Budget \cap DOMAIN t
  OBVIOUS
<1>5. PICK state, years : state = BudgetState(t, S, view.cut) /\ years = CombinedState(YearStates(t))
  OBVIOUS
<1>6. PICK earned, exact, aged :
        /\ earned = (/\ view.earned /\ BudgetClaims(t, S, view.cut) \subseteq whole
                     /\ years = "COMPLETE" => Aidfa \subseteq whole
                     /\ \A d \in CompleteDays(t, S) :
                          whole \cap {Scope("nation", d, 0), Scope("history", d, 0)} # {})
        /\ exact = (cache # NoCache \/ /\ state = BudgetState(cp, All, view.cut)
                                       /\ CompleteDays(t, S) = CompleteDays(cp, All)
                                       /\ HasPartition(cp, All) =>
                                            CompleteRegions(t, S) = CompleteRegions(cp, All))
        /\ aged = (state = "RUNNING" /\ \A s \in S : t[s].status = "RUNNING" => t[s].at <= view.cut)
  OBVIOUS
<1>7. view' = [view EXCEPT !.pc = "runs", !.cut = 0, !.today = 0, !.budget = state, !.aidfa = years,
                 !.earned = earned, !.exact = exact, !.aged = aged]
  BY <1>2, <1>4, <1>5, <1>6 DEF ReadBudget, All
<1>8. earned \in BOOLEAN /\ exact \in BOOLEAN /\ aged \in BOOLEAN
  BY <1>6
<1>9. earned
  <2>1. BudgetClaims(t, S, view.cut) \subseteq whole
    BY <1>3, <1>4, BudgetOf
  <2>2. years = "COMPLETE" => Aidfa \subseteq whole
    BY <1>3, <1>5, YearsOf
  <2>3. \A d \in CompleteDays(t, S) : whole \cap {Scope("nation", d, 0), Scope("history", d, 0)} # {}
    BY <1>3, <1>4, DaysOf
  <2>4. view.earned
    BY DEF MonitorInv, ShownIsTrue
  <2>5. QED
    BY <1>6, <2>1, <2>2, <2>3, <2>4
<1>10. exact
  <2>1. SUFFICES ASSUME cache = NoCache PROVE exact
    BY <1>6
  <2>2. t = [s \in Bounded |-> cp[s]]
    BY <1>1, <1>2, <2>1
  <2>3. S = Some
    BY <1>4, <2>2 DEF Some
  <2>4. /\ BudgetState(t, Some, view.cut) = BudgetState(cp, All, view.cut)
        /\ CompleteDays(t, Some) = CompleteDays(cp, All)
        /\ HasPartition(cp, All) => CompleteRegions(t, Some) = CompleteRegions(cp, All)
    BY <2>2, BoundedSame
  <2> HIDE <2>2
  <2>5. /\ state = BudgetState(cp, All, view.cut) /\ CompleteDays(t, S) = CompleteDays(cp, All)
        /\ HasPartition(cp, All) => CompleteRegions(t, S) = CompleteRegions(cp, All)
    BY <1>5, <2>3, <2>4
  <2>6. QED
    BY <1>6, <2>5
<1>11. state \in Stages /\ years \in Stages
  BY <1>3, <1>4, <1>5, BudgetOf, YearsOf
<1>12. view \in View /\ view.shop \in Stages /\ view.exact
  BY <1>1 DEF MonitorInv, Typed, StagesRead, BoundedIsExact
<1>13. /\ view' \in View /\ view'.pc = "runs" /\ view'.budget = state /\ view'.aidfa = years
       /\ view'.shop = view.shop /\ view'.earned = earned /\ view'.exact = exact
  <2>1. state \in Words /\ years \in Words
    BY <1>11 DEF Words
  <2>2. QED
    BY <1>7, <1>8, <1>12, <2>1 DEF View
<1>14. Typed' /\ Dated' /\ Honest(cp)' /\ Ordered'
  BY <1>1, <1>13 DEF MonitorInv, Typed, Dated, Honest, Ordered, RegionsFollow, DaysFollow, InOrder, Daily, Done, Present, Regional
<1>15. Honest(cache)'
  BY <1>1, <1>2, <1>3 DEF Honest, Regional
<1>16. StagesRead' /\ ShownIsTrue' /\ BoundedIsExact'
  BY <1>9, <1>10, <1>11, <1>12, <1>13 DEF StagesRead, ShownIsTrue, BoundedIsExact
<1>17. QED
  BY <1>14, <1>15, <1>16 DEF MonitorInv

LEMMA RunsRead ==
  ASSUME MonitorInv, ReadRuns
  PROVE  MonitorInv'
<1>1. /\ view.pc = "runs" /\ view' = [view EXCEPT !.pc = "slot", !.runs = run]
      /\ UNCHANGED <<today, clock, cp, whole, slot, pending, run, cache>>
  BY DEF ReadRuns, rows, child
<1>2. view \in View /\ run \in [Sources -> Words]
  BY DEF MonitorInv, Typed
<1>3. /\ view' \in View /\ view'.pc = "slot" /\ view'.shop = view.shop /\ view'.budget = view.budget
      /\ view'.aidfa = view.aidfa /\ view'.earned = view.earned /\ view'.exact = view.exact
  BY <1>1, <1>2 DEF View
<1>4. Typed' /\ Dated' /\ Honest(cp)' /\ Honest(cache)' /\ Ordered'
  BY <1>1, <1>3 DEF MonitorInv, Typed, Dated, Honest, Ordered, RegionsFollow, DaysFollow, InOrder, Daily, Done, Present, Regional
<1>5. StagesRead' /\ ShownIsTrue' /\ BoundedIsExact'
  BY <1>1, <1>3 DEF MonitorInv, StagesRead, ShownIsTrue, BoundedIsExact
<1>6. QED
  BY <1>4, <1>5 DEF MonitorInv

(* A wait replaces the word of an unfinished stage, and the word of a      *)
(* source in the slot is not one that would let it idle.                   *)
LEMMA WaitingOf ==
  ASSUME NEW stage \in Stages, NEW runState \in Words
  PROVE  /\ Waiting(stage, runState) \in Words
         /\ runState \notin Idle => Waiting(stage, runState) \notin Idle \ {"COMPLETE"}
BY DEF Waiting, Words, Stages, Statuses, Waits, Idle

LEMMA SlotRead ==
  ASSUME MonitorInv, ReadSlot
  PROVE  MonitorInv'
<1>1. /\ view.pc = "slot" /\ UNCHANGED <<today, clock, cp, whole, slot, pending, run, cache>>
  BY DEF ReadSlot, rows, child
<1> DEFINE Finished(runs) ==
      view' = [view EXCEPT !.pc = "shown", !.runs = runs,
        !.shop = IF @ = "PARTIAL" THEN @ ELSE Waiting(@, runs["shopping"]),
        !.budget = Waiting(@, runs["budget"]), !.aidfa = Waiting(@, runs["budget"]),
        !.taken = slot.kind]
<1>0. PICK unclear \in BOOLEAN : Finished(Overridden(unclear))
  BY DEF ReadSlot
<1>2. PICK runs : runs = Overridden(unclear) /\ Finished(runs)
  BY <1>0
<1>3. /\ view \in View /\ view.runs \in [Sources -> Words]
      /\ view.shop \in Stages /\ view.budget \in Stages /\ view.aidfa \in Stages
      /\ slot.kind \in Sources \cup {"none"} /\ view.earned /\ view.exact
  BY <1>1 DEF MonitorInv, Typed, View, StagesRead, NoSlot, ShownIsTrue, BoundedIsExact
<1>4. Transient(unclear) \in Words \ Idle
  <2>1. Transient(unclear) \in {"REAPER_RECOVERY", "WORKER_STATUS_UNKNOWN", "RUNNING", "REAP_PENDING"}
    BY DEF Transient
  <2>2. QED
    BY <2>1 DEF Words, Stages, Statuses, Waits, Idle
<1>5. runs \in [Sources -> Words] /\ (slot.kind \in Sources => runs[slot.kind] \notin Idle)
  BY <1>2, <1>3, <1>4 DEF Overridden
<1>6. PICK shop, budget, aidfa :
        /\ shop = IF view.shop = "PARTIAL" THEN view.shop ELSE Waiting(view.shop, runs["shopping"])
        /\ budget = Waiting(view.budget, runs["budget"]) /\ aidfa = Waiting(view.aidfa, runs["budget"])
  OBVIOUS
<1>7. runs["shopping"] \in Words /\ runs["budget"] \in Words
  BY <1>5 DEF Sources
<1>8. /\ shop \in Words /\ budget \in Words /\ aidfa \in Words
      /\ runs["shopping"] \notin Idle => shop \notin Idle \ {"COMPLETE"}
      /\ runs["budget"] \notin Idle => {budget, aidfa} \cap (Idle \ {"COMPLETE"}) = {}
  <2>1. "PARTIAL" \in Words /\ "PARTIAL" \notin Idle
    BY DEF Words, Stages, Idle
  <2>2. QED
    BY <1>3, <1>6, <1>7, <2>1, WaitingOf
<1>9. /\ view' \in View /\ view'.pc = "shown" /\ view'.shop = shop /\ view'.budget = budget
      /\ view'.aidfa = aidfa /\ view'.runs = runs /\ view'.taken = slot.kind
      /\ view'.earned /\ view'.exact
  BY <1>2, <1>3, <1>5, <1>6, <1>8 DEF View
<1>10. Typed' /\ Dated' /\ Honest(cp)' /\ Honest(cache)' /\ Ordered'
  BY <1>1, <1>9 DEF MonitorInv, Typed, Dated, Honest, Ordered, RegionsFollow, DaysFollow, InOrder, Daily, Done, Present, Regional
<1>11. ShownIsTrue'
  <2>1. SUFFICES ASSUME slot.kind \in Sources
                 PROVE  (IF slot.kind = "shopping" THEN {shop} ELSE {budget, aidfa})
                          \cap (Idle \ {"COMPLETE"}) = {}
    BY <1>3, <1>5, <1>9 DEF ShownIsTrue
  <2>2. CASE slot.kind = "shopping"
    BY <1>5, <1>8, <2>1, <2>2
  <2>3. CASE slot.kind = "budget"
    BY <1>5, <1>8, <2>1, <2>3
  <2>4. QED
    BY <2>1, <2>2, <2>3 DEF Sources
<1>12. StagesRead' /\ BoundedIsExact'
  BY <1>9 DEF StagesRead, BoundedIsExact
<1>13. QED
  BY <1>10, <1>11, <1>12 DEF MonitorInv

-----------------------------------------------------------------------------
LEMMA StepMonitor ==
  ASSUME MonitorInv, [Next]_vars
  PROVE  MonitorInv'
BY Writers, Others, ShopRead, BudgetRead, RunsRead, SlotRead DEF Next

(* The rows, the page and the slot stay in the relation the readings need. *)
THEOREM InvariantHolds ==
  Spec => []MonitorInv
<1>1. Init => MonitorInv
  BY InitMonitor
<1>2. MonitorInv /\ [Next]_vars => MonitorInv'
  BY StepMonitor
<1>3. QED
  BY <1>1, <1>2, PTL DEF Spec

(* What the page shows as complete is stored, and a source whose child     *)
(* holds the slot is not shown as finished or waiting.                     *)
THEOREM ShownIsTrueHolds ==
  Spec => []ShownIsTrue
<1>1. MonitorInv => ShownIsTrue
  BY DEF MonitorInv
<1>2. QED
  BY <1>1, InvariantHolds, PTL

(* Reading a bounded set of rows shows what all rows would have shown.     *)
THEOREM BoundedIsExactHolds ==
  Spec => []BoundedIsExact
<1>1. MonitorInv => BoundedIsExact
  BY DEF MonitorInv
<1>2. QED
  BY <1>1, InvariantHolds, PTL

=============================================================================
