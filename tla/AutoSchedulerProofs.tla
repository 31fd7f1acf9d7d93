------------------------ MODULE AutoSchedulerProofs ------------------------
(***************************************************************************)
(* Proofs about AutoScheduler, for any outcomes of a child and any bounds: *)
(* no wake for a new key is lost or slept through, one source at most is   *)
(* in the worker for the scheduler, and the end of a child starts nothing. *)
(***************************************************************************)
EXTENDS AutoScheduler, SequenceTheorems, FiniteSetTheorems, TLAPS

-----------------------------------------------------------------------------
(* The inductive invariant.                                                *)
Busy(m) == running = m \/ InSeq(m, queue)

Lists ==
  {<<>>, <<"shopping">>, <<"budget">>, <<"shopping", "budget">>, <<"budget", "shopping">>}
Steps ==
  {"off", "grace", "capture", "plan", "due", "request", "publish", "record", "drain", "enter",
   "decide", "loop", "sleep"}
Kinds == Sources \cup {"none", "match"}
LastSlots == [slot : {"none", "now"}, source : Sources, rev : Revs]
Plans == [source : Sources, keyed : BOOLEAN, rev : Revs, reply : {"", "STARTED", "QUEUED"}]

(* TypeOK, with strings, numbers and records apart.                        *)
Control ==
  /\ turn \in Sources /\ terminal \in BOOLEAN /\ wake \in BOOLEAN
  /\ keyPending \in Lists /\ queue \in Lists /\ state \in [Sources -> RunStates]
  /\ running \in Kinds /\ pc \in Steps /\ cycleSlot \in Slots
  /\ owed \subseteq Sources /\ auto \subseteq Sources
Numbers ==
  /\ explicitRev \in Revs /\ obsRev \in Revs /\ completedRev \in Revs
  /\ cycleRev \in Revs \cup {-1} /\ startedRev \in Revs \cup {-1}
  /\ age \in 0..3 /\ ranFor \in 0..RunSlots /\ left \in 0..1 /\ presses \in 0..MaxEvents
Records == last \in LastSlots /\ plan \in Plans

(* What the thread has seen is not newer than what there is, and an event  *)
(* that is set while it waits has one of the two revisions behind it.      *)
Revisions == obsRev <= explicitRev /\ plan.rev <= explicitRev
Waiting ==
  pc \in {"decide", "loop", "sleep"} =>
    obsRev = cycleRev /\ (wake => terminal \/ explicitRev # obsRev)
InSlot == pc \in {"due", "request", "publish", "record"} => cycleSlot = "now"

(* A key that came while its source runs is pending, and one that the      *)
(* thread is about to consume has its source queued or held.               *)
KeysKept ==
  /\ KeyNotForgotten
  /\ \A m \in owed : running = m => InSeq(m, keyPending)
  /\ pc \in {"publish", "record"} /\ plan.keyed /\ explicitRev = plan.rev /\ plan.source \in owed =>
       running # plan.source /\ (InSeq(plan.source, queue) \/ Held(plan.source))

(* What the scheduler has in the worker is there, and nothing is when it   *)
(* may ask for more.                                                       *)
Alone ==
  /\ \A m \in auto : Busy(m)
  /\ pc \notin {"publish", "record", "drain"} => auto = {}
  /\ \E m \in Sources : auto \subseteq {m}

(* A pending key keeps the thread from sleeping, unless something ahead of *)
(* it will wake it: a source in the worker, or memory.                     *)
Slept ==
  pc \in {"loop", "sleep"} /\ left > 0 /\ keyPending # <<>> =>
    wake \/ \E s \in Sources : Held(s) \/ Busy(s)

Inv ==
  /\ Control /\ Numbers /\ Records
  /\ Revisions /\ Waiting /\ InSlot
  /\ KeysKept /\ Alone /\ Slept

LEMMA TypeParts == Control /\ Numbers /\ Records <=> TypeOK
<1>1. Control <=>
        /\ turn \in Sources /\ terminal \in BOOLEAN /\ wake \in BOOLEAN
        /\ keyPending \in Lists /\ queue \in Lists /\ state \in [Sources -> RunStates]
        /\ running \in Kinds /\ pc \in Steps /\ cycleSlot \in Slots
        /\ owed \subseteq Sources /\ auto \subseteq Sources
  BY DEF Control
<1>2. QED
  BY <1>1, Zenon DEF TypeOK, Numbers, Records, Lists, Kinds, Steps, LastSlots, Plans

-----------------------------------------------------------------------------
(* Lists of sources: what is queued and what is pending.                   *)
LEMMA InEmpty == \A n : ~InSeq(n, <<>>)
  BY DEF InSeq

LEMMA InOne == ASSUME NEW x PROVE \A n : InSeq(n, <<x>>) <=> n = x
  BY DEF InSeq

LEMMA InTwo == ASSUME NEW x, NEW y PROVE \A n : InSeq(n, <<x, y>>) <=> n = x \/ n = y
  BY DEF InSeq

LEMMA Tuples ==
  ASSUME NEW x, NEW y
  PROVE  /\ Append(<<>>, x) = <<x>> /\ Append(<<x>>, y) = <<x, y>>
         /\ Head(<<x>>) = x /\ Head(<<x, y>>) = x /\ Tail(<<x>>) = <<>> /\ Tail(<<x, y>>) = <<y>>
         /\ <<x>> # <<>> /\ <<x, y>> # <<>>
<1>1. Append(<<>>, x) = <<x>>
  OBVIOUS
<1>2. Append(<<x>>, y) = <<x, y>>
  <2>1. <<x>> \in Seq({x, y}) /\ <<x, y>> \in Seq({x, y}) /\ Len(<<x>>) = 1 /\ Len(<<x, y>>) = 2
    OBVIOUS
  <2>2. /\ Append(<<x>>, y) \in Seq({x, y}) /\ Len(Append(<<x>>, y)) = 2
        /\ Append(<<x>>, y)[1] = x /\ Append(<<x>>, y)[2] = y
    BY <2>1, AppendProperties
  <2>3. \A i \in 1..Len(<<x, y>>) : Append(<<x>>, y)[i] = <<x, y>>[i]
    BY <2>1, <2>2
  <2>4. QED
    BY <2>1, <2>2, <2>3, SeqEqual
<1>3. Head(<<x>>) = x /\ Head(<<x, y>>) = x
  OBVIOUS
<1>4. Tail(<<x>>) = <<>>
  OBVIOUS
<1>5. Tail(<<x, y>>) = <<y>>
  OBVIOUS
<1>6. <<x>> # <<>> /\ <<x, y>> # <<>>
  OBVIOUS
<1>7. QED
  BY <1>1, <1>2, <1>3, <1>4, <1>5, <1>6

LEMMA Shapes ==
  ASSUME NEW q \in Lists
  PROVE  q = <<>> \/ \E m \in Sources : q = <<m>> \/ q = <<m, Other(m)>>
  BY DEF Lists, Sources, Other

LEMMA ShortLists ==
  ASSUME NEW m \in Sources
  PROVE  /\ <<>> \in Lists /\ <<m>> \in Lists /\ <<m, Other(m)>> \in Lists
         /\ Other(m) \in Sources /\ Other(m) # m
         /\ Sources = {m, Other(m)} /\ Other(Other(m)) = m
  BY DEF Lists, Sources, Other

LEMMA AppendFacts ==
  ASSUME NEW q \in Lists, NEW m \in Sources, ~InSeq(m, q)
  PROVE  /\ Append(q, m) \in Lists /\ Append(q, m) # <<>>
         /\ \A n : InSeq(n, Append(q, m)) <=> InSeq(n, q) \/ n = m
<1>1. <<m>> \in Lists /\ <<Other(m), m>> \in Lists /\ Other(m) \in Sources
  BY ShortLists
<1>2. CASE q = <<>>
  <2>1. Append(q, m) = <<m>> /\ <<m>> # <<>>
    BY <1>2, Tuples
  <2>2. \A n : InSeq(n, <<m>>) <=> n = m
    BY InOne
  <2>3. QED
    BY <1>1, <1>2, <2>1, <2>2, InEmpty
<1>3. CASE q # <<>>
  <2>1. PICK x \in Sources : q = <<x>> \/ q = <<x, Other(x)>>
    BY <1>3, Shapes
  <2>2. x = m \/ x = Other(m)
    BY ShortLists
  <2>3. /\ InSeq(m, <<m>>) /\ InSeq(m, <<m, Other(m)>>)
        /\ InSeq(m, <<Other(m), m>>) /\ Other(Other(m)) = m
    BY InOne, InTwo, ShortLists
  <2>4. q = <<Other(m)>>
    BY <2>1, <2>2, <2>3
  <2>5. Append(q, m) = <<Other(m), m>> /\ <<Other(m), m>> # <<>>
    BY <2>4, Tuples
  <2>6. /\ \A n : InSeq(n, <<Other(m), m>>) <=> n = Other(m) \/ n = m
        /\ \A n : InSeq(n, <<Other(m)>>) <=> n = Other(m)
    BY InOne, InTwo
  <2>7. QED
    BY <1>1, <2>4, <2>5, <2>6
<1>4. QED
  BY <1>2, <1>3

LEMMA WithFacts ==
  ASSUME NEW q \in Lists, NEW m \in Sources
  PROVE  /\ With(m, q) \in Lists /\ InSeq(m, With(m, q))
         /\ \A n : InSeq(n, q) => InSeq(n, With(m, q))
<1>1. CASE InSeq(m, q)
  BY <1>1 DEF With
<1>2. CASE ~InSeq(m, q)
  BY <1>2, AppendFacts DEF With
<1>3. QED
  BY <1>1, <1>2

LEMMA HeadFacts ==
  ASSUME NEW q \in Lists, q # <<>>
  PROVE  /\ Head(q) \in Sources /\ Tail(q) \in Lists
         /\ \A n : InSeq(n, q) <=> n = Head(q) \/ InSeq(n, Tail(q))
<1>1. PICK x \in Sources : q = <<x>> \/ q = <<x, Other(x)>>
  BY Shapes
<1>2. <<>> \in Lists /\ <<Other(x)>> \in Lists
  BY ShortLists
<1>3. CASE q = <<x>>
  <2>1. Head(q) = x /\ Tail(q) = <<>>
    BY <1>3, Tuples
  <2>2. \A n : InSeq(n, <<x>>) <=> n = x
    BY InOne
  <2>3. QED
    BY <1>2, <1>3, <2>1, <2>2, InEmpty
<1>4. CASE q = <<x, Other(x)>>
  <2>1. Head(q) = x /\ Tail(q) = <<Other(x)>>
    BY <1>4, Tuples
  <2>2. /\ \A n : InSeq(n, <<x, Other(x)>>) <=> n = x \/ n = Other(x)
        /\ \A n : InSeq(n, <<Other(x)>>) <=> n = Other(x)
    BY InOne, InTwo
  <2>3. QED
    BY <1>2, <1>4, <2>1, <2>2
<1>5. QED
  BY <1>1, <1>3, <1>4

LEMMA WithoutFacts ==
  ASSUME NEW q \in Lists, NEW m \in Sources
  PROVE  /\ Without(m, q) \in Lists
         /\ \A n \in Sources : InSeq(n, Without(m, q)) <=> InSeq(n, q) /\ n # m
<1>1. /\ <<>> \in Lists /\ <<Other(m)>> \in Lists /\ Other(m) # m
      /\ \A n \in Sources : n = m \/ n = Other(m)
  BY ShortLists
<1>2. CASE InSeq(Other(m), q)
  <2>1. Without(m, q) = <<Other(m)>>
    BY <1>2 DEF Without
  <2>2. \A n : InSeq(n, <<Other(m)>>) <=> n = Other(m)
    BY InOne
  <2>3. QED
    BY <1>1, <1>2, <2>1, <2>2
<1>3. CASE ~InSeq(Other(m), q)
  <2>1. Without(m, q) = <<>>
    BY <1>3 DEF Without
  <2>2. QED
    BY <1>1, <1>3, <2>1, InEmpty
<1>4. QED
  BY <1>2, <1>3

-----------------------------------------------------------------------------
(* Steps of the thread that leave the worker alone.                        *)
LEMMA StartThreadKeeps == ASSUME Inv, StartThread PROVE Inv'
<1>1. /\ pc = "off" /\ pc' = "grace" /\ wake' = FALSE
      /\ UNCHANGED <<turn, presses, explicitRev, terminal, keyPending, last, state,
                     age, startedRev, completedRev, running, queue, ranFor, cycleRev,
                     obsRev, plan, cycleSlot, left, owed, auto>>
  BY DEF StartThread, Go, clock, shoppingVars, worker, thread, history
<1>2. Control'
  BY <1>1 DEF Inv, Control, Steps
<1>3. Numbers' /\ Revisions'
  BY <1>1 DEF Inv, Numbers, Revisions, Revs
<1>4. Records'
  BY <1>1 DEF Inv, Records
<1>5. Waiting' /\ InSlot'
  BY <1>1 DEF Inv, Waiting, InSlot
<1>6. KeysKept'
  BY <1>1 DEF Inv, KeysKept, KeyNotForgotten, Held
<1>7. Alone'
  BY <1>1 DEF Inv, Alone, Busy
<1>8. Slept'
  BY <1>1 DEF Inv, Slept, Held, Busy
<1>9. QED
  BY <1>2, <1>3, <1>4, <1>5, <1>6, <1>7, <1>8 DEF Inv

LEMMA SwallowKeeps == ASSUME Inv, Swallow PROVE Inv'
<1>1. /\ pc = "grace" /\ wake' = FALSE
      /\ UNCHANGED <<turn, presses, explicitRev, terminal, keyPending, last, state,
                     age, startedRev, completedRev, running, queue, ranFor, pc,
                     cycleRev, obsRev, plan, cycleSlot, left, owed, auto>>
  BY DEF Swallow, clock, shoppingVars, worker, thread, history
<1>2. Control'
  BY <1>1 DEF Inv, Control
<1>3. Numbers' /\ Revisions'
  BY <1>1 DEF Inv, Numbers, Revisions, Revs
<1>4. Records'
  BY <1>1 DEF Inv, Records
<1>5. Waiting' /\ InSlot'
  BY <1>1 DEF Inv, Waiting, InSlot
<1>6. KeysKept'
  BY <1>1 DEF Inv, KeysKept, KeyNotForgotten, Held
<1>7. Alone'
  BY <1>1 DEF Inv, Alone, Busy
<1>8. Slept'
  BY <1>1 DEF Inv, Slept, Held, Busy
<1>9. QED
  BY <1>2, <1>3, <1>4, <1>5, <1>6, <1>7, <1>8 DEF Inv

LEMMA GraceEndsKeeps == ASSUME Inv, GraceEnds PROVE Inv'
<1>1. /\ pc = "grace" /\ pc' = "capture"
      /\ UNCHANGED <<turn, presses, explicitRev, terminal, wake, keyPending, last,
                     state, age, startedRev, completedRev, running, queue, ranFor,
                     cycleRev, obsRev, plan, cycleSlot, left, owed, auto>>
  BY DEF GraceEnds, Go, Environment, clock, wakeVars, shoppingVars, worker, history, thread
<1>2. Control'
  BY <1>1 DEF Inv, Control, Steps
<1>3. Numbers' /\ Revisions'
  BY <1>1 DEF Inv, Numbers, Revisions, Revs
<1>4. Records'
  BY <1>1 DEF Inv, Records
<1>5. Waiting' /\ InSlot'
  BY <1>1 DEF Inv, Waiting, InSlot
<1>6. KeysKept'
  BY <1>1 DEF Inv, KeysKept, KeyNotForgotten, Held
<1>7. Alone'
  BY <1>1 DEF Inv, Alone, Busy
<1>8. Slept'
  BY <1>1 DEF Inv, Slept, Held, Busy
<1>9. QED
  BY <1>2, <1>3, <1>4, <1>5, <1>6, <1>7, <1>8 DEF Inv

LEMMA CaptureKeeps == ASSUME Inv, Capture PROVE Inv'
<1>1. /\ pc = "capture" /\ pc' = "plan" /\ cycleSlot' = "none"
      /\ cycleRev' = explicitRev /\ obsRev' = 0 /\ left' = 0
      /\ UNCHANGED <<turn, presses, explicitRev, terminal, wake, keyPending, last,
                     state, age, startedRev, completedRev, running, queue, ranFor,
                     plan, owed, auto>>
  BY DEF Capture, Go, Environment, clock, wakeVars, shoppingVars, worker, history
<1>2. Control'
  BY <1>1 DEF Inv, Control, Steps, Slots
<1>3. Numbers' /\ Revisions'
  <2>1. 0 \in Revs /\ 0 \in 0..1
    BY BoundsAssumption DEF Revs
  <2>2. Numbers'
    BY <1>1, <2>1 DEF Inv, Numbers
  <2>3. obsRev' <= explicitRev' /\ plan'.rev <= explicitRev'
    BY <1>1 DEF Inv, Numbers, Revisions, Revs
  <2>4. QED
    BY <2>2, <2>3 DEF Revisions
<1>4. Records'
  BY <1>1 DEF Inv, Records
<1>5. Waiting' /\ InSlot'
  BY <1>1 DEF Inv, Waiting, InSlot
<1>6. KeysKept'
  BY <1>1 DEF Inv, KeysKept, KeyNotForgotten, Held
<1>7. Alone'
  BY <1>1 DEF Inv, Alone, Busy
<1>8. Slept'
  BY <1>1 DEF Inv, Slept, Held, Busy
<1>9. QED
  BY <1>2, <1>3, <1>4, <1>5, <1>6, <1>7, <1>8 DEF Inv

LEMMA DueKeeps == ASSUME Inv, Due PROVE Inv'
<1>1. /\ pc = "due" /\ pc' \in {"request", "drain"}
      /\ UNCHANGED <<turn, presses, explicitRev, terminal, wake, keyPending, last,
                     state, age, startedRev, completedRev, running, queue, ranFor,
                     cycleRev, obsRev, plan, cycleSlot, left, owed, auto>>
  BY DEF Due, Go, Environment, clock, wakeVars, shoppingVars, worker, history, thread
<1>2. Control'
  BY <1>1 DEF Inv, Control, Steps
<1>3. Numbers' /\ Revisions'
  BY <1>1 DEF Inv, Numbers, Revisions, Revs
<1>4. Records'
  BY <1>1 DEF Inv, Records
<1>5. Waiting' /\ InSlot'
  BY <1>1 DEF Inv, Waiting, InSlot
<1>6. KeysKept'
  BY <1>1 DEF Inv, KeysKept, KeyNotForgotten, Held
<1>7. Alone'
  BY <1>1 DEF Inv, Alone, Busy
<1>8. Slept'
  BY <1>1 DEF Inv, Slept, Held, Busy
<1>9. QED
  BY <1>2, <1>3, <1>4, <1>5, <1>6, <1>7, <1>8 DEF Inv

LEMMA EnterKeeps == ASSUME Inv, Enter PROVE Inv'
<1>1. /\ pc = "enter" /\ pc' = IF explicitRev # cycleRev THEN "capture" ELSE "decide"
      /\ obsRev' = explicitRev /\ terminal' = FALSE /\ wake' = FALSE
      /\ UNCHANGED <<turn, presses, explicitRev, keyPending, last, state, age,
                     startedRev, completedRev, running, queue, ranFor, cycleRev, plan,
                     cycleSlot, left, owed, auto>>
  BY DEF Enter, Go, AwakeBeforeSleep, clock, shoppingVars, worker, history
<1>2. Control'
  BY <1>1 DEF Inv, Control, Steps
<1>3. Numbers' /\ Revisions'
  BY <1>1 DEF Inv, Numbers, Revisions, Revs
<1>4. Records'
  BY <1>1 DEF Inv, Records
<1>5. Waiting' /\ InSlot'
  BY <1>1 DEF Inv, Waiting, InSlot
<1>6. KeysKept'
  BY <1>1 DEF Inv, KeysKept, KeyNotForgotten, Held
<1>7. Alone'
  BY <1>1 DEF Inv, Alone, Busy
<1>8. Slept'
  BY <1>1 DEF Inv, Slept, Held, Busy
<1>9. QED
  BY <1>2, <1>3, <1>4, <1>5, <1>6, <1>7, <1>8 DEF Inv

LEMMA DecideKeeps == ASSUME Inv, Decide PROVE Inv'
<1>1. /\ pc = "decide" /\ pc' = "loop" /\ cycleSlot' = "none" /\ left' \in WaitSlots
      /\ UNCHANGED <<turn, presses, explicitRev, terminal, wake, keyPending, last,
                     state, age, startedRev, completedRev, running, queue, ranFor,
                     cycleRev, obsRev, plan, owed, auto>>
  BY DEF Decide, Go, Environment, clock, wakeVars, shoppingVars, worker, history
<1>2. Control'
  BY <1>1 DEF Inv, Control, Steps, Slots
<1>3. Numbers' /\ Revisions'
  <2>1. left' \in 0..1
    BY <1>1 DEF WaitSlots
  <2>2. QED
    BY <1>1, <2>1 DEF Inv, Numbers, Revisions
<1>4. Records'
  BY <1>1 DEF Inv, Records
<1>5. Waiting' /\ InSlot'
  BY <1>1 DEF Inv, Waiting, InSlot
<1>6. KeysKept'
  BY <1>1 DEF Inv, KeysKept, KeyNotForgotten, Held
<1>7. Alone'
  BY <1>1 DEF Inv, Alone, Busy
<1>8. Slept'
  <2>1. left' > 0 /\ keyPending # <<>> => \E s \in Sources : Held(s)
    BY <1>1 DEF WaitSlots, KeyPrompt
  <2>2. QED
    BY <1>1, <2>1 DEF Slept, Held
<1>9. QED
  BY <1>2, <1>3, <1>4, <1>5, <1>6, <1>7, <1>8 DEF Inv

LEMMA LoopKeeps == ASSUME Inv, Loop PROVE Inv'
<1>1. /\ pc = "loop"
      /\ \/ explicitRev # obsRev /\ pc' = "capture" /\ UNCHANGED <<terminal, wake>>
         \/ explicitRev = obsRev /\ pc' = "decide" /\ terminal' = FALSE /\ wake' = FALSE
         \/ explicitRev = obsRev /\ pc' = "sleep" /\ UNCHANGED <<terminal, wake>>
      /\ UNCHANGED <<turn, presses, explicitRev, keyPending, last, state, age,
                     startedRev, completedRev, running, queue, ranFor, cycleRev,
                     obsRev, plan, cycleSlot, left, owed, auto>>
  BY DEF Loop, Go, EventAfterTerminal, clock, shoppingVars, worker, thread, history
<1>2. Control'
  BY <1>1 DEF Inv, Control, Steps
<1>3. Numbers' /\ Revisions'
  BY <1>1 DEF Inv, Numbers, Revisions, Revs
<1>4. Records'
  BY <1>1 DEF Inv, Records
<1>5. Waiting' /\ InSlot'
  BY <1>1 DEF Inv, Waiting, InSlot
<1>6. KeysKept'
  BY <1>1 DEF Inv, KeysKept, KeyNotForgotten, Held
<1>7. Alone'
  BY <1>1 DEF Inv, Alone, Busy
<1>8. Slept'
  BY <1>1 DEF Inv, Slept, Held, Busy
<1>9. QED
  BY <1>2, <1>3, <1>4, <1>5, <1>6, <1>7, <1>8 DEF Inv

LEMMA SleepKeeps == ASSUME Inv, Sleep PROVE Inv'
<1>1. /\ pc = "sleep" /\ pc' \in {"loop", "capture"}
      /\ UNCHANGED <<turn, presses, explicitRev, terminal, wake, keyPending, last,
                     state, age, startedRev, completedRev, running, queue, ranFor,
                     cycleRev, obsRev, plan, cycleSlot, left, owed, auto>>
  BY DEF Sleep, Go, Environment, clock, wakeVars, shoppingVars, worker, history, thread
<1>2. Control'
  BY <1>1 DEF Inv, Control, Steps
<1>3. Numbers' /\ Revisions'
  BY <1>1 DEF Inv, Numbers, Revisions, Revs
<1>4. Records'
  BY <1>1 DEF Inv, Records
<1>5. Waiting' /\ InSlot'
  BY <1>1 DEF Inv, Waiting, InSlot
<1>6. KeysKept'
  BY <1>1 DEF Inv, KeysKept, KeyNotForgotten, Held
<1>7. Alone'
  BY <1>1 DEF Inv, Alone, Busy
<1>8. Slept'
  BY <1>1 DEF Inv, Slept, Held, Busy
<1>9. QED
  BY <1>2, <1>3, <1>4, <1>5, <1>6, <1>7, <1>8 DEF Inv

-----------------------------------------------------------------------------
(* Fields of a plan and of a slot.                                         *)
LEMMA PlanFields ==
  ASSUME NEW m, NEW k, NEW r, NEW a
  PROVE  LET p == [source |-> m, keyed |-> k, rev |-> r, reply |-> a] IN
         /\ p.source = m /\ p.keyed = k /\ p.rev = r /\ p.reply = a
         /\ m \in Sources /\ k \in BOOLEAN /\ r \in Revs /\ a \in {"", "STARTED", "QUEUED"}
              => p \in Plans
  BY DEF Plans

LEMMA SlotFields ==
  ASSUME NEW sl \in {"none", "now"}, NEW m \in Sources, NEW r \in Revs
  PROVE  [slot |-> sl, source |-> m, rev |-> r] \in LastSlots
  BY DEF LastSlots

LEMMA PlanKeeps == ASSUME Inv, Plan PROVE Inv'
<1>1. /\ pc = "plan" /\ pc' \in {"drain", "due", "request"} /\ cycleSlot' = "now"
      /\ plan' = [source |-> CycleSource, keyed |-> keyPending # <<>>, rev |-> explicitRev,
                  reply |-> ""]
      /\ UNCHANGED <<turn, presses, explicitRev, terminal, wake, keyPending, last,
                     state, age, startedRev, completedRev, running, queue, ranFor,
                     cycleRev, obsRev, left, owed, auto>>
  BY DEF Plan, Go, Environment, clock, wakeVars, shoppingVars, worker, history
<1>2. Control'
  BY <1>1 DEF Inv, Control, Steps, Slots
<1>3. Numbers' /\ Revisions'
  <2>1. plan'.rev = explicitRev
    BY <1>1, PlanFields
  <2>2. explicitRev' = explicitRev /\ obsRev' = obsRev
    BY <1>1
  <2>3. Revisions'
    BY <2>1, <2>2 DEF Inv, Numbers, Revisions, Revs
  <2>4. Numbers'
    BY <1>1 DEF Inv, Numbers
  <2>5. QED
    BY <2>3, <2>4
<1>4. Records'
  <2>1. CycleSource \in Sources
    BY HeadFacts DEF Inv, Control, CycleSource
  <2>2. plan' \in Plans
    BY <1>1, <2>1, PlanFields DEF Inv, Numbers
  <2>3. QED
    BY <1>1, <2>2 DEF Inv, Records
<1>5. Waiting' /\ InSlot'
  BY <1>1 DEF Inv, Waiting, InSlot
<1>6. KeysKept'
  BY <1>1 DEF Inv, KeysKept, KeyNotForgotten, Held
<1>7. Alone'
  BY <1>1 DEF Inv, Alone, Busy
<1>8. Slept'
  BY <1>1 DEF Inv, Slept, Held, Busy
<1>9. QED
  BY <1>2, <1>3, <1>4, <1>5, <1>6, <1>7, <1>8 DEF Inv

LEMMA DrainKeeps == ASSUME Inv, Drain PROVE Inv'
<1>1. /\ pc = "drain" /\ pc' = "enter" /\ running = "none" /\ queue = <<>> /\ plan' = NoPlan
      /\ UNCHANGED <<turn, presses, explicitRev, terminal, wake, keyPending, last,
                     state, age, startedRev, completedRev, running, queue, ranFor,
                     cycleRev, obsRev, cycleSlot, left, owed, auto>>
  BY DEF Drain, Go, Environment, clock, wakeVars, shoppingVars, worker, history, Drained
<1>2. Control'
  BY <1>1 DEF Inv, Control, Steps
<1>3. Numbers' /\ Revisions'
  <2>1. NoPlan.rev = 0
    BY DEF NoPlan
  <2>2. QED
    BY <1>1, <2>1 DEF Inv, Numbers, Revisions, Revs
<1>4. Records'
  <2>1. NoPlan \in Plans
    <3>1. 0 \in Revs /\ "shopping" \in Sources
      BY BoundsAssumption DEF Revs, Sources
    <3>2. QED
      BY <3>1, PlanFields DEF NoPlan
  <2>2. QED
    BY <1>1, <2>1 DEF Inv, Records
<1>5. Waiting' /\ InSlot'
  BY <1>1 DEF Inv, Waiting, InSlot
<1>6. KeysKept'
  BY <1>1 DEF Inv, KeysKept, KeyNotForgotten, Held
<1>7. Alone'
  <2>1. auto = {}
    BY <1>1, InEmpty DEF Inv, Control, Alone, Busy, Sources
  <2>2. QED
    BY <1>1, <2>1 DEF Inv, Alone
<1>8. Slept'
  BY <1>1 DEF Inv, Slept, Held, Busy
<1>9. QED
  BY <1>2, <1>3, <1>4, <1>5, <1>6, <1>7, <1>8 DEF Inv

LEMMA TickKeeps == ASSUME Inv, Tick PROVE Inv'
<1>1. /\ pc \in {"off", "drain", "sleep"} /\ (pc = "sleep" => left > 0)
      /\ turn' = Other(turn) /\ last' = NoSlot /\ cycleSlot' \in {cycleSlot, "past"}
      /\ left' = IF pc = "sleep" THEN left - 1 ELSE left
      /\ age' \in {3} \cup (IF age < 3 THEN {age + 1} ELSE {})
      /\ ranFor' \in {0} \cup (IF ranFor < RunSlots THEN {ranFor + 1} ELSE {})
      /\ UNCHANGED <<presses, explicitRev, terminal, wake, keyPending, state,
                     startedRev, completedRev, running, queue, pc, cycleRev, obsRev,
                     plan, owed, auto>>
  BY DEF Tick, wakeVars, history
<1>2. Control'
  BY <1>1, ShortLists DEF Inv, Control, Slots
<1>3. Numbers' /\ Revisions'
  <2>1. left' \in 0..1 /\ age' \in 0..3 /\ ranFor' \in 0..RunSlots
    <3>1. left' \in 0..1
      BY <1>1 DEF Inv, Numbers
    <3>2. age' \in 0..3
      BY <1>1 DEF Inv, Numbers
    <3>3. ranFor' \in 0..RunSlots
      BY <1>1, BoundsAssumption DEF Inv, Numbers
    <3>4. QED
      BY <3>1, <3>2, <3>3
  <2>2. QED
    BY <1>1, <2>1 DEF Inv, Numbers, Revisions
<1>4. Records'
  <2>1. NoSlot \in LastSlots
    <3>1. 0 \in Revs /\ "shopping" \in Sources /\ "none" \in {"none", "now"}
      BY BoundsAssumption DEF Revs, Sources
    <3>2. QED
      BY <3>1, SlotFields DEF NoSlot
  <2>2. QED
    BY <1>1, <2>1 DEF Inv, Records
<1>5. Waiting' /\ InSlot'
  BY <1>1 DEF Inv, Waiting, InSlot
<1>6. KeysKept'
  BY <1>1 DEF Inv, KeysKept, KeyNotForgotten, Held
<1>7. Alone'
  BY <1>1 DEF Inv, Alone, Busy
<1>8. Slept'
  <2>1. left' > 0 => left > 0
    BY <1>1 DEF Inv, Numbers
  <2>2. QED
    BY <1>1, <2>1 DEF Inv, Slept, Held, Busy
<1>9. QED
  BY <1>2, <1>3, <1>4, <1>5, <1>6, <1>7, <1>8 DEF Inv

LEMMA PublishKeeps == ASSUME Inv, Publish PROVE Inv'
<1>1. /\ pc = "publish" /\ pc' = "record"
      /\ \/ UNCHANGED <<state, startedRev>>
         \/ /\ running = plan.source \/ InSeq(plan.source, queue)
            /\ startedRev' \in {startedRev, explicitRev}
            /\ \E runState \in {"RUNNING", "QUEUED"} : state' = [state EXCEPT ![plan.source] = runState]
      /\ UNCHANGED <<turn, presses, explicitRev, terminal, wake, keyPending, last, age, completedRev,
                     running, queue, ranFor, cycleRev, obsRev, plan, cycleSlot, left, owed, auto>>
  <2>1. /\ pc = "publish" /\ pc' = "record"
        /\ UNCHANGED <<turn, presses, explicitRev, terminal, wake, keyPending, last,
                       running, queue, ranFor, cycleRev, obsRev, plan, cycleSlot, left, owed, auto>>
    BY DEF Publish, Go, clock, wakeVars, worker, thread, history
  <2>2. UNCHANGED <<age, completedRev>>
    BY DEF Publish, PublishStart, shoppingVars
  <2>3. CASE UNCHANGED <<state, shoppingVars>>
    BY <2>1, <2>2, <2>3 DEF shoppingVars
  <2>4. CASE /\ running = plan.source \/ InSeq(plan.source, queue)
             /\ PublishStart(plan.source, IF plan.reply = "STARTED" THEN "RUNNING" ELSE "QUEUED")
    <3>1. PICK runState \in {"RUNNING", "QUEUED"} : PublishStart(plan.source, runState)
      BY <2>4
    <3>2. QED
      BY <2>1, <2>2, <2>4, <3>1 DEF PublishStart
  <2>5. QED
    BY <2>3, <2>4 DEF Publish
<1>2. Control'
  <2>1. state' \in [Sources -> RunStates]
    BY <1>1 DEF Inv, Control, RunStates
  <2>2. QED
    BY <1>1, <2>1 DEF Inv, Control, Steps
<1>3. Numbers' /\ Revisions'
  BY <1>1 DEF Inv, Numbers, Revisions, Revs
<1>4. Records'
  BY <1>1 DEF Inv, Records
<1>5. Waiting' /\ InSlot'
  BY <1>1 DEF Inv, Waiting, InSlot
<1>6. KeysKept'
  <2>1. \A m \in Sources : m # plan.source => (Held(m) => Held(m)')
    BY <1>1 DEF Inv, Control, Held
  <2>2. state' = state \/ running = plan.source \/ InSeq(plan.source, queue)
    BY <1>1
  <2>3. KeyNotForgotten'
    BY <1>1, <2>1, <2>2 DEF Inv, Control, KeysKept, KeyNotForgotten, Held
  <2>4. QED
    BY <1>1, <2>2, <2>3 DEF Inv, KeysKept, Held
<1>7. Alone'
  BY <1>1 DEF Inv, Alone, Busy
<1>8. Slept'
  BY <1>1 DEF Inv, Slept, Held, Busy
<1>9. QED
  BY <1>2, <1>3, <1>4, <1>5, <1>6, <1>7, <1>8 DEF Inv

LEMMA RecordKeeps == ASSUME Inv, Record PROVE Inv'
<1>1. /\ pc = "record" /\ pc' = "drain"
      /\ last' = [slot |-> cycleSlot, source |-> plan.source, rev |-> plan.rev]
      /\ keyPending' = Consumed
      /\ UNCHANGED <<turn, presses, explicitRev, terminal, wake, state, age,
                     startedRev, completedRev, running, queue, ranFor, cycleRev,
                     obsRev, plan, cycleSlot, left, owed, auto>>
  BY DEF Record, Go, clock, shoppingVars, worker, thread, history
<1>2. Control'
  <2>1. plan.source \in Sources
    BY DEF Inv, Records, Plans
  <2>2. keyPending' \in Lists
    BY <1>1, <2>1, WithoutFacts DEF Inv, Control, Consumed
  <2>3. QED
    BY <1>1, <2>2 DEF Inv, Control, Steps
<1>3. Numbers' /\ Revisions'
  BY <1>1 DEF Inv, Numbers, Revisions, Revs
<1>4. Records'
  <2>1. plan.source \in Sources /\ plan.rev \in Revs /\ cycleSlot \in {"none", "now"}
    BY <1>1 DEF Inv, Records, Plans, InSlot
  <2>2. last' \in LastSlots
    BY <1>1, <2>1, SlotFields
  <2>3. QED
    BY <1>1, <2>2 DEF Inv, Records
<1>5. Waiting' /\ InSlot'
  BY <1>1 DEF Inv, Waiting, InSlot
<1>6. KeysKept'
  <2>1. plan.source \in Sources
    BY DEF Inv, Records, Plans
  <2>2. \A m \in Sources : InSeq(m, keyPending) =>
          \/ InSeq(m, keyPending')
          \/ plan.keyed /\ explicitRev = plan.rev /\ m = plan.source
    BY <1>1, <2>1, WithoutFacts DEF Inv, Control, Consumed
  <2>3. \A m \in owed : running = m => InSeq(m, keyPending')
    BY <1>1, <2>2 DEF Inv, Control, KeysKept
  <2>4. KeyNotForgotten'
    BY <1>1, <2>2 DEF Inv, Control, KeysKept, KeyNotForgotten, Held
  <2>5. QED
    BY <1>1, <2>3, <2>4 DEF KeysKept
<1>7. Alone'
  BY <1>1 DEF Inv, Alone, Busy
<1>8. Slept'
  BY <1>1 DEF Inv, Slept, Held, Busy
<1>9. QED
  BY <1>2, <1>3, <1>4, <1>5, <1>6, <1>7, <1>8 DEF Inv

-----------------------------------------------------------------------------
(* Steps of the worker, of its callers, and new keys.                      *)
LEMMA AnswerFacts ==
  ASSUME NEW m
  PROVE  /\ Answer(m) = "FREE" => running = "none" /\ ~InSeq(m, queue)
         /\ Answer(m) = "QUEUED" => running # "none" /\ running # m /\ ~InSeq(m, queue)
  BY DEF Answer

LEMMA ReplyFacts ==
  ASSUME plan \in Plans, NEW a \in {"STARTED", "QUEUED"}, plan' = [plan EXCEPT !.reply = a]
  PROVE  /\ plan' \in Plans
         /\ plan'.source = plan.source /\ plan'.keyed = plan.keyed /\ plan'.rev = plan.rev
  BY DEF Plans

LEMMA RequestKeeps == ASSUME Inv, NEW m \in Sources, Request(m) PROVE Inv'
<1>1. /\ pc = "request" /\ plan.source = m
      /\ UNCHANGED <<turn, presses, explicitRev, terminal, wake, keyPending, last, age,
                     startedRev, completedRev, cycleRev, obsRev, left>>
  BY DEF Request, clock, wakeVars, shoppingVars
<1>2. \/ /\ running = "none" /\ running' = m /\ ranFor' = 0 /\ pc' = "publish"
         /\ plan' = [plan EXCEPT !.reply = "STARTED"] /\ owed' = owed \ {m}
         /\ auto' = auto \cup {m} /\ UNCHANGED <<queue, state, cycleSlot>>
      \/ /\ running # m /\ ~InSeq(m, queue) /\ queue' = Append(queue, m) /\ pc' = "publish"
         /\ plan' = [plan EXCEPT !.reply = "QUEUED"] /\ auto' = auto \cup {m}
         /\ UNCHANGED <<running, ranFor, state, cycleSlot, owed>>
      \/ /\ pc' = "drain" /\ state' \in {state, [state EXCEPT ![m] = "WAITING_MEMORY"]}
         /\ UNCHANGED <<running, queue, ranFor, plan, cycleSlot, owed, auto>>
      \/ /\ pc' = "enter" /\ cycleSlot' = "none"
         /\ UNCHANGED <<running, queue, ranFor, plan, state, owed, auto>>
  BY AnswerFacts DEF Request, Start, Enqueue, Go, worker, history
<1>3. plan' \in Plans /\ plan'.source = m /\ plan'.keyed = plan.keyed /\ plan'.rev = plan.rev
  <2>1. plan \in Plans
    BY DEF Inv, Records
  <2>2. plan' = plan \/ \E a \in {"STARTED", "QUEUED"} : plan' = [plan EXCEPT !.reply = a]
    BY <1>2
  <2>3. QED
    BY <1>1, <2>1, <2>2, ReplyFacts
<1>4. queue' \in Lists /\ (\A n : InSeq(n, queue) => InSeq(n, queue'))
  <2>1. ASSUME queue' = Append(queue, m), ~InSeq(m, queue)
        PROVE  queue' \in Lists /\ \A n : InSeq(n, queue) => InSeq(n, queue')
    BY <2>1, AppendFacts DEF Inv, Control
  <2>2. QED
    BY <1>2, <2>1 DEF Inv, Control
<1>5. Control'
  <2>1. state' \in [Sources -> RunStates]
    BY <1>2 DEF Inv, Control, RunStates
  <2>2. running' \in Kinds /\ pc' \in Steps /\ cycleSlot' \in Slots
    BY <1>2 DEF Inv, Control, Kinds, Steps, Slots
  <2>3. owed' \subseteq Sources /\ auto' \subseteq Sources
    BY <1>2 DEF Inv, Control
  <2>4. QED
    BY <1>1, <1>4, <2>1, <2>2, <2>3 DEF Inv, Control
<1>6. Numbers'
  <2>1. ranFor' \in 0..RunSlots
    BY <1>2, BoundsAssumption DEF Inv, Numbers
  <2>2. QED
    BY <1>1, <2>1 DEF Inv, Numbers
<1>7. Records' /\ Revisions'
  BY <1>1, <1>3 DEF Inv, Records, Revisions
<1>8. Waiting' /\ InSlot' /\ Slept'
  BY <1>1, <1>2 DEF Inv, Waiting, InSlot, Slept
<1>9. KeysKept'
  <2>1. \A n \in Sources : Held(n) => Held(n)'
    BY <1>2 DEF Inv, Control, Held
  <2>2. KeyNotForgotten'
    BY <1>1, <1>2, <1>4, <2>1 DEF Inv, Control, KeysKept, KeyNotForgotten
  <2>3. \A n \in owed' : running' = n => InSeq(n, keyPending')
    BY <1>1, <1>2 DEF Inv, KeysKept
  <2>4. pc' \in {"publish", "record"} /\ m \in owed' => running' # m /\ InSeq(m, queue')
    <3>1. ASSUME queue' = Append(queue, m), ~InSeq(m, queue) PROVE InSeq(m, queue')
      BY <3>1, AppendFacts DEF Inv, Control
    <3>2. QED
      BY <1>2, <3>1
  <2>5. QED
    BY <1>3, <2>2, <2>3, <2>4 DEF KeysKept
<1>10. Alone'
  <2>1. auto = {}
    BY <1>1 DEF Inv, Alone
  <2>2. auto' = {} \/ (pc' = "publish" /\ auto' = {m} /\ Busy(m)')
    <3>1. ASSUME queue' = Append(queue, m), ~InSeq(m, queue) PROVE InSeq(m, queue')
      BY <3>1, AppendFacts DEF Inv, Control
    <3>2. QED
      BY <1>2, <2>1, <3>1 DEF Busy
  <2>3. QED
    BY <2>2 DEF Alone
<1>11. QED
  BY <1>5, <1>6, <1>7, <1>8, <1>9, <1>10 DEF Inv

LEMMA ChildEndsKeeps == ASSUME Inv, ChildEnds PROVE Inv'
<1>1. /\ running # "none" /\ running' = "none" /\ ranFor' = 0 /\ auto' = auto \ {running}
      /\ UNCHANGED <<turn, presses, explicitRev, keyPending, last, startedRev, queue, pc,
                     cycleRev, obsRev, plan, cycleSlot, left, owed>>
  BY DEF ChildEnds, PublishExit, clock, wakeVars, shoppingVars, thread
<1>2. \/ running \notin Sources /\ UNCHANGED <<terminal, wake, state, age, completedRev>>
      \/ /\ running \in Sources /\ terminal' = TRUE /\ wake' = TRUE
         /\ \E outcome \in Outcomes : state' = [state EXCEPT ![running] = outcome]
         /\ \/ UNCHANGED <<age, completedRev>>
            \/ age' = 0 /\ completedRev' = IF startedRev = -1 THEN explicitRev ELSE startedRev
  BY DEF ChildEnds, PublishExit, wakeVars, shoppingVars
<1>3. Control'
  <2>1. state' \in [Sources -> RunStates]
    BY <1>2 DEF Inv, Control, RunStates
  <2>2. terminal' \in BOOLEAN /\ wake' \in BOOLEAN
    BY <1>2 DEF Inv, Control
  <2>3. running' \in Kinds /\ auto' \subseteq Sources
    BY <1>1 DEF Inv, Control, Kinds
  <2>4. QED
    BY <1>1, <2>1, <2>2, <2>3 DEF Inv, Control
<1>4. Numbers'
  <2>1. ranFor' \in 0..RunSlots /\ 0 \in 0..3
    BY <1>1, BoundsAssumption
  <2>2. (IF startedRev = -1 THEN explicitRev ELSE startedRev) \in Revs
    BY DEF Inv, Numbers
  <2>3. age' \in 0..3 /\ completedRev' \in Revs
    BY <1>2, <2>1, <2>2 DEF Inv, Numbers
  <2>4. QED
    BY <1>1, <2>1, <2>3 DEF Inv, Numbers
<1>5. Records' /\ Revisions' /\ InSlot'
  BY <1>1 DEF Inv, Records, Revisions, InSlot
<1>6. Waiting'
  BY <1>1, <1>2 DEF Inv, Waiting
<1>7. KeysKept'
  <2>1. \A m \in Sources : m # running => (Held(m) => Held(m)')
    BY <1>2 DEF Inv, Control, Held
  <2>2. KeyNotForgotten'
    BY <1>1, <2>1 DEF Inv, Control, KeysKept, KeyNotForgotten
  <2>3. \A m \in owed' : running' # m
    BY <1>1 DEF Inv, Control, Sources
  <2>4. ASSUME pc \in {"publish", "record"}, plan.keyed, explicitRev = plan.rev, plan.source \in owed
        PROVE  InSeq(plan.source, queue) \/ state'[plan.source] = "WAITING_MEMORY"
    <3>1. running # plan.source /\ (InSeq(plan.source, queue) \/ Held(plan.source))
      BY <2>4 DEF Inv, KeysKept
    <3>2. QED
      BY <2>1, <2>4, <3>1 DEF Inv, Control, Held
  <2>5. QED
    BY <1>1, <2>2, <2>3, <2>4 DEF KeysKept, Held
<1>8. Alone'
  BY <1>1 DEF Inv, Alone, Busy
<1>9. Slept'
  <2>1. CASE running \in Sources
    BY <1>2, <2>1 DEF Slept
  <2>2. CASE running \notin Sources
    <3>1. \A s \in Sources : (Held(s) => Held(s)') /\ (Busy(s) => Busy(s)')
      BY <1>1, <1>2, <2>2 DEF Held, Busy
    <3>2. wake' = wake
      BY <1>2, <2>2
    <3>3. QED
      BY <1>1, <3>1, <3>2 DEF Inv, Slept
  <2>3. QED
    BY <2>1, <2>2
<1>10. QED
  BY <1>3, <1>4, <1>5, <1>6, <1>7, <1>8, <1>9 DEF Inv

LEMMA PromoteKeeps == ASSUME Inv, Promote PROVE Inv'
<1>1. /\ running = "none" /\ queue # <<>>
      /\ UNCHANGED <<turn, presses, explicitRev, keyPending, last, age, completedRev, ranFor, pc,
                     cycleRev, obsRev, plan, cycleSlot, left>>
  BY DEF Promote, PublishStart, clock, wakeVars, shoppingVars, thread
<1>2. PICK h \in Sources :
        /\ h = Head(queue) /\ Tail(queue) \in Lists
        /\ \A n : InSeq(n, queue) <=> n = h \/ InSeq(n, Tail(queue))
  BY <1>1, HeadFacts DEF Inv, Control
<1>3. \/ /\ running' = h /\ queue' = Tail(queue) /\ owed' = owed \ {h}
         /\ state' = [state EXCEPT ![h] = "RUNNING"] /\ startedRev' \in {startedRev, explicitRev}
         /\ UNCHANGED <<terminal, wake, auto>>
      \/ /\ queue' = <<>> /\ terminal' = TRUE /\ wake' = TRUE
         /\ state' = [s \in Sources |-> IF InSeq(s, queue) THEN "WAITING_MEMORY" ELSE state[s]]
         /\ auto' = {s \in auto : ~InSeq(s, queue)} /\ UNCHANGED <<running, startedRev, owed>>
  BY <1>2 DEF Promote, PublishStart, wakeVars, shoppingVars
<1>4. Control'
  <2>1. state' \in [Sources -> RunStates]
    BY <1>3 DEF Inv, Control, RunStates
  <2>2. running' \in Kinds /\ queue' \in Lists
    BY <1>1, <1>2, <1>3, ShortLists DEF Inv, Control, Kinds
  <2>3. terminal' \in BOOLEAN /\ wake' \in BOOLEAN /\ owed' \subseteq Sources /\ auto' \subseteq Sources
    BY <1>3 DEF Inv, Control
  <2>4. QED
    BY <1>1, <2>1, <2>2, <2>3 DEF Inv, Control
<1>5. Numbers'
  <2>1. startedRev' \in Revs \cup {-1}
    BY <1>3 DEF Inv, Numbers
  <2>2. QED
    BY <1>1, <2>1 DEF Inv, Numbers
<1>6. Records' /\ Revisions' /\ InSlot'
  BY <1>1 DEF Inv, Records, Revisions, InSlot
<1>7. Waiting'
  BY <1>1, <1>3 DEF Inv, Waiting
<1>8. \A n \in Sources : n # h /\ Held(n) => Held(n)'
  BY <1>3 DEF Inv, Control, Held
<1>9. CASE running' = h /\ queue' = Tail(queue) /\ owed' = owed \ {h} /\ UNCHANGED <<wake, auto>>
  <2>1. KeysKept'
    <3>1. KeyNotForgotten'
      BY <1>1, <1>2, <1>8, <1>9 DEF Inv, Control, KeysKept, KeyNotForgotten
    <3>2. \A n \in owed' : running' # n
      BY <1>9
    <3>3. ASSUME pc \in {"publish", "record"}, plan.keyed, explicitRev = plan.rev, plan.source \in owed'
          PROVE  InSeq(plan.source, queue') \/ state'[plan.source] = "WAITING_MEMORY"
      <4>1. InSeq(plan.source, queue) \/ Held(plan.source)
        BY <1>9, <3>3 DEF Inv, KeysKept
      <4>2. QED
        BY <1>2, <1>8, <1>9, <3>3, <4>1 DEF Inv, Control, Held
    <3>4. QED
      BY <1>1, <3>1, <3>2, <3>3 DEF KeysKept, Held
  <2>2. \A n : Busy(n) => Busy(n)' \/ n = "none"
    BY <1>1, <1>2, <1>9 DEF Busy
  <2>3. Alone'
    BY <1>1, <1>9, <2>2 DEF Inv, Control, Alone, Sources
  <2>4. Slept'
    <3>1. Busy(h)'
      BY <1>9 DEF Busy
    <3>2. QED
      BY <1>2, <3>1 DEF Slept
  <2>5. QED
    BY <1>4, <1>5, <1>6, <1>7, <2>1, <2>3, <2>4 DEF Inv
<1>10. CASE /\ queue' = <<>> /\ wake' = TRUE
            /\ state' = [s \in Sources |-> IF InSeq(s, queue) THEN "WAITING_MEMORY" ELSE state[s]]
            /\ auto' = {s \in auto : ~InSeq(s, queue)} /\ UNCHANGED <<running, owed>>
  <2>1. \A n \in Sources : InSeq(n, queue) \/ Held(n) => Held(n)'
    BY <1>10 DEF Held
  <2>2. KeysKept'
    <3>1. KeyNotForgotten'
      BY <1>1, <1>10, <2>1 DEF Inv, Control, KeysKept, KeyNotForgotten
    <3>2. \A n \in owed' : running' # n
      BY <1>1, <1>10 DEF Inv, Control, Sources
    <3>3. ASSUME pc \in {"publish", "record"}, plan.keyed, explicitRev = plan.rev, plan.source \in owed
          PROVE  state'[plan.source] = "WAITING_MEMORY"
      <4>1. InSeq(plan.source, queue) \/ Held(plan.source)
        BY <3>3 DEF Inv, KeysKept
      <4>2. QED
        BY <2>1, <3>3, <4>1 DEF Inv, Control, Held
    <3>4. QED
      BY <1>1, <1>10, <3>1, <3>2, <3>3 DEF KeysKept, Held
  <2>3. Alone'
    BY <1>1, <1>10 DEF Inv, Control, Alone, Busy, Sources
  <2>4. Slept'
    BY <1>10 DEF Slept
  <2>5. QED
    BY <1>4, <1>5, <1>6, <1>7, <2>2, <2>3, <2>4 DEF Inv
<1>11. QED
  BY <1>3, <1>9, <1>10

LEMMA ButtonKeeps == ASSUME Inv, NEW m \in Sources, Button(m) PROVE Inv'
<1>1. /\ explicitRev + presses < MaxEvents /\ presses' = presses + 1
      /\ UNCHANGED <<turn, explicitRev, terminal, wake, keyPending, last, age, completedRev, pc,
                     cycleRev, obsRev, plan, cycleSlot, left, auto>>
  BY DEF Button, Press, MoreEvents, PublishStart, wakeVars, shoppingVars, thread
<1>2. \/ /\ running = "none" /\ running' = m /\ ranFor' = 0 /\ owed' = owed \ {m}
         /\ state' = [state EXCEPT ![m] = "RUNNING"] /\ startedRev' \in {startedRev, explicitRev}
         /\ UNCHANGED queue
      \/ /\ ~InSeq(m, queue) /\ queue' = Append(queue, m)
         /\ state' = [state EXCEPT ![m] = "QUEUED"]
         /\ UNCHANGED <<running, ranFor, startedRev, owed>>
      \/ /\ state' = [state EXCEPT ![m] = "WAITING_MEMORY"]
         /\ UNCHANGED <<running, queue, ranFor, startedRev, owed>>
  BY AnswerFacts DEF Button, PublishStart, Start, Enqueue, worker, shoppingVars
<1>3. /\ queue' \in Lists /\ (\A n : InSeq(n, queue) => InSeq(n, queue'))
      /\ queue' = queue \/ InSeq(m, queue')
  <2>1. ASSUME queue' = Append(queue, m), ~InSeq(m, queue)
        PROVE  queue' \in Lists /\ InSeq(m, queue') /\ \A n : InSeq(n, queue) => InSeq(n, queue')
    BY <2>1, AppendFacts DEF Inv, Control
  <2>2. QED
    BY <1>2, <2>1 DEF Inv, Control
<1>4. Control'
  <2>1. state' \in [Sources -> RunStates]
    BY <1>2 DEF Inv, Control, RunStates
  <2>2. running' \in Kinds /\ owed' \subseteq Sources
    BY <1>2 DEF Inv, Control, Kinds
  <2>3. QED
    BY <1>1, <1>3, <2>1, <2>2 DEF Inv, Control
<1>5. Numbers'
  <2>1. ranFor' \in 0..RunSlots
    BY <1>2, BoundsAssumption DEF Inv, Numbers
  <2>2. startedRev' \in Revs \cup {-1}
    BY <1>2 DEF Inv, Numbers
  <2>3. presses' \in 0..MaxEvents
    BY <1>1, BoundsAssumption DEF Inv, Numbers, Revs
  <2>4. QED
    BY <1>1, <2>1, <2>2, <2>3 DEF Inv, Numbers
<1>6. Records' /\ Revisions' /\ InSlot' /\ Waiting'
  BY <1>1 DEF Inv, Records, Revisions, InSlot, Waiting
<1>7. \A n \in Sources : Busy(n) => Busy(n)'
  BY <1>2, <1>3 DEF Busy, Sources
<1>8. \A n \in Sources : Held(n) => Held(n)' \/ (n = m /\ Busy(m)' /\ (m \notin owed' \/ InSeq(m, queue')))
  BY <1>2, <1>3 DEF Inv, Control, Held, Busy
<1>9. KeysKept'
  <2>1. KeyNotForgotten'
    BY <1>1, <1>2, <1>3, <1>8 DEF Inv, Control, KeysKept, KeyNotForgotten
  <2>2. owed' \subseteq owed /\ \A n \in owed' : running' = n => running = n
    BY <1>2
  <2>3. ASSUME pc \in {"publish", "record"}, plan.keyed, explicitRev = plan.rev, plan.source \in owed'
        PROVE  /\ running' # plan.source
               /\ InSeq(plan.source, queue') \/ state'[plan.source] = "WAITING_MEMORY"
    <3>1. plan.source \in Sources /\ plan.source \in owed
      BY <2>2, <2>3 DEF Inv, Control
    <3>2. running # plan.source /\ (InSeq(plan.source, queue) \/ Held(plan.source))
      BY <2>3, <3>1 DEF Inv, KeysKept
    <3>3. Held(plan.source) => state'[plan.source] = "WAITING_MEMORY" \/ InSeq(plan.source, queue')
      BY <1>8, <2>3, <3>1 DEF Held
    <3>4. QED
      BY <1>3, <2>2, <2>3, <3>2, <3>3
  <2>4. \A n \in owed' : running' = n => InSeq(n, keyPending')
    BY <1>1, <2>2 DEF Inv, KeysKept
  <2>5. QED
    BY <1>1, <2>1, <2>3, <2>4 DEF KeysKept, Held
<1>10. Alone' /\ Slept'
  <2>1. Alone'
    BY <1>1, <1>7 DEF Inv, Control, Alone
  <2>2. \A n \in Sources : Held(n) \/ Busy(n) => \E s \in Sources : Held(s)' \/ Busy(s)'
    BY <1>7, <1>8
  <2>3. Slept'
    BY <1>1, <2>2 DEF Inv, Slept
  <2>4. QED
    BY <2>1, <2>3
<1>11. QED
  BY <1>4, <1>5, <1>6, <1>9, <1>10 DEF Inv

LEMMA MatchButtonKeeps == ASSUME Inv, MatchButton PROVE Inv'
<1>1. /\ explicitRev + presses < MaxEvents /\ presses' = presses + 1
      /\ running = "none" /\ running' = "match" /\ ranFor' = 0
      /\ UNCHANGED <<turn, explicitRev, terminal, wake, keyPending, last, state, age, startedRev,
                     completedRev, queue, pc, cycleRev, obsRev, plan, cycleSlot, left, owed, auto>>
  BY DEF MatchButton, Press, MoreEvents, Start, wakeVars, shoppingVars, thread, history
<1>2. Control'
  BY <1>1 DEF Inv, Control, Kinds
<1>3. Numbers'
  <2>1. presses' \in 0..MaxEvents /\ ranFor' \in 0..RunSlots
    BY <1>1, BoundsAssumption DEF Inv, Numbers, Revs
  <2>2. QED
    BY <1>1, <2>1 DEF Inv, Numbers
<1>4. Records' /\ Revisions' /\ InSlot' /\ Waiting'
  BY <1>1 DEF Inv, Records, Revisions, InSlot, Waiting
<1>5. \A n \in Sources : running # n /\ running' # n
  BY <1>1 DEF Sources
<1>6. KeysKept' /\ Alone' /\ Slept'
  <2>1. KeysKept'
    BY <1>1, <1>5 DEF Inv, Control, KeysKept, KeyNotForgotten, Held
  <2>2. Alone'
    BY <1>1, <1>5 DEF Inv, Control, Alone, Busy
  <2>3. Slept'
    BY <1>1, <1>5 DEF Inv, Slept, Held, Busy
  <2>4. QED
    BY <2>1, <2>2, <2>3
<1>7. QED
  BY <1>2, <1>3, <1>4, <1>6 DEF Inv

LEMMA KeyUpdateKeeps ==
  ASSUME Inv, NEW keys \in SUBSET Sources, KeyUpdate(keys) PROVE Inv'
<1> DEFINE added == IF "shopping" \in keys THEN With("shopping", keyPending) ELSE keyPending
<1>1. /\ explicitRev + presses < MaxEvents /\ explicitRev' = explicitRev + 1 /\ wake' = TRUE
      /\ keyPending' = IF "budget" \in keys THEN With("budget", added) ELSE added
      /\ owed' = owed \cup keys
      /\ UNCHANGED <<turn, presses, terminal, last, state, age, startedRev, completedRev, running,
                     queue, ranFor, pc, cycleRev, obsRev, plan, cycleSlot, left, auto>>
  BY DEF KeyUpdate, MoreEvents, clock, shoppingVars, worker, thread
<1>2. /\ keyPending' \in Lists /\ \A n \in keys : InSeq(n, keyPending')
      /\ \A n : InSeq(n, keyPending) => InSeq(n, keyPending')
  <2>1. keyPending \in Lists /\ "shopping" \in Sources /\ "budget" \in Sources
        /\ \A n \in keys : n \in {"shopping", "budget"}
    BY DEF Inv, Control, Sources
  <2>2. /\ added \in Lists /\ ("shopping" \in keys => InSeq("shopping", added))
        /\ \A n : InSeq(n, keyPending) => InSeq(n, added)
    BY <2>1, WithFacts
  <2> HIDE DEF added
  <2>3. /\ keyPending' \in Lists /\ ("budget" \in keys => InSeq("budget", keyPending'))
        /\ \A n : InSeq(n, added) => InSeq(n, keyPending')
    <3>1. CASE "budget" \in keys
      BY <1>1, <2>1, <2>2, <3>1, WithFacts
    <3>2. CASE "budget" \notin keys
      BY <1>1, <2>2, <3>2
    <3>3. QED
      BY <3>1, <3>2
  <2>4. QED
    BY <2>1, <2>2, <2>3
<1> HIDE DEF added
<1>3. Control'
  BY <1>1, <1>2 DEF Inv, Control
<1>4. /\ explicitRev' \in Revs /\ obsRev < explicitRev' /\ plan.rev < explicitRev'
      /\ plan.rev \in 0..MaxEvents /\ obsRev \in 0..MaxEvents
      /\ obsRev' <= explicitRev' /\ plan'.rev <= explicitRev'
  <2>1. explicitRev \in 0..MaxEvents /\ presses \in 0..MaxEvents /\ obsRev \in 0..MaxEvents
        /\ obsRev <= explicitRev /\ plan.rev <= explicitRev
    BY DEF Inv, Numbers, Revs, Revisions
  <2>2. plan.rev \in 0..MaxEvents
    BY DEF Inv, Records, Plans, Revs
  <2>3. explicitRev' \in 0..MaxEvents /\ obsRev < explicitRev' /\ plan.rev < explicitRev'
    BY <1>1, <2>1, <2>2, BoundsAssumption
  <2>4. obsRev' = obsRev /\ plan' = plan
    BY <1>1
  <2>5. QED
    BY <1>1, <2>1, <2>2, <2>3, <2>4 DEF Revs
<1>5. explicitRev' # plan.rev /\ explicitRev' # obsRev
  BY <1>4, BoundsAssumption
<1>6. Numbers' /\ Revisions'
  BY <1>1, <1>4 DEF Inv, Numbers, Revisions
<1>7. Records' /\ InSlot'
  BY <1>1 DEF Inv, Records, InSlot
<1>8. Waiting'
  BY <1>1, <1>5 DEF Inv, Waiting
<1>9. KeysKept'
  <2>1. KeyNotForgotten'
    BY <1>1, <1>2 DEF Inv, KeysKept, KeyNotForgotten, Held
  <2>2. \A n \in owed' : running' = n => InSeq(n, keyPending')
    BY <1>1, <1>2 DEF Inv, KeysKept
  <2>3. explicitRev' # plan'.rev
    BY <1>1, <1>5
  <2>4. QED
    BY <2>1, <2>2, <2>3 DEF KeysKept
<1>10. Alone' /\ Slept'
  BY <1>1 DEF Inv, Alone, Slept, Busy
<1>11. QED
  BY <1>3, <1>6, <1>7, <1>8, <1>9, <1>10 DEF Inv

-----------------------------------------------------------------------------
LEMMA InitInv == Init => Inv
<1> SUFFICES ASSUME Init PROVE Inv
  OBVIOUS
<1>1. /\ turn \in Sources /\ explicitRev = 0 /\ terminal = FALSE /\ wake = FALSE
      /\ keyPending = <<>> /\ last = NoSlot /\ state = [s \in Sources |-> "IDLE"]
      /\ age = 3 /\ startedRev = -1 /\ completedRev = 0 /\ running = "none" /\ queue = <<>>
      /\ ranFor = 0 /\ pc = "off" /\ cycleRev = -1 /\ obsRev = 0 /\ plan = NoPlan
      /\ cycleSlot = "none" /\ left = 0 /\ owed = {} /\ auto = {} /\ presses = 0
  BY DEF Init
<1>2. 0 \in Revs /\ "shopping" \in Sources /\ <<>> \in Lists /\ 0 \in 0..RunSlots /\ 0 \in 0..MaxEvents
  BY BoundsAssumption DEF Revs, Sources, Lists
<1>3. Control
  <2>1. state \in [Sources -> RunStates]
    BY <1>1 DEF RunStates
  <2>2. QED
    BY <1>1, <1>2, <2>1 DEF Control, Kinds, Steps, Slots
<1>4. Numbers
  BY <1>1, <1>2 DEF Numbers
<1>5. Records /\ NoPlan.rev = 0
  <2>1. NoSlot \in LastSlots
    BY <1>2, SlotFields DEF NoSlot
  <2>2. NoPlan \in Plans /\ NoPlan.rev = 0
    BY <1>2, PlanFields DEF NoPlan
  <2>3. QED
    BY <1>1, <2>1, <2>2 DEF Records
<1>6. Revisions
  <2>1. obsRev = 0 /\ plan.rev = 0 /\ explicitRev = 0
    BY <1>1, <1>5
  <2>2. QED
    BY <2>1 DEF Revisions
<1>7. Waiting /\ InSlot /\ KeysKept /\ Slept
  BY <1>1 DEF Waiting, InSlot, KeysKept, KeyNotForgotten, Slept
<1>8. Alone
  BY <1>1, <1>2 DEF Alone
<1>9. QED
  BY <1>3, <1>4, <1>5, <1>6, <1>7, <1>8 DEF Inv

LEMMA NextKeeps == Inv /\ [Next]_vars => Inv'
<1> SUFFICES ASSUME Inv, [Next]_vars PROVE Inv'
  OBVIOUS
<1>1. CASE StartThread \/ Swallow \/ GraceEnds \/ Capture
  BY <1>1, StartThreadKeeps, SwallowKeeps, GraceEndsKeeps, CaptureKeeps
<1>2. CASE Plan \/ Due \/ Publish \/ Record \/ Drain
  BY <1>2, PlanKeeps, DueKeeps, PublishKeeps, RecordKeeps, DrainKeeps
<1>3. CASE Enter \/ Decide \/ Loop \/ Sleep \/ Tick
  BY <1>3, EnterKeeps, DecideKeeps, LoopKeeps, SleepKeeps, TickKeeps
<1>4. ASSUME NEW m \in Sources, Request(m) PROVE Inv'
  BY <1>4, RequestKeeps
<1>5. CASE ChildEnds \/ Promote \/ MatchButton
  BY <1>5, ChildEndsKeeps, PromoteKeeps, MatchButtonKeeps
<1>6. ASSUME NEW m \in Sources, Button(m) PROVE Inv'
  BY <1>6, ButtonKeeps
<1>7. ASSUME NEW keys \in SUBSET Sources \ {{}}, KeyUpdate(keys) PROVE Inv'
  BY <1>7, KeyUpdateKeeps
<1>8. CASE UNCHANGED vars
  <2>1. UNCHANGED <<turn, presses, explicitRev, terminal, wake, keyPending, last, state, age,
                    startedRev, completedRev, running, queue, ranFor, pc, cycleRev, obsRev, plan,
                    cycleSlot, left, owed, auto>>
    BY <1>8 DEF vars, clock, wakeVars, shoppingVars, worker, thread, history
  <2>2. Control' /\ Numbers' /\ Records' /\ Revisions' /\ Waiting' /\ InSlot'
    BY <2>1 DEF Inv, Control, Numbers, Records, Revisions, Waiting, InSlot
  <2>3. KeysKept' /\ Alone' /\ Slept'
    BY <2>1 DEF Inv, KeysKept, KeyNotForgotten, Held, Alone, Busy, Slept
  <2>4. QED
    BY <2>2, <2>3 DEF Inv
<1>9. QED
  BY <1>1, <1>2, <1>3, <1>4, <1>5, <1>6, <1>7, <1>8 DEF Next, Thread

LEMMA InvHolds == Spec => []Inv
  BY InitInv, NextKeeps, PTL DEF Spec

LEMMA WakesFollow == Inv => WakesAreKept
<1> SUFFICES ASSUME Inv PROVE WakesAreKept
  OBVIOUS
<1>1. TypeOK
  BY TypeParts DEF Inv
<1>2. KeyNotForgotten
  BY DEF Inv, KeysKept
<1>3. KeyNeverSleeps
  <2>1. \A s \in Sources : Busy(s) => ~Drained
    BY InEmpty DEF Busy, Drained, Sources
  <2>2. QED
    BY <2>1 DEF Inv, Slept, KeyNeverSleeps
<1>4. OneAutomaticChild
  <2>1. PICK m \in Sources : auto \subseteq {m}
    BY DEF Inv, Alone
  <2>2. auto = {} \/ auto = {m}
    BY <2>1
  <2>3. Cardinality({}) = 0 /\ Cardinality({m}) = 1
    BY FS_EmptySet, FS_Singleton
  <2>4. QED
    BY <2>2, <2>3 DEF OneAutomaticChild
<1>5. QED
  BY <1>1, <1>2, <1>3, <1>4 DEF WakesAreKept

(* A new key is never forgotten nor slept through, and no automatic batch  *)
(* has both sources in the worker, whenever keys, buttons, ends of         *)
(* children, launch holds and deadlines fall.                              *)
THEOREM WakesAreKeptHolds == Spec => []WakesAreKept
  BY InvHolds, WakesFollow, PTL

(* The end of a child starts no cycle: a cycle begins after the grace, for *)
(* an explicit wake the last cycle had not seen, or when the time is over. *)
THEOREM TerminalStartsNothingHolds == Spec => TerminalStartsNothing
<1> DEFINE A == pc' = "capture" /\ pc # "capture" => pc = "grace" \/ explicitRev # cycleRev \/ left = 0
<1>1. Inv /\ [Next]_vars => A
  <2> SUFFICES ASSUME Inv, [Next]_vars, pc' = "capture", pc # "capture"
               PROVE  pc = "grace" \/ explicitRev # cycleRev \/ left = 0
    OBVIOUS
  <2>1. CASE GraceEnds
    BY <2>1 DEF GraceEnds
  <2>2. CASE Enter
    BY <2>2 DEF Enter, Go, AwakeBeforeSleep
  <2>3. CASE Loop
    BY <2>3 DEF Loop, Go, Inv, Waiting
  <2>4. CASE Sleep
    BY <2>4 DEF Sleep, Go, Inv, Control, Waiting
  <2>5. CASE StartThread \/ Capture \/ Plan \/ Due \/ Publish \/ Record \/ Drain \/ Decide
    BY <2>5 DEF StartThread, Capture, Plan, Due, Publish, Record, Drain, Decide, Go
  <2>6. CASE Swallow \/ ChildEnds \/ Promote \/ Tick \/ MatchButton
    BY <2>6 DEF Swallow, ChildEnds, Promote, Tick, MatchButton
  <2>7. ASSUME NEW m \in Sources, Request(m) PROVE FALSE
    BY <2>7 DEF Request, Go
  <2>8. ASSUME NEW m \in Sources, Button(m) PROVE FALSE
    BY <2>8 DEF Button
  <2>9. ASSUME NEW keys \in SUBSET Sources \ {{}}, KeyUpdate(keys) PROVE FALSE
    BY <2>9 DEF KeyUpdate
  <2>10. CASE UNCHANGED vars
    BY <2>10 DEF vars
  <2>11. QED
    BY <2>1, <2>2, <2>3, <2>4, <2>5, <2>6, <2>7, <2>8, <2>9, <2>10 DEF Next, Thread
<1>2. QED
  BY InvHolds, <1>1, PTL DEF Spec, TerminalStartsNothing

=============================================================================
