--------------------------- MODULE MCServiceProofs ---------------------------
(***************************************************************************)
(* Proofs about the parts of MCService, which share no state: what is true *)
(* of a part is true of the whole.  They hold for any number of processes, *)
(* snapshots and sections, any calendar and any retention, and for any     *)
(* sources, launches, memory sizes, pages and faults of the gate.          *)
(***************************************************************************)
EXTENDS MCService, TLAPS

(* The counter is the count of its own date, and no later date has any,    *)
(* until somebody reserves under a date that is over.                      *)
Lost == {"nothing", "container", "member", "tag", "rows"}
Request ==
  [pc : Labels, service : Services, attempt : 0..Retries, date : 0..LastDay, used : Nat,
   successes : Nat, page : [kind : {"page", "none", "hold", "final", "retry"}, lost : Lost]]
RequestTyped ==
  /\ today \in Days /\ source \in Sources /\ stale \in BOOLEAN
  /\ counter \in [date : 0..LastDay, count : 0..Limit] /\ sent \in [Days -> Nat]
  /\ ctx \in [Procs -> [limit : 0..MaxPermits, used : 0..MaxPermits, successes : Nat]]
  /\ req \in [Procs -> Request]
  /\ \A p \in Procs : ctx[p].used <= ctx[p].limit /\ (At(p, "take") => req[p].date \in 1..today)

CountedByDay ==
  ~stale => /\ counter.date <= today /\ \A d \in Days : d > counter.date => sent[d] = 0
            /\ \A d \in Days : sent[d] <= Limit /\ (d = counter.date => sent[d] = counter.count)

(* A request between its context's counts, and the page it brings.         *)
Asking == {"attempt", "take", "wait", "parsed"}
Whole(page, parser, s) ==
  \/ page.lost = "nothing"
  \/ page.lost = "container" /\ parser = "legacy"
  \/ page.lost = "member"
  \/ page.lost = "tag" /\ s # "SHOPPING"
Genuine(p) ==
  /\ req[p].pc \in Asking =>
       /\ ctx[p].successes = req[p].successes /\ ctx[p].used >= req[p].used
       /\ req[p].service \in ServicesOf(source)
  /\ req[p].pc \in {"take", "wait", "parsed"} => ctx[p].used > req[p].used
  /\ req[p].pc = "parsed" => Whole(req[p].page, Parser(p), req[p].service)
  /\ req[p].pc = "attest" =>
       /\ Attested(p) /\ req[p].service \in ServicesOf(source)
       /\ Whole(req[p].page, Parser(p), req[p].service)

RequestInv == RequestTyped /\ CountedByDay /\ \A p \in Procs : Genuine(p)

-----------------------------------------------------------------------------
(* Of every envelope, each parser keeps every row, refuses, or loses rows  *)
(* in one of the three ways the properties name.                           *)
LEMMA ParsedIsWhole ==
  ASSUME NEW s \in Services, NEW e \in Envelope, NEW b \in Parsers, Parse(s, e, b).kind = "page"
  PROVE  /\ Whole(Parse(s, e, b), b, s)
         /\ Parse(s, e, b) \in [kind : {"page"}, lost : Lost]
<1> DEFINE n == IF ~LofinRows(e) THEN 0 ELSE IF e.second = "sibling" THEN 2 ELSE 1
<1>1. Error("retry").kind # "page" /\ Error("final").kind # "page" /\ Error("hold").kind # "page"
  BY DEF Error
<1>2. Refusal(e, b).kind # "page" /\ ApiError(e.code).kind # "page"
  BY <1>1 DEF Refusal, ApiError
<1>3. \A m \in {0, 1, 2} : Page(e, m) \in [kind : {"page"}, lost : Lost]
  BY DEF Page, Lost
<1>4. ~Refused(e, b) => /\ e.form \in {"json", "xml"}
                        /\ e.second # "no" => b = "legacy"
  BY DEF Refused, Parsers, Envelope
<1>5. ASSUME NEW m \in {0, 1, 2}, ~Refused(e, b),
             \/ e.second # "no" \/ m = Carried(e)
             \/ e.items = "beside" /\ e.form = "json"
             \/ e.items # "rows" /\ e.form = "xml" /\ s # "SHOPPING"
      PROVE  Whole(Page(e, m), b, s)
  BY <1>4, <1>5 DEF Page, Whole
<1>6. CASE s = "SHOPPING"
  <2>1. Parse(s, e, b) = ParseShopping(e, b)
    BY <1>6 DEF Parse
  <2>2. /\ ~Refused(e, b) /\ e.body
        /\ \/ EmptyShape(e) /\ Parse(s, e, b) = Page(e, 0)
           \/ e.items = "rows" /\ Parse(s, e, b) = Page(e, 1)
           \/ e.items = "beside" /\ e.form = "json" /\ Parse(s, e, b) = Page(e, 1)
    BY <1>1, <1>2, <2>1 DEF ParseShopping
  <2>3. CASE EmptyShape(e) /\ Parse(s, e, b) = Page(e, 0)
    <3>1. Carried(e) = 0
      BY <2>2, <2>3 DEF EmptyShape, Carried
    <3>2. QED
      BY <1>3, <1>5, <2>2, <2>3, <3>1
  <2>4. CASE e.items = "rows" /\ Parse(s, e, b) = Page(e, 1)
    <3>1. e.second = "no" => Carried(e) = 1
      BY <2>2, <2>4 DEF Carried
    <3>2. QED
      BY <1>3, <1>5, <2>2, <2>4, <3>1
  <2>5. CASE e.items = "beside" /\ e.form = "json" /\ Parse(s, e, b) = Page(e, 1)
    BY <1>3, <1>5, <2>2, <2>5
  <2>6. QED
    BY <2>2, <2>3, <2>4, <2>5
<1>7. CASE s # "SHOPPING"
  <2>1. Parse(s, e, b) = ParseLofin(e, b)
    BY <1>7 DEF Parse
  <2>2. /\ ~Refused(e, b) /\ e.form \in {"json", "xml"}
        /\ \/ ~e.body /\ Parse(s, e, b) = Page(e, 0)
           \/ e.body /\ e.code = "nodata" /\ ~LofinRows(e) /\ Parse(s, e, b) = Page(e, 0)
              /\ ~(e.items = "mixed" /\ e.form = "json")
           \/ /\ e.body /\ e.code # "nodata" /\ ~(e.items \in {"absent", "mixed"} /\ e.form = "json")
              /\ Parse(s, e, b) = Page(e, n)
    BY <1>1, <1>2, <1>4, <2>1 DEF ParseLofin
  <2>3. CASE ~e.body /\ Parse(s, e, b) = Page(e, 0)
    <3>1. Carried(e) = 0
      BY <2>3 DEF Carried
    <3>2. QED
      BY <1>3, <1>5, <2>2, <2>3, <3>1
  <2>4. CASE /\ e.body /\ e.code = "nodata" /\ ~LofinRows(e) /\ Parse(s, e, b) = Page(e, 0)
             /\ ~(e.items = "mixed" /\ e.form = "json")
    <3>1. e.items \notin {"rows", "mixed", "beside"}
      BY <2>2, <2>4 DEF LofinRows
    <3>2. Carried(e) = 0
      BY <2>4, <3>1 DEF Carried
    <3>3. QED
      BY <1>3, <1>5, <2>2, <2>4, <3>2
  <2>5. CASE /\ e.body /\ e.code # "nodata" /\ ~(e.items \in {"absent", "mixed"} /\ e.form = "json")
             /\ Parse(s, e, b) = Page(e, n)
    <3>1. n \in {0, 1, 2} /\ Parse(s, e, b) \in [kind : {"page"}, lost : Lost]
      BY <1>3, <2>5
    <3>2. CASE e.items = "rows"
      <4>1. e.second = "no" => Carried(e) = n
        BY <2>5, <3>2 DEF Carried, LofinRows
      <4>2. QED
        BY <1>5, <2>2, <2>5, <3>1, <4>1
    <3>3. CASE e.items = "null"
      <4>1. Carried(e) = n
        BY <2>5, <3>3 DEF Carried, LofinRows
      <4>2. QED
        BY <1>5, <2>2, <2>5, <3>1, <4>1
    <3>4. CASE e.items = "beside" /\ e.form = "json"
      BY <1>5, <2>2, <2>5, <3>1, <3>4
    <3>5. CASE e.items # "rows" /\ e.form = "xml"
      BY <1>5, <1>7, <2>2, <2>5, <3>1, <3>5
    <3>6. QED
      BY <2>2, <2>5, <3>2, <3>3, <3>4, <3>5 DEF Envelope
  <2>6. QED
    BY <2>2, <2>3, <2>4, <2>5
<1>8. QED
  BY <1>6, <1>7

LEMMA AnswersAreWhole ==
  ASSUME NEW s \in Services, NEW b \in Parsers, NEW a \in Answers[s][b], a.kind = "page"
  PROVE  Whole(a, b, s) /\ a \in [kind : {"page"}, lost : Lost]
<1>1. Error("retry").kind # "page" /\ Error("final").kind # "page"
  BY DEF Error
<1>2. Answers[s][b] = {Error("retry"), Error("final")} \cup {Parse(s, e, b) : e \in Envelope}
  BY DEF Answers
<1>3. PICK e \in Envelope : a = Parse(s, e, b)
  BY <1>1, <1>2
<1>4. QED
  BY <1>3, ParsedIsWhole

-----------------------------------------------------------------------------
LEMMA InitRequest ==
  ASSUME Init
  PROVE  RequestInv
<1>1. Limit \in Nat /\ MaxPermits \in Nat /\ Retries \in Nat /\ LastDay \in Nat /\ LastDay >= 2
  BY RequestAssumption
<1>2. NoRequest \in Request /\ NoRequest.pc = "idle"
  BY <1>1 DEF NoRequest, Request, Labels, Services, Error, Lost
<1>3. NoContext \in [limit : 0..MaxPermits, used : 0..MaxPermits, successes : Nat]
  BY <1>1 DEF NoContext
<1>4. RequestTyped
  <2>1. req \in [Procs -> Request] /\ \A p \in Procs : ~At(p, "take")
    BY <1>2 DEF Init, At
  <2>2. NoContext.used <= NoContext.limit
    BY DEF NoContext
  <2>3. today \in Days /\ counter \in [date : 0..LastDay, count : 0..Limit] /\ sent \in [Days -> Nat]
    BY <1>1 DEF Init, Days
  <2>4. QED
    BY <1>3, <2>1, <2>2, <2>3 DEF Init, RequestTyped
<1>5. CountedByDay
  BY <1>1 DEF Init, CountedByDay, Days
<1>6. \A p \in Procs : Genuine(p)
  BY <1>2 DEF Init, Genuine, Asking
<1>7. QED
  BY <1>4, <1>5, <1>6 DEF RequestInv

(* What a process does, for its own request.                               *)
Asks(p) ==
  Open(p) \/ AskPage(p) \/ Authorize(p) \/ Take(p) \/ Answered(p) \/ FetchPage(p) \/ Accept(p)
  \/ Close(p) \/ Crash(p)

(* A step of a process keeps the requests of the others.                   *)
LEMMA AsksTyped ==
  ASSUME RequestTyped, NEW p \in Procs, Asks(p)
  PROVE  /\ RequestTyped' /\ UNCHANGED <<today, source>>
         /\ \A q \in Procs : q # p => req'[q] = req[q] /\ ctx'[q] = ctx[q]
<1> DEFINE Context == [limit : 0..MaxPermits, used : 0..MaxPermits, successes : Nat]
<1>1. Limit \in Nat \ {0} /\ MaxPermits \in Nat \ {0} /\ Retries \in Nat \ {0} /\ LastDay \in Nat
      /\ LastDay >= 2 /\ 0 \in 0..LastDay
  BY RequestAssumption
<1>2. /\ NoRequest \in Request /\ NoRequest.pc = "idle" /\ NoContext \in Context
      /\ NoContext.used = 0 /\ NoContext.limit = 0
  BY <1>1 DEF NoRequest, Request, Labels, Services, Error, Lost, NoContext
<1>3. /\ req \in [Procs -> Request] /\ ctx \in [Procs -> Context] /\ today \in 1..LastDay
      /\ \A q \in Procs : ctx[q].used <= ctx[q].limit
  BY DEF RequestTyped, Days
<1>4. /\ req[p] \in Request /\ ctx[p] \in Context /\ ctx[p].used \in 0..MaxPermits
      /\ ctx[p].limit \in 0..MaxPermits /\ ctx[p].used <= ctx[p].limit /\ ctx[p].successes \in Nat
      /\ req[p].attempt \in 0..Retries
  BY <1>3 DEF Request
<1>5. UNCHANGED <<today, source>>
  BY DEF Asks, Open, AskPage, Authorize, Take, Answered, FetchPage, Accept, Close, Crash
<1>6. ASSUME NEW r \in Request, req' = [req EXCEPT ![p] = r], r.pc = "take" => r.date \in 1..today,
             NEW c \in Context, c.used <= c.limit, ctx' = [ctx EXCEPT ![p] = c],
             UNCHANGED <<counter, sent, stale>>
      PROVE  /\ RequestTyped'
             /\ \A q \in Procs : q # p => req'[q] = req[q] /\ ctx'[q] = ctx[q]
  <2>1. req' \in [Procs -> Request] /\ req'[p] = r /\ \A q \in Procs : q # p => req'[q] = req[q]
    BY <1>3, <1>6
  <2>2. ctx' \in [Procs -> Context] /\ ctx'[p] = c /\ \A q \in Procs : q # p => ctx'[q] = ctx[q]
    BY <1>3, <1>6
  <2>3. QED
    BY <1>5, <1>6, <2>1, <2>2 DEF RequestTyped, At
<1>7. UNCHANGED ctx => ctx' = [ctx EXCEPT ![p] = ctx[p]]
  BY <1>3
<1>8. ASSUME NEW l \in Labels
      PROVE  LET r == [req[p] EXCEPT !.pc = l] IN r \in Request /\ r.pc = l
  BY <1>4 DEF Request
<1> DEFINE failed == [NoRequest EXCEPT !.pc = "failed"]
           opened == [NoRequest EXCEPT !.pc = "open"]
<1>9. failed \in Request /\ failed.pc = "failed" /\ opened \in Request /\ opened.pc = "open"
  BY <1>2 DEF Request, Labels
<1>10. CASE Open(p)
  <2> DEFINE c == [NoContext EXCEPT !.limit = Permits(p)]
             r == [req[p] EXCEPT !.pc = "open"]
  <2>1. Permits(p) \in 0..MaxPermits
    BY <1>1 DEF Permits
  <2>2. c \in Context /\ c.used <= c.limit
    BY <1>1, <1>2, <2>1
  <2>3. r \in Request /\ r.pc = "open"
    BY <1>8 DEF Labels
  <2>4. req' = [req EXCEPT ![p] = r] /\ ctx' = [ctx EXCEPT ![p] = c] /\ UNCHANGED <<counter, sent, stale>>
    BY <1>10 DEF Open, Goto
  <2> HIDE DEF c, r
  <2>5. QED
    BY <1>5, <1>6, <2>2, <2>3, <2>4
<1>11. CASE AskPage(p)
  <2>1. PICK s \in ServicesOf(source) :
          req' = [req EXCEPT ![p] = [NoRequest EXCEPT !.pc = "attempt", !.service = s,
                    !.used = ctx[p].used, !.successes = ctx[p].successes]]
    BY <1>11 DEF AskPage
  <2> DEFINE r == [NoRequest EXCEPT !.pc = "attempt", !.service = s,
                     !.used = ctx[p].used, !.successes = ctx[p].successes]
  <2>2. s \in Services /\ ctx[p].used \in Nat
    BY <1>1, <1>4 DEF ServicesOf, Services
  <2>3. r \in Request /\ r.pc = "attempt"
    BY <1>2, <1>4, <2>2 DEF Request, Labels
  <2>4. req' = [req EXCEPT ![p] = r] /\ UNCHANGED <<ctx, counter, sent, stale>>
    BY <1>11, <2>1 DEF AskPage
  <2> HIDE DEF r
  <2>5. QED
    BY <1>4, <1>5, <1>6, <1>7, <2>3, <2>4
<1>12. CASE Authorize(p)
  <2> DEFINE c == [ctx[p] EXCEPT !.used = @ + 1]
             r == [req[p] EXCEPT !.pc = "take", !.date = today]
  <2>1. UNCHANGED <<counter, sent, stale>>
    BY <1>12 DEF Authorize
  <2>2. CASE ctx[p].used < ctx[p].limit
    <3>1. ctx[p].used + 1 \in 0..MaxPermits /\ ctx[p].used + 1 <= ctx[p].limit
      BY <1>1, <1>4, <2>2
    <3>2. c \in Context /\ c.used <= c.limit
      BY <1>4, <3>1
    <3>3. today \in 0..LastDay /\ today \in 1..today
      BY <1>1, <1>3
    <3>4. r \in Request /\ r.pc = "take" /\ r.date \in 1..today
      BY <1>4, <3>3 DEF Request, Labels
    <3>5. ctx' = [ctx EXCEPT ![p] = c]
      BY <1>3, <1>12, <2>2 DEF Authorize
    <3>6. req' = [req EXCEPT ![p] = r] \/ req' = [req EXCEPT ![p] = failed]
      BY <1>3, <1>12, <2>2 DEF Authorize, Fail
    <3> HIDE DEF c, r, failed
    <3>7. QED
      BY <1>5, <1>6, <1>9, <2>1, <3>2, <3>4, <3>5, <3>6
  <2>3. CASE ~(ctx[p].used < ctx[p].limit)
    <3>1. req' = [req EXCEPT ![p] = failed] /\ UNCHANGED ctx
      BY <1>12, <2>3 DEF Authorize, Fail
    <3> HIDE DEF failed
    <3>2. QED
      BY <1>4, <1>5, <1>6, <1>7, <1>9, <2>1, <3>1
  <2>4. QED
    BY <2>2, <2>3
<1>13. CASE Take(p)
  <2> DEFINE d == req[p].date
             count == IF counter.date = d THEN counter.count ELSE 0
             r == [req[p] EXCEPT !.pc = "wait"]
  <2>1. d \in Days /\ counter.count \in 0..Limit
    BY <1>1, <1>13 DEF Take, RequestTyped, Days
  <2>2. CASE Exhausted(count)
    <3>1. req' = [req EXCEPT ![p] = failed] /\ UNCHANGED <<ctx, counter, sent, stale>>
      BY <1>13, <2>2 DEF Take, Fail
    <3> HIDE DEF failed
    <3>2. QED
      BY <1>4, <1>5, <1>6, <1>7, <1>9, <3>1
  <2>3. CASE ~Exhausted(count)
    <3>1. /\ counter' = [date |-> d, count |-> count + 1] /\ sent' = [sent EXCEPT ![d] = @ + 1]
          /\ stale' = (stale \/ d # today) /\ req' = [req EXCEPT ![p] = r] /\ UNCHANGED ctx
      BY <1>13, <2>3 DEF Take, Goto
    <3>2. counter' \in [date : 0..LastDay, count : 0..Limit]
      BY <1>1, <2>1, <2>3, <3>1 DEF Exhausted, Days
    <3>3. sent' \in [Days -> Nat] /\ stale' \in BOOLEAN
      BY <2>1, <3>1 DEF RequestTyped
    <3>4. r \in Request /\ r.pc = "wait"
      BY <1>8 DEF Labels
    <3> HIDE DEF r
    <3>5. req' \in [Procs -> Request] /\ req'[p] = r /\ \A q \in Procs : q # p => req'[q] = req[q]
      BY <1>3, <3>1, <3>4
    <3>6. QED
      BY <1>5, <3>1, <3>2, <3>3, <3>4, <3>5 DEF RequestTyped, At
  <2>4. QED
    BY <2>2, <2>3
<1>14. CASE Answered(p)
  <2> DEFINE again == [req[p] EXCEPT !.pc = "attempt", !.attempt = @ + 1, !.date = 0]
             parsed(a) == [req[p] EXCEPT !.pc = "parsed", !.page = a, !.date = 0]
  <2>1. UNCHANGED <<ctx, counter, sent, stale>>
    BY <1>14 DEF Answered
  <2>2. \/ req' = [req EXCEPT ![p] = failed]
        \/ req[p].attempt + 1 < Retries /\ req' = [req EXCEPT ![p] = again]
        \/ \E a \in Answers[req[p].service][Parser(p)] :
             a.kind = "page" /\ req' = [req EXCEPT ![p] = parsed(a)]
    BY <1>3, <1>14 DEF Answered, Fail, MayRetry
  <2>3. CASE req' = [req EXCEPT ![p] = failed]
    <3> HIDE DEF failed
    <3>1. QED
      BY <1>4, <1>5, <1>6, <1>7, <1>9, <2>1, <2>3
  <2>4. CASE req[p].attempt + 1 < Retries /\ req' = [req EXCEPT ![p] = again]
    <3>1. req[p].attempt + 1 \in 0..Retries
      BY <1>1, <1>4, <2>4
    <3>2. again \in Request /\ again.pc = "attempt"
      BY <1>1, <1>4, <3>1 DEF Request, Labels
    <3> HIDE DEF again
    <3>3. QED
      BY <1>4, <1>5, <1>6, <1>7, <2>1, <2>4, <3>2
  <2>5. ASSUME NEW a \in Answers[req[p].service][Parser(p)], a.kind = "page",
               req' = [req EXCEPT ![p] = parsed(a)]
        PROVE  RequestTyped' /\ \A q \in Procs : q # p => req'[q] = req[q] /\ ctx'[q] = ctx[q]
    <3> DEFINE r == parsed(a)
    <3>1. a \in [kind : {"page"}, lost : Lost]
      BY <1>4, <2>5, AnswersAreWhole DEF Request, Parser, Parsers
    <3>2. r \in Request /\ r.pc = "parsed"
      BY <1>1, <1>4, <3>1 DEF Request, Labels
    <3> HIDE DEF r
    <3>3. QED
      BY <1>4, <1>5, <1>6, <1>7, <2>1, <2>5, <3>2 DEF r
  <2> HIDE DEF failed, again, parsed
  <2>6. QED
    BY <1>5, <2>2, <2>3, <2>4, <2>5
<1>15. CASE FetchPage(p)
  <2> DEFINE once == [ctx[p] EXCEPT !.successes = @ + 1]
             twice == [once EXCEPT !.successes = @ + 1]
             r == [req[p] EXCEPT !.pc = "attest"]
  <2>1. once \in Context /\ once.used = ctx[p].used /\ once.limit = ctx[p].limit
    BY <1>4
  <2>2. twice \in Context /\ twice.used = ctx[p].used /\ twice.limit = ctx[p].limit
    <3> HIDE DEF once
    <3>1. QED
      BY <1>4, <2>1
  <2>3. r \in Request /\ r.pc = "attest"
    BY <1>8 DEF Labels
  <2>4. /\ UNCHANGED <<counter, sent, stale>>
        /\ \/ /\ req' = [req EXCEPT ![p] = r]
              /\ \/ ctx' = [ctx EXCEPT ![p] = once] \/ ctx' = [ctx EXCEPT ![p] = twice]
                 \/ ctx' = [ctx EXCEPT ![p] = ctx[p]]
           \/ req' = [req EXCEPT ![p] = failed] /\ UNCHANGED ctx
    BY <1>15 DEF FetchPage, Recorded, Goto, Fail
  <2> HIDE DEF once, twice, r, failed
  <2>5. QED
    BY <1>4, <1>5, <1>6, <1>7, <1>9, <2>1, <2>2, <2>3, <2>4
<1>16. CASE Accept(p)
  <2>1. /\ UNCHANGED <<ctx, counter, sent, stale>>
        /\ req' = [req EXCEPT ![p] = opened] \/ req' = [req EXCEPT ![p] = failed]
    BY <1>16 DEF Accept, Fail
  <2> HIDE DEF opened, failed
  <2>2. QED
    BY <1>4, <1>5, <1>6, <1>7, <1>9, <2>1
<1>17. CASE Close(p) \/ Crash(p)
  BY <1>2, <1>5, <1>6, <1>17 DEF Close, Crash
<1>18. QED
  BY <1>10, <1>11, <1>12, <1>13, <1>14, <1>15, <1>16, <1>17 DEF Asks

(* The counter of the date, and what a request knows of its context.       *)
LEMMA AsksCounted ==
  ASSUME RequestInv, RequestTyped', NEW p \in Procs, Asks(p), UNCHANGED <<today, source>>
  PROVE  CountedByDay'
<1>1. CASE UNCHANGED <<counter, sent, stale>>
  BY <1>1 DEF RequestInv, CountedByDay
<1>2. CASE Take(p) /\ ~UNCHANGED <<counter, sent, stale>>
  <2> DEFINE d == req[p].date
             count == IF counter.date = d THEN counter.count ELSE 0
  <2>1. /\ ~Exhausted(count) /\ counter' = [date |-> d, count |-> count + 1]
        /\ sent' = [sent EXCEPT ![d] = @ + 1] /\ stale' = (stale \/ d # today)
    BY <1>2 DEF Take
  <2>2. SUFFICES ASSUME ~stale' PROVE CountedByDay'
    BY DEF CountedByDay
  <2>3. ~stale /\ d = today
    BY <2>1, <2>2
  <2>4. /\ today \in Days /\ counter.date \in Int /\ counter.count \in Nat /\ sent \in [Days -> Nat]
        /\ Days \subseteq Int /\ Limit \in Nat
    BY RequestAssumption DEF RequestInv, RequestTyped, Days
  <2>5. /\ counter.date <= today /\ \A e \in Days : e > counter.date => sent[e] = 0
        /\ \A e \in Days : sent[e] <= Limit /\ (e = counter.date => sent[e] = counter.count)
    BY <2>3 DEF RequestInv, CountedByDay
  <2>6. sent[today] = count /\ count < Limit
    BY <2>1, <2>3, <2>4, <2>5 DEF Exhausted
  <2>7. \A e \in Days : sent'[e] = IF e = today THEN count + 1 ELSE sent[e]
    BY <2>1, <2>3, <2>4, <2>6
  <2>8. counter'.date = today /\ counter'.count = count + 1
    BY <2>1, <2>3
  <2>9. \A e \in Days : /\ e > counter'.date => sent'[e] = 0
                        /\ sent'[e] <= Limit /\ (e = counter'.date => sent'[e] = counter'.count)
    BY <2>3, <2>4, <2>5, <2>6, <2>7, <2>8
  <2>10. QED
    BY <2>4, <2>8, <2>9 DEF CountedByDay
<1>3. QED
  BY <1>1, <1>2 DEF Asks, Open, AskPage, Authorize, Answered, FetchPage, Accept, Close, Crash

LEMMA AsksGenuine ==
  ASSUME RequestInv, RequestTyped', NEW p \in Procs, Asks(p), UNCHANGED <<today, source>>
  PROVE  Genuine(p)'
<1>1. /\ req \in [Procs -> Request] /\ req[p] \in Request /\ Genuine(p)
      /\ ctx \in [Procs -> [limit : 0..MaxPermits, used : 0..MaxPermits, successes : Nat]]
      /\ ctx[p].used \in Int /\ ctx[p].successes \in Nat /\ MaxPermits \in Nat
  BY RequestAssumption DEF RequestInv, RequestTyped
<1>2. ASSUME req'[p].pc \notin Asking \cup {"attest"}
      PROVE  Genuine(p)'
  BY <1>2 DEF Genuine, Asking
<1>3. Fail(p) => req'[p].pc = "failed"
  BY <1>1 DEF Fail, NoRequest
<1>4. NoRequest.pc = "idle"
  BY DEF NoRequest
<1>5. CASE Open(p) \/ Close(p) \/ Crash(p)
  <2>1. req'[p].pc \in {"open", "idle"}
    BY <1>1, <1>4, <1>5 DEF Open, Close, Crash, Goto, Request
  <2>2. QED
    BY <1>2, <2>1 DEF Asking
<1>6. CASE AskPage(p)
  <2>1. PICK s \in ServicesOf(source) :
          req' = [req EXCEPT ![p] = [NoRequest EXCEPT !.pc = "attempt", !.service = s,
                    !.used = ctx[p].used, !.successes = ctx[p].successes]]
    BY <1>6 DEF AskPage
  <2>2. req'[p] = [NoRequest EXCEPT !.pc = "attempt", !.service = s,
                    !.used = ctx[p].used, !.successes = ctx[p].successes]
    BY <1>1, <2>1
  <2>3. req'[p].pc = "attempt" /\ req'[p].service = s /\ req'[p].used = ctx[p].used
        /\ req'[p].successes = ctx[p].successes
    BY <2>2 DEF NoRequest
  <2>4. ctx' = ctx /\ source' = source
    BY <1>6 DEF AskPage
  <2>5. QED
    BY <1>1, <2>3, <2>4 DEF Genuine
<1>7. CASE Authorize(p)
  <2>1. req[p].pc = "attempt"
    BY <1>7 DEF Authorize, At
  <2>2. CASE Fail(p)
    BY <1>2, <1>3, <2>2 DEF Asking
  <2>3. CASE /\ ctx' = [ctx EXCEPT ![p].used = @ + 1]
             /\ req' = [req EXCEPT ![p].pc = "take", ![p].date = today]
    <3>1. ctx'[p].used = ctx[p].used + 1 /\ ctx'[p].successes = ctx[p].successes
      BY <1>1, <2>3
    <3>2. req'[p].pc = "take" /\ req'[p].service = req[p].service /\ req'[p].used = req[p].used
          /\ req'[p].successes = req[p].successes
      BY <1>1, <2>3 DEF Request
    <3>3. req[p].used \in Int
      BY <1>1 DEF Request
    <3>4. QED
      BY <1>1, <2>1, <3>1, <3>2, <3>3 DEF Genuine, Asking
  <2>4. QED
    BY <1>7, <2>2, <2>3 DEF Authorize
<1>8. CASE Take(p)
  <2>1. req[p].pc = "take" /\ ctx' = ctx
    BY <1>8 DEF Take, At
  <2>2. CASE Fail(p)
    BY <1>2, <1>3, <2>2 DEF Asking
  <2>3. CASE Goto(p, "wait")
    <3>1. req'[p].pc = "wait" /\ req'[p].service = req[p].service /\ req'[p].used = req[p].used
          /\ req'[p].successes = req[p].successes
      BY <1>1, <2>3 DEF Request, Goto
    <3>2. QED
      BY <1>1, <2>1, <3>1 DEF Genuine, Asking
  <2>4. QED
    BY <1>8, <2>2, <2>3 DEF Take
<1>9. CASE Answered(p)
  <2>1. req[p].pc = "wait" /\ ctx' = ctx
    BY <1>9 DEF Answered, At
  <2>2. PICK a \in Answers[req[p].service][Parser(p)] :
          \/ a.kind = "page" /\ req' = [req EXCEPT ![p].pc = "parsed", ![p].page = a, ![p].date = 0]
          \/ req' = [req EXCEPT ![p].pc = "attempt", ![p].attempt = @ + 1, ![p].date = 0]
          \/ Fail(p)
    BY <1>9 DEF Answered
  <2>3. CASE Fail(p)
    BY <1>2, <1>3, <2>3 DEF Asking
  <2>4. CASE req' = [req EXCEPT ![p].pc = "attempt", ![p].attempt = @ + 1, ![p].date = 0]
    <3>1. req'[p].pc = "attempt" /\ req'[p].service = req[p].service /\ req'[p].used = req[p].used
          /\ req'[p].successes = req[p].successes
      BY <1>1, <2>4 DEF Request
    <3>2. QED
      BY <1>1, <2>1, <3>1 DEF Genuine, Asking
  <2>5. CASE a.kind = "page" /\ req' = [req EXCEPT ![p].pc = "parsed", ![p].page = a, ![p].date = 0]
    <3>1. req'[p].pc = "parsed" /\ req'[p].service = req[p].service /\ req'[p].used = req[p].used
          /\ req'[p].successes = req[p].successes /\ req'[p].page = a
      BY <1>1, <2>5 DEF Request
    <3>2. Whole(a, Parser(p), req[p].service)
      BY <1>1, <2>5, AnswersAreWhole DEF Request, Parser, Parsers
    <3>3. QED
      BY <1>1, <2>1, <3>1, <3>2 DEF Genuine, Asking, Whole, Parser
  <2>6. QED
    BY <2>2, <2>3, <2>4, <2>5
<1>10. CASE FetchPage(p)
  <2>1. req[p].pc = "parsed"
    BY <1>10 DEF FetchPage, At
  <2>2. CASE Fail(p)
    BY <1>2, <1>3, <2>2 DEF Asking
  <2>3. CASE Goto(p, "attest") /\ ctx' = [ctx EXCEPT ![p] = Recorded(ctx[p])]
    <3>1. req'[p].pc = "attest" /\ req'[p].service = req[p].service /\ req'[p].used = req[p].used
          /\ req'[p].successes = req[p].successes /\ req'[p].page = req[p].page
      BY <1>1, <2>3 DEF Request, Goto
    <3>2. ctx'[p].used = ctx[p].used /\ ctx'[p].successes = ctx[p].successes + 1
      BY <1>1, <2>3 DEF Recorded
    <3>3. QED
      BY <1>1, <2>1, <3>1, <3>2 DEF Genuine, Asking, Attested, Whole, Parser
  <2>4. Goto(p, "attest") \/ Fail(p)
    BY <1>10 DEF FetchPage
  <2>5. ~Fail(p) => ctx' = [ctx EXCEPT ![p] = Recorded(ctx[p])]
    BY <1>10 DEF FetchPage, TransportRecords
  <2>6. QED
    BY <2>2, <2>3, <2>4, <2>5
<1>11. CASE Accept(p)
  <2>1. req'[p].pc \in {"open", "failed"}
    BY <1>1, <1>3, <1>11 DEF Accept, NoRequest
  <2>2. QED
    BY <1>2, <2>1 DEF Asking
<1>12. QED
  BY <1>5, <1>6, <1>7, <1>8, <1>9, <1>10, <1>11 DEF Asks

LEMMA StepRequest ==
  ASSUME RequestInv, [Next]_vars
  PROVE  RequestInv'
<1>1. CASE Midnight
  <2>1. RequestTyped'
    <3>1. today \in 1..LastDay /\ today' = today + 1 /\ today < LastDay
      BY <1>1 DEF Midnight, RequestInv, RequestTyped, Days
    <3>2. today' \in Days /\ \A d \in 1..today : d \in 1..today'
      BY <3>1, RequestAssumption DEF Days
    <3>3. RequestTyped /\ UNCHANGED <<source, counter, ctx, req, sent, stale>>
      BY <1>1 DEF Midnight, RequestInv
    <3>4. \A p \in Procs : ctx'[p].used <= ctx'[p].limit /\ (At(p, "take")' => req'[p].date \in 1..today')
      BY <3>2, <3>3 DEF RequestTyped, At
    <3>5. QED
      BY <3>2, <3>3, <3>4 DEF RequestTyped
  <2>2. CountedByDay'
    BY <1>1, RequestAssumption DEF Midnight, RequestInv, RequestTyped, CountedByDay, Days
  <2>3. \A p \in Procs : Genuine(p)'
    BY <1>1 DEF Midnight, RequestInv, Genuine, Attested
  <2>4. QED
    BY <2>1, <2>2, <2>3 DEF RequestInv
<1>2. ASSUME NEW p \in Procs, Asks(p)
      PROVE  RequestInv'
  <2>1. /\ RequestTyped' /\ UNCHANGED <<today, source>>
        /\ \A q \in Procs : q # p => req'[q] = req[q] /\ ctx'[q] = ctx[q]
    BY <1>2, AsksTyped DEF RequestInv
  <2>2. CountedByDay' /\ Genuine(p)'
    BY <1>2, <2>1, AsksCounted, AsksGenuine
  <2>3. \A q \in Procs : q # p => Genuine(q)'
    BY <2>1 DEF RequestInv, Genuine, Attested
  <2>4. QED
    BY <2>1, <2>2, <2>3 DEF RequestInv
<1>3. CASE UNCHANGED vars
  BY <1>3 DEF vars, RequestInv, RequestTyped, CountedByDay, Genuine, Attested, At
<1>4. QED
  BY <1>1, <1>2, <1>3 DEF Next, Asks

-----------------------------------------------------------------------------
(* What the invariant below adds to the properties: a collector that holds *)
(* an upload that is alive still waits for it, so no newer snapshot exists;*)
(* and every snapshot, pushed or not, was built from a purged database.    *)
Places == {"off", "started", "idle", "collect", "retention", "snapshot", "sync", "pushed"}
States == {"absent"} \cup U!Alive \cup U!Ends
Calendar == 0..SyncDays
Content == [dates : SUBSET Calendar, day : Calendar]
Upload == [state : States, by : Collectors \cup {U!None}, orphan : BOOLEAN]
Stored == [id : 0..MaxSnaps, parts : SUBSET Sections]

SyncTyped ==
  /\ u_today \in (Window + 1)..SyncDays /\ u_db \in SUBSET Calendar
  /\ u_lock \in Collectors \cup {U!None} /\ u_pc \in [Collectors -> Places]
  /\ u_began \in [Collectors -> Calendar]
  /\ u_snap \in 0..MaxSnaps /\ u_content \in [U!Snaps -> Content] /\ u_upload \in [U!Snaps -> Upload]
  /\ u_slot \in Int /\ u_tx \in Stored /\ u_serving \in Stored
  /\ u_served \in SUBSET U!Snaps /\ u_acked \in SUBSET U!Snaps

(* The lock: one collector is not off, the one that holds it.              *)
Locked == \A p \in Collectors : u_pc[p] # "off" <=> u_lock = p

(* Snapshots are numbered in the order they are built, and are pushed,     *)
(* imported and served after that.                                         *)
Numbered ==
  /\ \A p \in Collectors : u_pc[p] \in {"sync", "pushed"} => u_snap >= 1
  /\ \A i \in U!Snaps : u_upload[i].state # "absent" => i <= u_snap
  /\ u_serving.id <= u_snap /\ \A i \in u_served : i <= u_snap

(* The purge of the cycle comes between the rows and the snapshot.         *)
Fresh(dates, day) == U!Malformed \notin dates /\ \A d \in dates : d >= U!Cutoff(day)
Purged ==
  /\ \A p \in Collectors : u_pc[p] = "snapshot" => Fresh(u_db, u_began[p])
  /\ \A i \in U!Snaps : i <= u_snap => Fresh(u_content[i].dates, u_content[i].day)

(* What is served is a committed import, and only that is answered "ok".   *)
Committed ==
  /\ u_serving # U!Nothing => u_serving.parts = Sections
  /\ \A i \in U!Snaps : u_upload[i].state \in {"imported", "ok"} => i \in u_served
  /\ u_acked \subseteq u_served

(* An upload whose collector still lives is the last one.                  *)
Awaited ==
  \A i \in U!Snaps : u_upload[i].state \in U!Alive /\ ~u_upload[i].orphan =>
    /\ u_upload[i].by \in Collectors /\ u_lock = u_upload[i].by
    /\ u_pc[u_upload[i].by] \in {"idle", "pushed"} /\ u_snap = i

SyncInv == SyncTyped /\ Locked /\ Numbered /\ Purged /\ Committed /\ Awaited

-----------------------------------------------------------------------------
LEMMA InitSync ==
  ASSUME U!SyncAssumption, U!Init
  PROVE  SyncInv
<1>1. SyncTyped
  <2>1. SyncDays \in Nat /\ Window \in Nat /\ MaxSnaps \in Nat /\ SyncDays > Window
    BY DEF U!SyncAssumption
  <2>2. u_today \in (Window + 1)..SyncDays /\ u_db \in SUBSET Calendar
    BY <2>1 DEF U!Init, Calendar, U!Malformed
  <2>3. u_pc \in [Collectors -> Places] /\ u_began \in [Collectors -> Calendar] /\ u_lock = U!None
    BY <2>1 DEF U!Init, Calendar, Places
  <2>4. u_content \in [U!Snaps -> Content]
    BY <2>1 DEF U!Init, Content, Calendar
  <2>5. u_upload \in [U!Snaps -> Upload]
    BY DEF U!Init, Upload, U!NoUpload, States
  <2>6. U!Nothing \in Stored
    BY <2>1 DEF U!Nothing, Stored
  <2>7. QED
    BY <2>1, <2>2, <2>3, <2>4, <2>5, <2>6 DEF U!Init, SyncTyped
<1>2. Locked
  BY DEF U!Init, Locked, U!SyncAssumption
<1>3. Numbered /\ Purged
  BY DEF U!Init, Numbered, Purged, U!Nothing, U!NoUpload, U!SyncAssumption, U!Snaps
<1>4. Committed /\ Awaited
  BY DEF U!Init, Committed, Awaited, U!NoUpload, U!Alive
<1>5. QED
  BY <1>1, <1>2, <1>3, <1>4 DEF SyncInv

(* The actions of one collector, and those of one upload on the server.    *)
Collector(p) ==
  \/ U!Start(p) \/ U!End(p) \/ U!Cycle(p) \/ U!Fail(p) \/ U!Collect(p) \/ U!Purge(p) \/ U!Build(p)
  \/ U!Push(p) \/ U!Answered(p) \/ U!GiveUp(p)
Server(i) == U!Spawn(i) \/ U!TakeSlot(i) \/ U!Write(i) \/ U!Commit(i) \/ U!Exit(i)

LEMMA CollectorTyped ==
  ASSUME U!SyncAssumption, SyncTyped, Numbered, NEW p \in Collectors, Collector(p)
  PROVE  SyncTyped'
<1>1. CASE U!Start(p)
  BY <1>1 DEF U!Start, SyncTyped, U!server, Places
<1>2. CASE U!End(p)
  BY <1>2 DEF U!End, SyncTyped, Places, Upload
<1>3. CASE U!Cycle(p)
  BY <1>3 DEF U!Cycle, SyncTyped, U!server, Places, Calendar, U!SyncAssumption
<1>4. CASE U!Fail(p)
  BY <1>4 DEF U!Fail, SyncTyped, U!server, Places, U!AfterFailure
<1>5. CASE U!Collect(p)
  BY <1>5 DEF U!Collect, SyncTyped, U!server, Places, Calendar, U!Cutoff, U!SyncAssumption
<1>6. CASE U!Purge(p)
  BY <1>6 DEF U!Purge, SyncTyped, U!server, Places
<1>7. CASE U!Build(p)
  BY <1>7 DEF U!Build, SyncTyped, U!server, Places, Content, U!Snaps, U!SyncAssumption
<1>8. CASE U!Push(p)
  BY <1>8 DEF U!Push, SyncTyped, Places, Upload, States, U!Alive
<1>9. CASE U!Answered(p)
  BY <1>9 DEF U!Answered, SyncTyped, U!server, Places, Numbered, U!Snaps, U!SyncAssumption
<1>10. CASE U!GiveUp(p)
  BY <1>10 DEF U!GiveUp, SyncTyped, U!server, Places
<1>11. QED
  BY <1>1, <1>2, <1>3, <1>4, <1>5, <1>6, <1>7, <1>8, <1>9, <1>10 DEF Collector

LEMMA ServerTyped ==
  ASSUME U!SyncAssumption, SyncTyped, NEW i \in U!Snaps, Server(i)
  PROVE  SyncTyped'
<1>0. i \in Int /\ 0 \in 0..MaxSnaps /\ U!Nothing \in Stored /\ u_upload[i] \in Upload
  BY DEF U!Snaps, U!SyncAssumption, U!Nothing, Stored, SyncTyped
<1>1. ASSUME NEW state \in States, U!To(i, state)
      PROVE  u_upload' \in [U!Snaps -> Upload]
  BY <1>1 DEF U!To, SyncTyped, Upload
<1>2. CASE U!Spawn(i)
  BY <1>1, <1>2 DEF U!Spawn, SyncTyped, U!local, States, U!Alive
<1>3. CASE U!TakeSlot(i)
  BY <1>0, <1>1, <1>3 DEF U!TakeSlot, SyncTyped, U!local, States, U!Alive
<1>4. CASE U!Write(i)
  <2>1. u_tx.parts \in SUBSET Sections /\ i \in 0..MaxSnaps
    BY DEF SyncTyped, Stored, U!Snaps, U!SyncAssumption
  <2>2. u_tx' \in Stored
    BY <1>4, <2>1 DEF U!Write, Stored
  <2>3. QED
    BY <1>4, <2>2 DEF U!Write, U!Seen, SyncTyped, U!local
<1>5. CASE U!Commit(i)
  BY <1>0, <1>1, <1>5 DEF U!Commit, SyncTyped, U!local, States, U!Alive
<1>6. CASE U!Exit(i)
  <2>1. PICK end \in {"ok", "hold", "invalid", "timeout", "dead"} : U!Over(i, end)
    BY <1>6 DEF U!Exit
  <2>2. u_upload' \in [U!Snaps -> Upload]
    BY <1>1, <2>1 DEF U!Over, U!Answer, States, U!Ends
  <2>3. u_tx' \in Stored /\ u_slot' \in Int
    BY <1>0, <2>1 DEF U!Over, U!Rolled, U!Freed, SyncTyped
  <2>4. QED
    BY <2>1, <2>2, <2>3 DEF U!Over, SyncTyped, U!local
<1>7. QED
  BY <1>2, <1>3, <1>4, <1>5, <1>6 DEF Server

(* A collector's lock, and the number of its snapshot.                     *)
LEMMA CollectorLocked ==
  ASSUME U!SyncAssumption, SyncTyped, Locked, NEW p \in Collectors, Collector(p)
  PROVE  Locked'
<1>1. ASSUME NEW at \in Places \ {"off"}, u_pc' = [u_pc EXCEPT ![p] = at], u_pc[p] # "off", u_lock' = u_lock
      PROVE  Locked'
  BY <1>1 DEF Locked, SyncTyped
<1>2. CASE U!Start(p)
  BY <1>2 DEF U!Start, Locked, SyncTyped, U!SyncAssumption
<1>3. CASE U!End(p)
  BY <1>3 DEF U!End, Locked, SyncTyped, U!SyncAssumption
<1>4. CASE U!Purge(p)
  BY <1>1, <1>4 DEF U!Purge, Locked, Places
<1>5. CASE U!Cycle(p) \/ U!Fail(p) \/ U!Collect(p) \/ U!Build(p) \/ U!Push(p) \/ U!Answered(p) \/ U!GiveUp(p)
  BY <1>1, <1>5 DEF U!Cycle, U!Fail, U!AfterFailure, U!Collect, U!Build, U!Push, U!Answered, U!GiveUp, Places
<1>6. QED
  BY <1>2, <1>3, <1>4, <1>5 DEF Collector

(* Nobody but the holder of the lock has a place in the cycle.             *)
LEMMA Single ==
  ASSUME Locked, NEW p \in Collectors, NEW q \in Collectors, u_pc[p] # "off", u_pc[q] # "off"
  PROVE  p = q
  BY DEF Locked

LEMMA CollectorNumbered ==
  ASSUME U!SyncAssumption, SyncTyped, Numbered, NEW p \in Collectors, Collector(p)
  PROVE  Numbered'
<1>0. u_snap \in Nat /\ MaxSnaps \in Nat
  BY DEF SyncTyped, U!SyncAssumption
<1>1. CASE U!Build(p)
  BY <1>0, <1>1 DEF U!Build, Numbered, U!server, SyncTyped, U!Snaps, Upload, Stored
<1>2. CASE U!Push(p)
  BY <1>0, <1>2 DEF U!Push, Numbered, SyncTyped, U!Snaps
<1>3. CASE U!End(p)
  BY <1>3 DEF U!End, Numbered, SyncTyped, Upload
<1>4. CASE U!Purge(p)
  BY <1>4 DEF U!Purge, Numbered, U!server, SyncTyped
<1>5. CASE U!Start(p) \/ U!Cycle(p) \/ U!Fail(p) \/ U!Collect(p) \/ U!Answered(p) \/ U!GiveUp(p)
  BY <1>5 DEF U!Start, U!Cycle, U!Fail, U!AfterFailure, U!Collect, U!Answered, U!GiveUp, Numbered, U!server,
     SyncTyped
<1>6. QED
  BY <1>1, <1>2, <1>3, <1>4, <1>5 DEF Collector

(* The snapshot is built from what the purge of the same cycle left: the   *)
(* lock keeps the next collector away from the database.                   *)
LEMMA CollectorPurged ==
  ASSUME U!SyncAssumption, SyncTyped, Locked, Purged, NEW p \in Collectors, Collector(p)
  PROVE  Purged'
<1>0. u_snap \in Nat /\ MaxSnaps \in Nat /\ u_db \in SUBSET Int /\ u_today \in Int /\ Window \in Int
      /\ u_began[p] \in Int
  BY DEF SyncTyped, U!SyncAssumption, Calendar
<1>1. CASE U!Purge(p)
  <2>1. UNCHANGED <<u_began, u_snap, u_content>> /\ u_pc[p] = "retention"
    BY <1>1 DEF U!Purge
  <2>2. \A i \in U!Snaps : i <= u_snap' => Fresh(u_content'[i].dates, u_content'[i].day)
    BY <2>1 DEF Purged
  <2>3. CASE U!Expired(p) = {}
    <3>1. u_pc' = [u_pc EXCEPT ![p] = "snapshot"] /\ u_db' = u_db
      BY <1>1, <2>3 DEF U!Purge
    <3>2. Fresh(u_db, u_began[p])
      BY <1>0, <2>3 DEF U!Expired, Fresh, U!Cutoff, U!Malformed
    <3>3. \A q \in Collectors : u_pc'[q] = "snapshot" => q = p
      BY <2>1, <3>1, Single DEF SyncTyped
    <3>4. QED
      BY <2>1, <2>2, <3>1, <3>2, <3>3 DEF Purged
  <2>4. CASE U!Expired(p) # {}
    <3>1. u_pc' = u_pc
      BY <1>1, <2>4 DEF U!Purge
    <3>2. \A q \in Collectors : u_pc[q] # "snapshot"
      BY <2>1, Single
    <3>3. QED
      BY <2>2, <3>1, <3>2 DEF Purged
  <2>5. QED
    BY <2>3, <2>4
<1>2. CASE U!Build(p)
  <2>1. /\ u_snap' = u_snap + 1 /\ u_snap' \in U!Snaps /\ u_pc[p] = "snapshot" /\ UNCHANGED <<u_db, u_began>>
        /\ u_content' = [u_content EXCEPT ![u_snap'] = [dates |-> u_db, day |-> u_began[p]]]
        /\ u_pc' = [u_pc EXCEPT ![p] = "sync"]
    BY <1>0, <1>2 DEF U!Build, U!Snaps
  <2>2. \A i \in U!Snaps : i <= u_snap' => i <= u_snap \/ i = u_snap'
    BY <1>0, <2>1 DEF U!Snaps
  <2>3. u_content'[u_snap'] = [dates |-> u_db, day |-> u_began[p]]
        /\ \A i \in U!Snaps : i # u_snap' => u_content'[i] = u_content[i]
    BY <2>1 DEF SyncTyped
  <2>4. Fresh(u_content'[u_snap'].dates, u_content'[u_snap'].day)
    BY <2>1, <2>3 DEF Purged
  <2>5. QED
    BY <2>1, <2>2, <2>3, <2>4 DEF Purged, SyncTyped
<1>3. CASE U!Collect(p)
  <2>1. /\ UNCHANGED <<u_snap, u_content, u_began>> /\ u_pc[p] = "collect"
        /\ u_pc' = [u_pc EXCEPT ![p] = "retention"]
    BY <1>3 DEF U!Collect
  <2>2. \A q \in Collectors : u_pc'[q] # "snapshot"
    BY <2>1, Single DEF SyncTyped
  <2>3. QED
    BY <2>1, <2>2 DEF Purged
<1>4. CASE U!Cycle(p)
  <2>1. /\ UNCHANGED <<u_snap, u_content, u_db>> /\ u_pc[p] # "off"
        /\ \E stage \in {"collect", "retention"} : u_pc' = [u_pc EXCEPT ![p] = stage]
    BY <1>4 DEF U!Cycle
  <2>2. \A q \in Collectors : u_pc'[q] # "snapshot"
    BY <2>1, Single DEF SyncTyped
  <2>3. QED
    BY <2>1, <2>2 DEF Purged
<1>5. CASE U!Start(p) \/ U!End(p) \/ U!Fail(p) \/ U!Push(p) \/ U!Answered(p) \/ U!GiveUp(p)
  BY <1>5 DEF U!Start, U!End, U!Fail, U!AfterFailure, U!Push, U!Answered, U!GiveUp, Purged, SyncTyped
<1>6. QED
  BY <1>1, <1>2, <1>3, <1>4, <1>5 DEF Collector

LEMMA CollectorCommitted ==
  ASSUME U!SyncAssumption, SyncTyped, Numbered, Committed, NEW p \in Collectors, Collector(p)
  PROVE  Committed'
<1>1. CASE U!End(p)
  BY <1>1 DEF U!End, Committed, SyncTyped, Upload
<1>2. CASE U!Push(p)
  BY <1>2 DEF U!Push, Committed, SyncTyped
<1>3. CASE U!Answered(p)
  <2>1. /\ UNCHANGED <<u_snap, u_upload, u_serving, u_served>>
        /\ u_acked' = IF u_upload[u_snap].state = "ok" THEN u_acked \cup {u_snap} ELSE u_acked
    BY <1>3 DEF U!Answered, U!server
  <2>2. u_snap \in U!Snaps
    BY <1>3 DEF U!Answered, SyncTyped, Numbered, U!Snaps, U!SyncAssumption
  <2>3. QED
    BY <2>1, <2>2 DEF Committed
<1>4. CASE U!Purge(p)
  BY <1>4 DEF U!Purge, U!server, Committed
<1>5. CASE U!Start(p) \/ U!Cycle(p) \/ U!Fail(p) \/ U!Collect(p) \/ U!Build(p) \/ U!GiveUp(p)
  BY <1>5 DEF U!Start, U!Cycle, U!Fail, U!Collect, U!Build, U!GiveUp, U!server, Committed
<1>6. QED
  BY <1>1, <1>2, <1>3, <1>4, <1>5 DEF Collector

(* A collector leaves the pause of its cycle only when its upload is over, *)
(* and a collector that dies orphans it.                                   *)
LEMMA CollectorAwaited ==
  ASSUME U!SyncAssumption, SyncTyped, Locked, Numbered, Awaited, NEW p \in Collectors, Collector(p)
  PROVE  Awaited'
<1>1. ASSUME UNCHANGED <<u_upload, u_snap, u_lock>>, NEW at, u_pc' = [u_pc EXCEPT ![p] = at], u_pc[p] # "off",
             at \in {"idle", "pushed"} \/ u_pc[p] \notin {"idle", "pushed"} \/ U!Mine(p) = {}
      PROVE  Awaited'
  <2>1. SUFFICES ASSUME NEW i \in U!Snaps, u_upload[i].state \in U!Alive, ~u_upload[i].orphan
                 PROVE  u_pc'[u_upload[i].by] \in {"idle", "pushed"}
    BY <1>1 DEF Awaited
  <2>2. /\ u_upload[i].by \in Collectors /\ u_pc[u_upload[i].by] \in {"idle", "pushed"}
        /\ u_lock = u_upload[i].by
    BY <2>1 DEF Awaited
  <2>3. u_upload[i].by = p
    BY <1>1, <2>2, Single
  <2>4. i \in U!Mine(p)
    BY <2>1, <2>3 DEF U!Mine
  <2>5. QED
    BY <1>1, <2>2, <2>3, <2>4 DEF SyncTyped
<1>2. CASE U!Start(p)
  <2>1. \A i \in U!Snaps : u_upload[i].state \in U!Alive => u_upload[i].orphan
    BY <1>2 DEF U!Start, Awaited, U!SyncAssumption
  <2>2. QED
    BY <1>2, <2>1 DEF U!Start, Awaited, U!server
<1>3. CASE U!End(p)
  <2>1. u_lock = p
    BY <1>3 DEF U!End, Locked
  <2>2. \A i \in U!Snaps : u_upload'[i].state \in U!Alive => u_upload'[i].orphan
    BY <1>3, <2>1 DEF U!End, Awaited, U!Mine, SyncTyped, Upload
  <2>3. QED
    BY <2>2 DEF Awaited
<1>4. CASE U!Cycle(p)
  BY <1>1, <1>4 DEF U!Cycle, U!Rested, U!server
<1>5. CASE U!Fail(p) \/ U!Collect(p) \/ U!Answered(p) \/ U!GiveUp(p)
  BY <1>1, <1>5 DEF U!Fail, U!AfterFailure, U!Collect, U!Answered, U!GiveUp, U!server
<1>6. CASE U!Purge(p)
  <2>1. CASE u_pc' = u_pc
    BY <1>6, <2>1 DEF U!Purge, U!server, Awaited
  <2>2. CASE u_pc' = [u_pc EXCEPT ![p] = "snapshot"]
    BY <1>1, <1>6, <2>2 DEF U!Purge, U!server
  <2>3. QED
    BY <1>6, <2>1, <2>2 DEF U!Purge
(* Who builds or pushes waits for nothing, and nobody else is there.       *)
<1>7. CASE U!Build(p)
  <2>1. \A i \in U!Snaps : u_upload[i].state \in U!Alive => u_upload[i].orphan
    BY <1>7, Single DEF U!Build, Awaited
  <2>2. QED
    BY <1>7, <2>1 DEF U!Build, Awaited, U!server
<1>8. CASE U!Push(p)
  <2>1. \A i \in U!Snaps : u_upload[i].state \in U!Alive => u_upload[i].orphan
    BY <1>8, Single DEF U!Push, Awaited
  <2>2. /\ u_upload' = [u_upload EXCEPT ![u_snap] = [state |-> "spooled", by |-> p, orphan |-> FALSE]]
        /\ u_pc' = [u_pc EXCEPT ![p] = "pushed"] /\ UNCHANGED <<u_snap, u_lock>> /\ u_lock = p
    BY <1>8 DEF U!Push, Locked
  <2>3. SUFFICES ASSUME NEW i \in U!Snaps, u_upload'[i].state \in U!Alive, ~u_upload'[i].orphan
                 PROVE  i = u_snap /\ u_upload'[i].by = p
    BY <2>2, <2>3 DEF Awaited, SyncTyped
  <2>4. QED
    BY <2>1, <2>2, <2>3 DEF SyncTyped
<1>9. QED
  BY <1>2, <1>3, <1>4, <1>5, <1>6, <1>7, <1>8 DEF Collector

-----------------------------------------------------------------------------
(* The server touches neither the collectors nor the database.             *)
LEMMA ServerMoves ==
  ASSUME SyncTyped, NEW i \in U!Snaps, Server(i)
  PROVE  /\ UNCHANGED U!local /\ UNCHANGED u_acked
         /\ u_upload[i].state \in U!Alive
         /\ \A j \in U!Snaps \ {i} : u_upload'[j] = u_upload[j]
         /\ u_upload'[i].by = u_upload[i].by /\ u_upload'[i].orphan = u_upload[i].orphan
         /\ u_upload'[i].state # "absent"
<1>0. u_upload[i] \in Upload
  BY DEF SyncTyped
<1>1. ASSUME NEW state, U!To(i, state)
      PROVE  /\ \A j \in U!Snaps \ {i} : u_upload'[j] = u_upload[j]
             /\ u_upload'[i].by = u_upload[i].by /\ u_upload'[i].orphan = u_upload[i].orphan
             /\ u_upload'[i].state = state
  BY <1>0, <1>1 DEF U!To, SyncTyped, Upload
<1>2. CASE U!Spawn(i)
  BY <1>1, <1>2 DEF U!Spawn, U!Alive
<1>3. CASE U!TakeSlot(i)
  BY <1>1, <1>3 DEF U!TakeSlot, U!Alive
<1>4. CASE U!Write(i)
  BY <1>4 DEF U!Write, U!Alive
<1>5. CASE U!Commit(i)
  BY <1>1, <1>5 DEF U!Commit, U!Alive
<1>6. CASE U!Exit(i)
  <2>1. PICK end \in {"ok", "hold", "invalid", "timeout", "dead"} : U!Over(i, end)
    BY <1>6 DEF U!Exit
  <2>2. u_upload[i].state \in U!Alive
    BY <1>6 DEF U!Exit, U!Alive
  <2>3. QED
    BY <1>1, <2>1, <2>2 DEF U!Over, U!Answer
<1>7. QED
  BY <1>2, <1>3, <1>4, <1>5, <1>6 DEF Server

(* An import is served when it is committed, and not before.               *)
LEMMA ServerServes ==
  ASSUME SyncTyped, NEW i \in U!Snaps, Server(i)
  PROVE  \/ UNCHANGED <<u_serving, u_served>>
            /\ (u_upload'[i].state \in {"imported", "ok"} => u_upload[i].state \in {"imported", "ok"})
         \/ u_serving' = [id |-> i, parts |-> Sections] /\ u_served' = u_served \cup {i}
<1>0. u_upload[i] \in Upload
  BY DEF SyncTyped
<1>1. ASSUME NEW state, U!To(i, state) PROVE u_upload'[i].state = state
  BY <1>0, <1>1 DEF U!To, SyncTyped, Upload
<1>2. CASE U!Spawn(i) \/ U!TakeSlot(i)
  BY <1>1, <1>2 DEF U!Spawn, U!TakeSlot
<1>3. CASE U!Write(i)
  BY <1>3 DEF U!Write, U!Seen
<1>4. CASE U!Commit(i)
  BY <1>4 DEF U!Commit
<1>5. CASE U!Exit(i)
  <2>1. CASE u_upload[i].state = "imported" /\ U!Over(i, "ok")
    BY <2>1 DEF U!Over
  <2>2. CASE \E end \in {"hold", "invalid", "timeout", "dead"} : U!Over(i, end)
    BY <1>1, <2>2 DEF U!Over, U!Answer
  <2>3. QED
    BY <1>5, <2>1, <2>2 DEF U!Exit
<1>6. QED
  BY <1>2, <1>3, <1>4, <1>5 DEF Server

LEMMA ServerStep ==
  ASSUME U!SyncAssumption, SyncInv, NEW i \in U!Snaps, Server(i)
  PROVE  SyncInv'
<1>0. /\ SyncTyped /\ Locked /\ Numbered /\ Purged /\ Committed /\ Awaited
      /\ UNCHANGED <<u_today, u_db, u_lock, u_pc, u_began, u_snap, u_content, u_acked>>
  BY ServerMoves DEF SyncInv, U!local
<1>1. SyncTyped' /\ Locked' /\ Purged'
  BY <1>0, ServerTyped DEF Locked, Purged
<1>2. i <= u_snap /\ i \in U!Snaps
  BY <1>0, ServerMoves DEF Numbered, U!Alive
<1>3. Numbered'
  BY <1>0, <1>2, ServerMoves, ServerServes DEF Numbered
<1>4. Committed'
  BY <1>0, ServerMoves, ServerServes DEF Committed
<1>5. Awaited'
  BY <1>0, ServerMoves DEF Awaited
<1>6. QED
  BY <1>1, <1>3, <1>4, <1>5 DEF SyncInv

LEMMA StepSync ==
  ASSUME U!SyncAssumption, SyncInv, [U!Next]_(U!vars)
  PROVE  SyncInv'
<1>1. CASE U!Midnight
  <2>1. SyncTyped'
    BY <1>1 DEF U!Midnight, SyncInv, SyncTyped, U!server, U!SyncAssumption
  <2>2. QED
    BY <1>1, <2>1 DEF U!Midnight, SyncInv, U!server, Locked, Numbered, Purged, Committed, Awaited
<1>2. CASE U!OtherWorker
  <2>1. SyncTyped'
    BY <1>2 DEF U!OtherWorker, SyncInv, SyncTyped, U!local, U!Other
  <2>2. QED
    BY <1>2, <2>1 DEF U!OtherWorker, SyncInv, U!local, Locked, Numbered, Purged, Committed, Awaited
<1>3. ASSUME NEW p \in Collectors, Collector(p)
      PROVE  SyncInv'
  BY <1>3, CollectorTyped, CollectorLocked, CollectorNumbered, CollectorPurged,
     CollectorCommitted, CollectorAwaited DEF SyncInv
<1>4. ASSUME NEW i \in U!Snaps, Server(i)
      PROVE  SyncInv'
  BY <1>4, ServerStep
<1>5. CASE UNCHANGED U!vars
  BY <1>5 DEF U!vars, U!local, U!server, SyncInv, SyncTyped, Locked, Numbered, Purged, Committed, Awaited
<1>6. QED
  BY <1>1, <1>2, <1>3, <1>4, <1>5 DEF U!Next, Collector, Server

-----------------------------------------------------------------------------
(* The gate: the types of its rows and of the children.                    *)
Progress == [gen : 0..2, n : 0..MaxPages]
Memory == 0..MaxRaw
Token == G!Gens \cup {0}
GateRecord ==
  [held : 0..2, baseline : Memory, before : Memory, from : Progress, seen : Progress,
   token : Token, classified : BOOLEAN, hold : BOOLEAN, retry : BOOLEAN]
ChildStates == {"running", "ended", "memory", "limit"}

GateTyped ==
  /\ g_rows \in {"none", "all", "lost"} /\ g_rec \in [GateSources -> GateRecord]
  /\ g_slot = G!NoSlot \/ g_slot \in GateSources \X G!Gens
  /\ g_pages \in [GateSources -> [gen : 1..2, n : 0..MaxPages]] /\ g_raw \in 1..MaxRaw
  /\ g_tokens \in [GateSources -> Token]
  /\ g_job = G!NoJob \/ g_job \in [pc : {"reserve", "fork"}, source : GateSources, explicit : BOOLEAN]
  /\ g_proc \in Token
  /\ g_child \in [G!Gens -> {G!Unborn, G!Gone} \cup [source : GateSources, state : ChildStates]]
  /\ g_lock \in {"free", "launch", "idle"} /\ g_idle \in {"idle", "checked", "trim"}
  /\ g_requests \in {0, 1} /\ g_faults \in 0..MaxFaults
  /\ g_fruitless \in [GateSources -> Nat] /\ g_limited \in [GateSources -> BOOLEAN]

(* The launch lock is held for one launch or for one trim.                 *)
LockHeld ==
  /\ g_lock = "launch" <=> g_job # G!NoJob
  /\ g_lock = "idle" <=> g_idle # "idle"
  /\ g_job # G!NoJob => g_proc = 0
  /\ g_idle = "trim" => g_requests = 0 /\ g_proc = 0

(* A reservation that is about to fork is still the one in the slot.       *)
Reservation ==
  g_job.pc = "fork" =>
    /\ g_tokens[g_job.source] \in G!Gens /\ g_child[g_tokens[g_job.source]] = G!Unborn
    /\ g_rec[g_job.source].token = g_tokens[g_job.source]
    /\ g_slot = <<g_job.source, g_tokens[g_job.source]>>

(* A child that runs has the slot, and so has the one the web process owns *)
(* until it is reaped.                                                     *)
SlotOwned ==
  /\ \A g \in G!Gens : G!Running(g) => g_slot = <<g_child[g].source, g>> /\ g_rec[g_child[g].source].token = g
  /\ g_proc # 0 => /\ g_child[g_proc].state \in ChildStates
                   /\ g_tokens[g_child[g_proc].source] = g_proc
                   /\ g_rec[g_child[g_proc].source].token = g_proc
                   /\ g_slot = <<g_child[g_proc].source, g_proc>>

(* The count of a source nobody runs: it never passes what the record      *)
(* holds, nothing was committed since the record's progress was read, and  *)
(* memory did not fall below the baseline.                                 *)
AtRest(s) ==
  g_rec[s].token = 0 =>
    /\ g_fruitless[s] <= 2
    /\ ~g_rec[s].hold => g_fruitless[s] <= g_rec[s].held
    /\ g_fruitless[s] > 0 => ~G!Progressed(g_rec[s].seen, g_pages[s])
    /\ g_fruitless[s] > 0 /\ g_rec[s].held = 2 /\ g_rec[s].baseline > 0 => g_raw >= g_rec[s].baseline

(* The count of a source with a launch: the launch itself is in it, and    *)
(* nothing that would reset it has happened since.                         *)
InFlight(s) ==
  g_rec[s].token # 0 =>
    /\ g_rec[s].held < 2 /\ g_fruitless[s] <= g_rec[s].held + 1
    /\ g_rec[s].from.gen \in 1..g_pages[s].gen
    /\ g_fruitless[s] > 0 =>
         /\ g_pages[s] = g_rec[s].from \/ (g_pages[s].gen # g_rec[s].from.gen /\ g_pages[s].n = 0)
         /\ ~g_rec[s].classified /\ g_raw >= g_rec[s].before
    /\ g_fruitless[s] > 1 => ~G!Progressed(g_rec[s].seen, g_pages[s])

(* Where the memory of a response over the limit is kept, until an         *)
(* operator retries.                                                       *)
LimitKept ==
  /\ \A s \in GateSources : g_limited[s] /\ g_rec[s].token = 0 => g_rec[s].hold
  /\ g_job.pc = "fork" => ~g_limited[g_job.source]
  /\ \A g \in G!Gens : G!Running(g) => ~g_limited[g_child[g].source]
  /\ g_proc # 0 /\ g_limited[g_child[g_proc].source] => g_child[g_proc].state = "limit"

Counted(s) == AtRest(s) /\ InFlight(s) /\ (g_rec[s].held < 2 => g_rec[s].baseline = 0)
Owned == Reservation /\ SlotOwned /\ LimitKept
GateInv == GateTyped /\ LockHeld /\ Owned /\ \A s \in GateSources : Counted(s)

-----------------------------------------------------------------------------
(* What the operators of a record return.                                  *)
LEMMA DecidedRecord ==
  ASSUME G!GateAssumption, NEW r \in GateRecord, NEW memory, NEW p, NEW explicit,
         G!MayStart(r, memory, p, explicit)
  PROVE  /\ G!Decided(r) \in GateRecord /\ G!Decided(r).token = 0 /\ r.token = 0
         /\ G!Decided(r).seen = r.seen /\ G!Decided(r).hold = r.hold
         /\ r.hold \/ r.held < 2 => G!Decided(r) = r
         /\ ~r.hold => G!Decided(r).held < 2
         /\ ~r.hold /\ r.held = 2 => G!Decided(r).held = 0 /\ G!Decided(r).baseline = 0
<1> DEFINE c == [r EXCEPT !.held = 0, !.baseline = 0]
<1>1. 0 \in Memory /\ 0 \in 0..2
  BY DEF Memory, G!GateAssumption
<1>2. c \in GateRecord /\ c.token = r.token /\ c.seen = r.seen /\ c.hold = r.hold
      /\ c.held = 0 /\ c.baseline = 0
  BY <1>1 DEF GateRecord
<1>3. r.held \in 0..2
  BY DEF GateRecord
<1>4. QED
  BY <1>2, <1>3 DEF G!Decided, G!MayStart

LEMMA ReservedRecord ==
  ASSUME G!GateAssumption, NEW r \in GateRecord, g_raw \in 1..MaxRaw, NEW p \in Progress,
         NEW explicit \in BOOLEAN, NEW g \in G!Gens, G!MayStart(r, g_raw, p, explicit)
  PROVE  LET x == G!Reserved(r, g, p, explicit)
         IN  /\ x \in GateRecord /\ x.token = g /\ x.from = p /\ x.seen = r.seen
             /\ x.before = g_raw /\ ~x.classified /\ ~x.hold /\ x.retry = r.hold
             /\ r.hold => x.held = 0 /\ x.baseline = 0
             /\ ~r.hold => x.held = G!Decided(r).held /\ x.baseline = G!Decided(r).baseline
<1> DEFINE d == G!Decided(r)
           o == [d EXCEPT !.hold = FALSE, !.held = 0, !.baseline = 0]
<1>1. g_raw \in Memory /\ 0 \in Memory /\ g \in Token /\ 0 \in 0..2
  BY DEF Memory, G!GateAssumption, Token
<1>2. d \in GateRecord /\ d.seen = r.seen /\ d.hold = r.hold
  BY DecidedRecord
<1>3. r.hold => explicit
  BY DEF G!MayStart
<1>4. o \in GateRecord /\ o.seen = r.seen /\ ~o.hold /\ o.held = 0 /\ o.baseline = 0
  BY <1>1, <1>2 DEF GateRecord
<1>5. CASE r.hold
  <2>1. G!Reserved(r, g, p, explicit) = [o EXCEPT !.retry = TRUE, !.before = g_raw, !.from = p,
                                               !.token = g, !.classified = FALSE]
    BY <1>3, <1>5 DEF G!Reserved
  <2>2. QED
    BY <1>1, <1>4, <1>5, <2>1 DEF GateRecord
<1>6. CASE ~r.hold
  <2>1. G!Reserved(r, g, p, explicit) = [d EXCEPT !.retry = FALSE, !.before = g_raw, !.from = p,
                                               !.token = g, !.classified = FALSE]
    BY <1>6 DEF G!Reserved
  <2>2. QED
    BY <1>1, <1>2, <1>6, <2>1 DEF GateRecord
<1>7. QED
  BY <1>5, <1>6 DEF GateRecord

LEMMA FinalisedRecord ==
  ASSUME G!GateAssumption, NEW r \in GateRecord, g_raw \in 1..MaxRaw, NEW p \in Progress,
         NEW held \in BOOLEAN, NEW limit \in BOOLEAN, NEW failed \in BOOLEAN
  PROVE  LET x == G!Finalised(r, g_raw, p, held, limit, failed)
             hold == G!Holds(r, limit, failed, p)
             j == G!Judged(r, g_raw, p, held, failed)
         IN  /\ x \in GateRecord /\ x.token = 0 /\ (hold => x.hold)
             /\ x.seen = IF p = G!NoProof THEN r.seen ELSE p
             /\ hold => x.held = 2 /\ x.baseline = r.baseline
             /\ ~hold => x.held = j.held /\ x.baseline = j.baseline
<1> DEFINE hold == G!Holds(r, limit, failed, p)
           j == G!Judged(r, g_raw, p, held, failed)
           h == [r EXCEPT !.hold = TRUE, !.held = 2]
<1>1. g_raw \in Memory /\ 0 \in Memory /\ 0 \in Token /\ G!NoProof \in Progress
      /\ 0 \in 0..2 /\ 2 \in 0..2
  BY DEF Memory, G!GateAssumption, Token, G!NoProof, Progress
<1>2. j \in GateRecord /\ j.seen = r.seen
  <2> DEFINE With(n, b) == [r EXCEPT !.held = n, !.baseline = b]
  <2>1. ASSUME NEW n \in 0..2, NEW b \in Memory
        PROVE  With(n, b) \in GateRecord /\ With(n, b).seen = r.seen
    BY DEF GateRecord
  <2>2. r.held \in 0..2 /\ r.baseline \in Memory
    BY DEF GateRecord
  <2>3. PICK n \in 0..2 : n = IF r.held < 2 THEN r.held + 1 ELSE 2
    BY <2>2
  <2>4. PICK b \in Memory : b = IF n = 2 THEN g_raw ELSE r.baseline
    BY <1>1, <2>2
  <2>5. j = r \/ j = With(2, 0) \/ j = With(0, 0) \/ j = With(n, b)
    BY <2>3, <2>4 DEF G!Judged
  <2> HIDE DEF With
  <2>6. QED
    BY <1>1, <2>1, <2>5
<1>3. h \in GateRecord /\ h.seen = r.seen /\ h.hold /\ h.held = 2 /\ h.baseline = r.baseline
  BY <1>1 DEF GateRecord
<1>4. CASE hold
  <2>1. G!Finalised(r, g_raw, p, held, limit, failed)
          = [h EXCEPT !.seen = IF p = G!NoProof THEN @ ELSE p, !.token = 0, !.from = G!NoProof,
                      !.before = 0, !.retry = FALSE, !.classified = FALSE]
    BY <1>4 DEF G!Finalised
  <2>2. QED
    BY <1>1, <1>3, <1>4, <2>1 DEF GateRecord
<1>5. CASE ~hold
  <2>1. G!Finalised(r, g_raw, p, held, limit, failed)
          = [j EXCEPT !.seen = IF p = G!NoProof THEN @ ELSE p, !.token = 0, !.from = G!NoProof,
                      !.before = 0, !.retry = FALSE, !.classified = FALSE]
    BY <1>5 DEF G!Finalised
  <2>2. QED
    BY <1>1, <1>2, <1>5, <2>1 DEF GateRecord
<1>6. QED
  BY <1>4, <1>5

LEMMA SwapRecord ==
  ASSUME GateTyped, NEW s \in GateSources, NEW x \in GateRecord, G!Swap(s, x)
  PROVE  /\ g_rec' \in [GateSources -> GateRecord] /\ g_rec'[s] = x
         /\ \A t \in GateSources : t # s => g_rec'[t] = g_rec[t]
         /\ g_slot' = G!NoSlot \/ g_slot' \in GateSources \X G!Gens
         /\ x.token = g_rec[s].token => g_slot' = g_slot
         /\ x.token # g_rec[s].token => g_slot' = IF x.token = 0 THEN G!NoSlot ELSE <<s, x.token>>
<1>1. x.token \in G!Gens \cup {0}
  BY DEF GateRecord, Token
<1>2. QED
  BY <1>1 DEF G!Swap, GateTyped

LEMMA ReadProgress ==
  ASSUME G!GateAssumption, GateTyped, NEW s \in GateSources, NEW p \in G!Proof(s), G!ReadFault(p)
  PROVE  p \in Progress /\ (p = G!NoProof \/ p = g_pages[s]) /\ g_faults' \in 0..MaxFaults
<1>1. g_pages[s] \in Progress /\ G!NoProof \in Progress
  BY DEF GateTyped, Progress, G!NoProof, G!GateAssumption
<1>2. QED
  BY <1>1 DEF GateTyped, G!Proof, G!ReadFault, G!Fault, G!GateAssumption

(* A record that may start: its count fits what Decided leaves of it.      *)
LEMMA StartCounts ==
  ASSUME G!GateAssumption, GateInv, NEW s \in GateSources, NEW p \in {g_pages[s], G!NoProof},
         NEW explicit, G!MayStart(g_rec[s], g_raw, p, explicit)
  PROVE  /\ p = g_pages[s] /\ g_rec[s].token = 0
         /\ ~g_rec[s].hold => g_fruitless[s] <= G!Decided(g_rec[s]).held
         /\ g_fruitless[s] > 0 => ~G!Progressed(g_rec[s].seen, g_pages[s])
<1>1. g_rec[s] \in GateRecord /\ g_rec[s].held \in 0..2 /\ g_rec[s].baseline \in 0..MaxRaw
      /\ g_raw \in 1..MaxRaw /\ g_fruitless[s] \in Nat
  BY DEF GateInv, GateTyped, GateRecord, Memory
<1>2. p = g_pages[s] /\ g_rec[s].token = 0 /\ AtRest(s)
  BY DEF G!MayStart, GateInv, Counted
<1>3. CASE g_rec[s].hold \/ g_rec[s].held < 2
  BY <1>1, <1>2, <1>3, DecidedRecord DEF AtRest
<1>4. CASE ~g_rec[s].hold /\ g_rec[s].held = 2
  <2>1. \/ G!Progressed(g_rec[s].seen, g_pages[s])
        \/ g_rec[s].baseline > 0 /\ G!Recovered(g_raw, g_rec[s].baseline)
    BY <1>2, <1>4 DEF G!MayStart
  <2>2. g_fruitless[s] = 0
    BY <1>1, <1>2, <1>4, <2>1, G!GateAssumption DEF AtRest, G!Recovered, G!GateAssumption
  <2>3. G!Decided(g_rec[s]).held = 0
    BY <1>1, <1>4, DecidedRecord
  <2>4. QED
    BY <1>2, <2>2, <2>3
<1>5. QED
  BY <1>1, <1>3, <1>4

(* A recorded exit: the record and the slot are free again.                *)
ExitLeaves(s, p, held, limit, failed) ==
  LET r == g_rec[s]
      hold == G!Holds(r, limit, failed, p)
      j == G!Judged(r, g_raw, p, held, failed)
  IN  /\ g_rec' \in [GateSources -> GateRecord] /\ \A t \in GateSources : t # s => g_rec'[t] = g_rec[t]
      /\ g_slot = <<s, g_tokens[s]>> /\ r.token = g_tokens[s] /\ g_slot' = G!NoSlot
      /\ g_rec'[s].token = 0 /\ (hold => g_rec'[s].hold)
      /\ g_rec'[s].seen = IF p = G!NoProof THEN r.seen ELSE g_pages[s]
      /\ hold => g_rec'[s].held = 2 /\ g_rec'[s].baseline = r.baseline
      /\ ~hold => g_rec'[s].held = j.held /\ g_rec'[s].baseline = j.baseline
      /\ g_tokens' = [g_tokens EXCEPT ![s] = 0] /\ g_faults' \in 0..MaxFaults
      /\ p = G!NoProof \/ p = g_pages[s]

LEMMA RecordedExit ==
  ASSUME G!GateAssumption, GateTyped, NEW s \in GateSources, NEW p \in G!Proof(s), NEW held \in BOOLEAN,
         NEW limit \in BOOLEAN, NEW failed \in BOOLEAN, G!RecordExit(s, p, held, limit, failed)
  PROVE  ExitLeaves(s, p, held, limit, failed)
<1> DEFINE x == G!Finalised(g_rec[s], g_raw, p, held, limit, failed)
<1>1. g_rec[s] \in GateRecord /\ g_raw \in 1..MaxRaw
  BY DEF GateTyped
<1>2. p \in Progress /\ (p = G!NoProof \/ p = g_pages[s]) /\ g_faults' \in 0..MaxFaults
  BY ReadProgress DEF G!RecordExit
<1>3. /\ x \in GateRecord /\ x.token = 0 /\ x.seen = IF p = G!NoProof THEN g_rec[s].seen ELSE p
      /\ LET hold == G!Holds(g_rec[s], limit, failed, p)
             j == G!Judged(g_rec[s], g_raw, p, held, failed)
         IN  /\ hold => x.hold /\ x.held = 2 /\ x.baseline = g_rec[s].baseline
             /\ ~hold => x.held = j.held /\ x.baseline = j.baseline
  BY <1>1, <1>2, FinalisedRecord
<1>4. G!Swap(s, x)
  BY DEF G!RecordExit
<1>5. /\ g_slot = <<s, g_tokens[s]>> /\ g_rec[s].token = g_tokens[s] /\ g_tokens[s] # 0
      /\ g_tokens' = [g_tokens EXCEPT ![s] = 0]
  BY DEF G!RecordExit, G!Sound
<1> HIDE DEF x
<1>6. /\ g_rec' \in [GateSources -> GateRecord] /\ g_rec'[s] = x /\ g_slot' = G!NoSlot
      /\ \A t \in GateSources : t # s => g_rec'[t] = g_rec[t]
  BY <1>3, <1>4, <1>5, SwapRecord
<1>7. QED
  BY <1>2, <1>3, <1>5, <1>6 DEF ExitLeaves

-----------------------------------------------------------------------------
LEMMA InitGate ==
  ASSUME G!GateAssumption, G!Init
  PROVE  GateInv
<1>1. MaxRaw \in Nat /\ MaxPages \in Nat /\ MaxFaults \in Nat /\ MaxGens \in Nat /\ g_raw \in 1..MaxRaw
  BY DEF G!GateAssumption, G!Init
<1>2. G!NewRecord \in GateRecord
  BY <1>1 DEF G!NewRecord, GateRecord, Memory, Token, Progress, G!NoProof
<1>3. g_rec = [s \in GateSources |-> G!NewRecord] /\ g_pages \in [GateSources -> [gen : 1..2, n : 0..MaxPages]]
  BY <1>1 DEF G!Init
<1>4. GateTyped
  BY <1>1, <1>2, <1>3 DEF G!Init, GateTyped, Token
<1>5. LockHeld /\ Reservation /\ SlotOwned
  BY DEF G!Init, LockHeld, Reservation, SlotOwned, G!NoJob, G!Running, G!Unborn
<1>6. LimitKept
  BY DEF G!Init, LimitKept, G!NoJob, G!Running, G!Unborn
<1>7. \A s \in GateSources : Counted(s)
  BY <1>3 DEF G!Init, Counted, AtRest, InFlight, G!NewRecord
<1>8. QED
  BY <1>4, <1>5, <1>6, <1>7 DEF GateInv, Owned

(* What a running child, or the one the web process owns, is.              *)
LEMMA ChildOf ==
  ASSUME GateTyped, NEW g \in G!Gens, g_child[g].state \in ChildStates
  PROVE  g_child[g] \in [source : GateSources, state : ChildStates] /\ g_child[g].source \in GateSources
<1>1. G!Unborn.state = "unborn" /\ G!Gone.state = "gone"
  BY DEF G!Unborn, G!Gone
<1>2. g_child[g] # G!Unborn /\ g_child[g] # G!Gone
  BY <1>1 DEF ChildStates
<1>3. QED
  BY <1>2 DEF GateTyped

LEMMA JobOf ==
  ASSUME GateTyped, g_job.pc \in {"reserve", "fork"}
  PROVE  /\ g_job \in [pc : {"reserve", "fork"}, source : GateSources, explicit : BOOLEAN]
         /\ g_job.source \in GateSources /\ g_job.explicit \in BOOLEAN /\ g_job # G!NoJob
<1>1. G!NoJob.pc = "idle"
  BY DEF G!NoJob
<1>2. QED
  BY <1>1 DEF GateTyped

LEMMA WebTyped ==
  ASSUME G!GateAssumption, GateTyped, G!WebNext
  PROVE  GateTyped'
<1>0. g_raw \in 1..MaxRaw /\ MaxRaw \in Nat /\ g_rec \in [GateSources -> GateRecord]
      /\ g_tokens \in [GateSources -> Token]
  BY DEF GateTyped, G!GateAssumption
<1>1. CASE G!Initialize
  BY <1>1 DEF G!Initialize, G!Install, GateTyped, G!recovery, G!history
<1>2. ASSUME NEW s \in GateSources, G!Admission(s)
      PROVE  GateTyped'
  <2>1. PICK explicit \in BOOLEAN, p \in G!Proof(s) :
          /\ G!ReadFault(p)
          /\ IF G!Admitted /\ G!Sound(s) /\ G!Idle(s) /\ G!MayStart(g_rec[s], g_raw, p, explicit)
               THEN /\ G!Swap(s, G!Decided(g_rec[s])) /\ g_lock' = "launch"
                    /\ g_job' = [pc |-> "reserve", source |-> s, explicit |-> explicit]
               ELSE UNCHANGED <<g_rec, g_slot, g_lock, g_job>>
    BY <1>2 DEF G!Admission
  <2>2. g_faults' \in 0..MaxFaults
    BY <2>1, ReadProgress
  <2>3. CASE UNCHANGED <<g_rec, g_slot, g_lock, g_job>>
    BY <1>2, <2>2, <2>3 DEF G!Admission, GateTyped, G!recovery, G!history
  <2>4. CASE /\ G!MayStart(g_rec[s], g_raw, p, explicit) /\ G!Swap(s, G!Decided(g_rec[s])) /\ g_lock' = "launch"
             /\ g_job' = [pc |-> "reserve", source |-> s, explicit |-> explicit]
    <3>1. G!Decided(g_rec[s]) \in GateRecord
      BY <1>0, <2>4, DecidedRecord
    <3>2. g_rec' \in [GateSources -> GateRecord]
                          /\ (g_slot' = G!NoSlot \/ g_slot' \in GateSources \X G!Gens)
      BY <2>4, <3>1, SwapRecord
    <3>3. g_job' \in [pc : {"reserve", "fork"}, source : GateSources, explicit : BOOLEAN]
      BY <2>4
    <3>4. QED
      BY <1>2, <2>2, <2>4, <3>2, <3>3 DEF G!Admission, GateTyped, G!recovery, G!history
  <2>5. QED
    BY <2>1, <2>3, <2>4
<1>3. CASE G!RecordLaunch
  <2> DEFINE s == g_job.source
  <2>1. s \in GateSources /\ g_job.explicit \in BOOLEAN
    BY <1>3, JobOf DEF G!RecordLaunch
  <2>2. PICK p \in G!Proof(s) :
          /\ G!ReadFault(p)
          /\ IF G!Admitted /\ G!Sound(s) /\ G!Idle(s) /\ G!MayStart(g_rec[s], g_raw, p, g_job.explicit)
               THEN /\ G!Swap(s, G!Reserved(g_rec[s], G!FreshGen, p, g_job.explicit))
                    /\ g_tokens' = [g_tokens EXCEPT ![s] = G!FreshGen]
                    /\ g_job' = [g_job EXCEPT !.pc = "fork"] /\ UNCHANGED g_lock
                    /\ g_fruitless' = [g_fruitless EXCEPT ![s] = IF g_rec'[s].retry THEN 1 ELSE @ + 1]
                    /\ g_limited' = [g_limited EXCEPT ![s] = @ /\ ~g_rec'[s].retry]
               ELSE /\ g_job' = G!NoJob /\ g_lock' = "free" /\ UNCHANGED <<g_rec, g_slot, g_tokens, G!history>>
    BY <1>3 DEF G!RecordLaunch
  <2>3. g_faults' \in 0..MaxFaults /\ p \in Progress
    BY <2>1, <2>2, ReadProgress
  <2>4. CASE /\ g_job' = G!NoJob /\ g_lock' = "free" /\ UNCHANGED <<g_rec, g_slot, g_tokens, G!history>>
    BY <1>3, <2>3, <2>4 DEF G!RecordLaunch, GateTyped, G!recovery, G!history
  <2>5. CASE /\ G!MayStart(g_rec[s], g_raw, p, g_job.explicit)
             /\ G!Swap(s, G!Reserved(g_rec[s], G!FreshGen, p, g_job.explicit))
             /\ g_tokens' = [g_tokens EXCEPT ![s] = G!FreshGen]
             /\ g_job' = [g_job EXCEPT !.pc = "fork"] /\ UNCHANGED g_lock
             /\ g_fruitless' = [g_fruitless EXCEPT ![s] = IF g_rec'[s].retry THEN 1 ELSE @ + 1]
             /\ g_limited' = [g_limited EXCEPT ![s] = @ /\ ~g_rec'[s].retry]
    <3>1. G!FreshGen \in G!Gens
      BY <1>3 DEF G!RecordLaunch, G!FreshGen
    <3>2. G!Reserved(g_rec[s], G!FreshGen, p, g_job.explicit) \in GateRecord
      BY <1>0, <2>1, <2>3, <2>5, <3>1, ReservedRecord
    <3>3. g_rec' \in [GateSources -> GateRecord]
                          /\ (g_slot' = G!NoSlot \/ g_slot' \in GateSources \X G!Gens)
      BY <2>1, <2>5, <3>2, SwapRecord
    <3>4. g_tokens' \in [GateSources -> Token]
      BY <1>0, <2>5, <3>1 DEF Token
    <3>5. g_fruitless' \in [GateSources -> Nat] /\ g_limited' \in [GateSources -> BOOLEAN]
      <4>1. g_fruitless \in [GateSources -> Nat] /\ g_limited \in [GateSources -> BOOLEAN]
        BY DEF GateTyped
      <4>2. (IF g_rec'[s].retry THEN 1 ELSE g_fruitless[s] + 1) \in Nat
        BY <2>1, <4>1
      <4>3. (g_limited[s] /\ ~g_rec'[s].retry) \in BOOLEAN
        OBVIOUS
      <4>4. g_fruitless' \in [GateSources -> Nat]
        BY <2>5, <4>1, <4>2
      <4>5. g_limited' \in [GateSources -> BOOLEAN]
        BY <2>5, <4>1, <4>3, Zenon
      <4>6. QED
        BY <4>4, <4>5
    <3>6. g_job' \in [pc : {"reserve", "fork"}, source : GateSources, explicit : BOOLEAN]
      BY <1>3, <2>5, JobOf DEF G!RecordLaunch
    <3>7. QED
      BY <1>3, <2>3, <2>5, <3>3, <3>4, <3>5, <3>6 DEF G!RecordLaunch, GateTyped, G!recovery
  <2>6. QED
    BY <2>2, <2>4, <2>5
<1>4. CASE G!Fork
  <2>1. g_job.source \in GateSources /\ g_tokens[g_job.source] \in Token
    BY <1>4, JobOf DEF G!Fork, GateTyped
  <2>2. g_child' \in [G!Gens -> {G!Unborn, G!Gone} \cup [source : GateSources, state : ChildStates]]
    BY <1>4, <2>1 DEF G!Fork, GateTyped, ChildStates
  <2>3. QED
    BY <1>4, <2>1, <2>2 DEF G!Fork, GateTyped, G!durable, G!recovery, G!history
<1>5. ASSUME NEW s \in GateSources, NEW p \in G!Proof(s), NEW held \in BOOLEAN, NEW limit \in BOOLEAN,
             NEW failed \in BOOLEAN, G!RecordExit(s, p, held, limit, failed)
      PROVE  /\ g_rec' \in [GateSources -> GateRecord] /\ g_slot' = G!NoSlot
             /\ g_tokens' \in [GateSources -> Token] /\ g_faults' \in 0..MaxFaults
  BY <1>0, <1>5, RecordedExit DEF Token, ExitLeaves
<1>6. ASSUME NEW s \in GateSources, G!Unrecorded(s)
      PROVE  UNCHANGED <<g_rec, g_slot, g_tokens>> /\ g_faults' \in 0..MaxFaults
  BY <1>6 DEF G!Unrecorded, G!Fault, GateTyped, G!GateAssumption
<1>7. CASE G!SpawnFails
  <2> DEFINE s == g_job.source
  <2>1. s \in GateSources
    BY <1>7, JobOf DEF G!SpawnFails
  <2>2. /\ g_rec' \in [GateSources -> GateRecord]
                          /\ (g_slot' = G!NoSlot \/ g_slot' \in GateSources \X G!Gens)
        /\ g_tokens' \in [GateSources -> Token] /\ g_faults' \in 0..MaxFaults
    BY <1>5, <1>6, <1>7, <2>1 DEF G!SpawnFails, GateTyped
  <2>3. g_fruitless' \in [GateSources -> Nat] /\ g_limited' \in [GateSources -> BOOLEAN]
    <3>1. g_fruitless \in [GateSources -> Nat] /\ g_limited \in [GateSources -> BOOLEAN]
      BY DEF GateTyped
    <3>2. G!OneLess(g_fruitless[s]) \in Nat
      BY <2>1, <3>1 DEF G!OneLess
    <3>3. (g_limited[s] \/ g_rec[s].retry) \in BOOLEAN
      OBVIOUS
    <3>4. g_fruitless' \in [GateSources -> Nat]
      BY <1>7, <3>1, <3>2 DEF G!SpawnFails
    <3>5. g_limited' \in [GateSources -> BOOLEAN]
      BY <1>7, <3>1, <3>3, Zenon DEF G!SpawnFails
    <3>6. QED
      BY <3>4, <3>5
  <2>4. QED
    BY <1>7, <2>2, <2>3 DEF G!SpawnFails, GateTyped, G!recovery
<1>8. CASE G!Reap
  <2> DEFINE c == g_child[g_proc]
  <2>1. g_proc \in G!Gens /\ c.source \in GateSources
    BY <1>8, ChildOf DEF G!Reap, GateTyped, Token, ChildStates
  <2>2. /\ g_rec' \in [GateSources -> GateRecord]
                          /\ (g_slot' = G!NoSlot \/ g_slot' \in GateSources \X G!Gens)
        /\ g_tokens' \in [GateSources -> Token] /\ g_faults' \in 0..MaxFaults
    BY <1>5, <1>6, <1>8, <2>1 DEF G!Reap, GateTyped
  <2>3. g_fruitless' \in [GateSources -> Nat]
    <3>1. g_fruitless \in [GateSources -> Nat]
      BY DEF GateTyped
    <3>2. G!OneLess(g_fruitless[c.source]) \in Nat
      BY <2>1, <3>1 DEF G!OneLess
    <3>3. \A n \in Nat : [g_fruitless EXCEPT ![c.source] = n] \in [GateSources -> Nat]
      BY <2>1, <3>1
    <3>4. \E n \in Nat : g_fruitless' = [g_fruitless EXCEPT ![c.source] = n]
      BY <1>8, <2>1, <3>1, <3>2 DEF G!Reap
    <3>5. QED
      BY <3>3, <3>4
  <2>4. g_child' \in [G!Gens -> {G!Unborn, G!Gone} \cup [source : GateSources, state : ChildStates]]
    BY <1>8 DEF G!Reap, GateTyped
  <2>5. QED
    BY <1>8, <2>2, <2>3, <2>4 DEF G!Reap, GateTyped, G!recovery, Token
<1>9. CASE G!IdleStart \/ G!IdleRecheck \/ G!RequestStarts
  BY <1>9 DEF G!IdleStart, G!IdleRecheck, G!RequestStarts, GateTyped, G!durable, G!recovery, G!history
<1>10. CASE G!IdleTrim \/ G!RequestEnds
  <2>1. g_fruitless' \in [GateSources -> Nat] /\ g_raw' \in 1..MaxRaw
    BY <1>0, <1>10 DEF G!IdleTrim, G!RequestEnds, G!Fell, GateTyped
  <2>2. QED
    BY <1>10, <2>1 DEF G!IdleTrim, G!RequestEnds, GateTyped, G!durable
<1>11. QED
  BY <1>1, <1>2, <1>3, <1>4, <1>7, <1>8, <1>9, <1>10 DEF G!WebNext

LEMMA ChildTyped ==
  ASSUME G!GateAssumption, GateTyped, NEW g \in G!Gens, G!ChildNext(g)
  PROVE  GateTyped'
<1> DEFINE s == g_child[g].source
           Children == [G!Gens -> {G!Unborn, G!Gone} \cup [source : GateSources, state : ChildStates]]
<1>1. G!Running(g) /\ s \in GateSources /\ g_child[g] \in [source : GateSources, state : ChildStates]
  BY ChildOf DEF G!ChildNext, G!CommitPage, G!NewScope, G!Classify, G!MeetsLimit, G!Exits, G!Running,
     ChildStates
<1>2. ASSUME NEW how \in ChildStates, G!End(g, how)
      PROVE  g_child' \in Children
  BY <1>1, <1>2 DEF G!End, GateTyped
<1>3. g_rec[s] \in GateRecord
  BY <1>1 DEF GateTyped
<1>4. G!Fault => g_faults' \in 0..MaxFaults
  BY DEF G!Fault, GateTyped, G!GateAssumption
<1>5. G!Fruit(s) => g_fruitless' \in [GateSources -> Nat] /\ UNCHANGED g_limited
  <2>1. g_fruitless \in [GateSources -> Nat]
    BY DEF GateTyped
  <2>2. 0 \in Nat /\ [g_fruitless EXCEPT ![s] = 0] \in [GateSources -> Nat]
    BY <2>1
  <2>3. QED
    BY <2>2 DEF G!Fruit
<1>6. CASE G!CommitPage(g)
  <2>1. g_pages' \in [GateSources -> [gen : 1..2, n : 0..MaxPages]]
    BY <1>1, <1>6 DEF G!CommitPage, GateTyped, G!GateAssumption
  <2>2. QED
    BY <1>5, <1>6, <2>1 DEF G!CommitPage, GateTyped, G!recovery
<1>7. CASE G!NewScope(g)
  <2>1. g_pages' \in [GateSources -> [gen : 1..2, n : 0..MaxPages]]
    BY <1>1, <1>7 DEF G!NewScope, GateTyped, G!GateAssumption
  <2>2. QED
    BY <1>7, <2>1 DEF G!NewScope, GateTyped, G!recovery, G!history
<1>8. CASE G!Classify(g)
  <2> DEFINE x == [g_rec[s] EXCEPT !.classified = TRUE]
  <2>1. x \in GateRecord
    BY <1>3 DEF GateRecord
  <2>2. G!Swap(s, x) => g_rec' \in [GateSources -> GateRecord]
                          /\ (g_slot' = G!NoSlot \/ g_slot' \in GateSources \X G!Gens)
    BY <1>1, <2>1, SwapRecord
  <2> HIDE DEF x
  <2>3. CASE G!OwnRecord(g) /\ G!Swap(s, x) /\ G!Fruit(s) /\ UNCHANGED <<g_child, g_faults>>
    BY <1>5, <1>8, <2>2, <2>3 DEF G!Classify, GateTyped, G!recovery
  <2>4. CASE G!Fault /\ G!End(g, "memory") /\ UNCHANGED <<g_rec, g_slot, G!history>>
    <3>1. g_child' \in Children
      BY <1>2, <2>4 DEF ChildStates
    <3>2. QED
      BY <1>4, <1>8, <2>4, <3>1 DEF G!Classify, GateTyped, G!recovery, G!history
  <2>5. QED
    BY <1>8, <2>3, <2>4 DEF G!Classify, x
<1>9. CASE G!MeetsLimit(g)
  <2> DEFINE x == [g_rec[s] EXCEPT !.hold = TRUE]
  <2>1. x \in GateRecord
    BY <1>3 DEF GateRecord
  <2>2. G!Swap(s, x) => g_rec' \in [GateSources -> GateRecord]
                          /\ (g_slot' = G!NoSlot \/ g_slot' \in GateSources \X G!Gens)
    BY <1>1, <2>1, SwapRecord
  <2> HIDE DEF x
  <2>3. g_child' \in Children /\ g_limited' \in [GateSources -> BOOLEAN]
    BY <1>2, <1>9 DEF G!MeetsLimit, ChildStates, GateTyped
  <2>4. \/ G!Swap(s, x) /\ UNCHANGED g_faults
        \/ g_faults' \in 0..MaxFaults /\ UNCHANGED <<g_rec, g_slot>>
    BY <1>4, <1>9 DEF G!MeetsLimit, x
  <2>5. QED
    BY <1>9, <2>2, <2>3, <2>4 DEF G!MeetsLimit, GateTyped, G!recovery
<1>10. CASE G!Exits(g)
  <2>1. g_child' \in Children
    BY <1>2, <1>10 DEF G!Exits, ChildStates
  <2>2. QED
    BY <1>10, <2>1 DEF G!Exits, GateTyped, G!durable, G!recovery, G!history
<1>11. QED
  BY <1>6, <1>7, <1>8, <1>9, <1>10 DEF G!ChildNext

LEMMA StepTyped ==
  ASSUME G!GateAssumption, GateTyped, [G!Next]_(G!vars)
  PROVE  GateTyped'
<1>1. CASE G!LoseRow
  BY <1>1 DEF G!LoseRow, G!Fault, GateTyped, G!GateAssumption, G!recovery, G!history
<1>2. CASE G!Restart
  BY <1>2 DEF G!Restart, G!Fault, GateTyped, G!GateAssumption, G!durable, G!history, Token
<1>3. CASE UNCHANGED G!vars
  BY <1>3 DEF G!vars, GateTyped, G!durable, G!recovery, G!history
<1>4. QED
  BY <1>1, <1>2, <1>3, WebTyped, ChildTyped DEF G!Next

LEMMA StepLockHeld ==
  ASSUME GateTyped, LockHeld, [G!Next]_(G!vars)
  PROVE  LockHeld'
<1>1. g_job.pc # "idle" => g_job # G!NoJob
  <2>1. G!NoJob.pc = "idle"
    BY DEF G!NoJob
  <2>2. QED
    BY <2>1
<1>2. CASE G!Initialize \/ G!LoseRow
  BY <1>2 DEF G!Initialize, G!LoseRow, LockHeld, G!recovery
<1>3. ASSUME NEW s \in GateSources, G!Admission(s)
      PROVE  LockHeld'
  <2>1. \A explicit \in BOOLEAN : [pc |-> "reserve", source |-> s, explicit |-> explicit] # G!NoJob
    BY DEF G!NoJob
  <2>2. QED
    BY <1>3, <2>1 DEF G!Admission, LockHeld, G!recovery
<1>4. CASE G!RecordLaunch
  <2>1. [g_job EXCEPT !.pc = "fork"] # G!NoJob
    BY <1>4, JobOf DEF G!RecordLaunch, G!NoJob
  <2>2. QED
    BY <1>1, <1>4, <2>1 DEF G!RecordLaunch, LockHeld, G!recovery
<1>5. CASE G!Fork \/ G!SpawnFails
  BY <1>1, <1>5 DEF G!Fork, G!SpawnFails, LockHeld, G!recovery
<1>6. CASE G!Reap
  BY <1>6 DEF G!Reap, LockHeld, G!recovery
<1>7. CASE G!Restart
  BY <1>7 DEF G!Restart, LockHeld
<1>8. CASE G!IdleStart \/ G!IdleRecheck \/ G!IdleTrim \/ G!RequestStarts \/ G!RequestEnds
  BY <1>8 DEF G!IdleStart, G!IdleRecheck, G!IdleTrim, G!RequestStarts, G!RequestEnds, LockHeld,
     G!Quiet, G!Busy
<1>9. ASSUME NEW g \in G!Gens, G!ChildNext(g)
      PROVE  LockHeld'
  BY <1>9 DEF G!ChildNext, G!CommitPage, G!NewScope, G!Classify, G!MeetsLimit, G!Exits, LockHeld, G!recovery
<1>10. CASE UNCHANGED G!vars
  BY <1>10 DEF G!vars, G!recovery, LockHeld
<1>11. QED
  BY <1>2, <1>3, <1>4, <1>5, <1>6, <1>7, <1>8, <1>9, <1>10 DEF G!Next, G!WebNext

-----------------------------------------------------------------------------
(* The count of a source only falls in a step that leaves its record and   *)
(* its progress alone, and memory falls only with the count.               *)
LEMMA CountFalls ==
  ASSUME G!GateAssumption, GateTyped, GateTyped', NEW s \in GateSources, Counted(s), g_rec'[s] = g_rec[s],
         g_pages'[s] = g_pages[s], g_fruitless'[s] <= g_fruitless[s],
         g_fruitless'[s] > 0 => g_raw' >= g_raw
  PROVE  Counted(s)'
<1>1. /\ g_fruitless[s] \in Nat /\ g_fruitless'[s] \in Nat /\ g_raw \in Int /\ g_raw' \in Int
      /\ g_rec[s].held \in 0..2 /\ g_rec[s].baseline \in Int /\ g_rec[s].before \in Int
  BY DEF GateTyped, GateRecord, Memory
<1>2. AtRest(s)'
  BY <1>1 DEF Counted, AtRest
<1>3. InFlight(s)'
  BY <1>1 DEF Counted, InFlight
<1>4. QED
  BY <1>2, <1>3 DEF Counted

(* Only one child runs, and it has the slot; so none runs while the slot   *)
(* is reserved for a launch or held by a child that is gone.               *)
LEMMA SlotIsOne ==
  ASSUME GateTyped, SlotOwned, NEW s \in GateSources, NEW g \in G!Gens, g_slot = <<s, g>>
  PROVE  \A h \in G!Gens : G!Running(h) => h = g /\ g_child[h].source = s
BY DEF SlotOwned

LEMMA RecordLaunchStep ==
  ASSUME G!GateAssumption, GateInv, GateTyped', G!RecordLaunch
  PROVE  Owned' /\ \A t \in GateSources : Counted(t)'
<1>0. PICK s \in GateSources : s = g_job.source
  BY JobOf DEF G!RecordLaunch, GateInv
<1>1. g_job.explicit \in BOOLEAN /\ g_proc = 0 /\ g_rec[s] \in GateRecord
  BY JobOf DEF G!RecordLaunch, GateInv, GateTyped, LockHeld
<1>2. PICK p \in G!Proof(s) :
        /\ G!ReadFault(p)
        /\ IF G!Admitted /\ G!Sound(s) /\ G!Idle(s) /\ G!MayStart(g_rec[s], g_raw, p, g_job.explicit)
             THEN /\ G!Swap(s, G!Reserved(g_rec[s], G!FreshGen, p, g_job.explicit))
                  /\ g_tokens' = [g_tokens EXCEPT ![s] = G!FreshGen]
                  /\ g_job' = [g_job EXCEPT !.pc = "fork"] /\ UNCHANGED g_lock
                  /\ g_fruitless' = [g_fruitless EXCEPT ![s] = IF g_rec'[s].retry THEN 1 ELSE @ + 1]
                  /\ g_limited' = [g_limited EXCEPT ![s] = @ /\ ~g_rec'[s].retry]
             ELSE /\ g_job' = G!NoJob /\ g_lock' = "free" /\ UNCHANGED <<g_rec, g_slot, g_tokens, G!history>>
  BY <1>0 DEF G!RecordLaunch
<1>3. CASE g_job' = G!NoJob /\ g_lock' = "free" /\ UNCHANGED <<g_rec, g_slot, g_tokens, G!history>>
  <2>1. Owned'
    BY <1>3 DEF G!RecordLaunch, GateInv, Owned, Reservation, SlotOwned, LimitKept, G!NoJob, G!history,
       G!Running
  <2>2. \A t \in GateSources : Counted(t)'
    BY <1>3 DEF G!RecordLaunch, GateInv, Counted, AtRest, InFlight, G!history
  <2>3. QED
    BY <2>1, <2>2
<1>4. CASE /\ G!Sound(s) /\ G!Idle(s) /\ G!MayStart(g_rec[s], g_raw, p, g_job.explicit)
           /\ G!Swap(s, G!Reserved(g_rec[s], G!FreshGen, p, g_job.explicit))
           /\ g_tokens' = [g_tokens EXCEPT ![s] = G!FreshGen]
           /\ g_job' = [g_job EXCEPT !.pc = "fork"]
           /\ g_fruitless' = [g_fruitless EXCEPT ![s] = IF g_rec'[s].retry THEN 1 ELSE @ + 1]
           /\ g_limited' = [g_limited EXCEPT ![s] = @ /\ ~g_rec'[s].retry]
  <2> DEFINE g == G!FreshGen
             x == G!Reserved(g_rec[s], g, p, g_job.explicit)
  <2>1. g \in G!Gens /\ g_child[g] = G!Unborn
    BY DEF G!RecordLaunch, G!FreshGen
  <2>2. p \in Progress /\ p \in {g_pages[s], G!NoProof} /\ g_raw \in 1..MaxRaw
    BY <1>1, <1>2, ReadProgress DEF GateInv, GateTyped
  <2>3. /\ p = g_pages[s] /\ g_rec[s].token = 0
        /\ ~g_rec[s].hold => g_fruitless[s] <= G!Decided(g_rec[s]).held
        /\ g_fruitless[s] > 0 => ~G!Progressed(g_rec[s].seen, g_pages[s])
    BY <1>1, <1>4, <2>2, StartCounts
  <2>4. /\ x \in GateRecord /\ x.token = g /\ x.from = p /\ x.seen = g_rec[s].seen
        /\ x.before = g_raw /\ ~x.classified /\ ~x.hold /\ x.retry = g_rec[s].hold
        /\ g_rec[s].hold => x.held = 0 /\ x.baseline = 0
        /\ ~g_rec[s].hold => x.held = G!Decided(g_rec[s]).held /\ x.baseline = G!Decided(g_rec[s]).baseline
    BY <1>1, <1>4, <2>1, <2>2, ReservedRecord
  <2> HIDE DEF x
  <2>5. /\ g_rec'[s] = x /\ g_slot' = <<s, g>> /\ \A t \in GateSources : t # s => g_rec'[t] = g_rec[t]
    BY <1>1, <1>4, <2>1, <2>3, <2>4, SwapRecord DEF x, GateInv, G!Gens
  <2>6. \A h \in G!Gens : ~G!Running(h)
    <3>1. SUFFICES ASSUME NEW h \in G!Gens, G!Running(h) PROVE FALSE
      OBVIOUS
    <3>2. g_slot = <<g_child[h].source, h>> /\ g_rec[g_child[h].source].token = h /\ h # 0
      BY <3>1 DEF GateInv, Owned, SlotOwned, G!Gens
    <3>3. g_child[h].source = s
      BY <1>4, <3>2 DEF G!Idle, G!NoSlot
    <3>4. QED
      BY <2>3, <3>2, <3>3
  <2>7. s = g_job'.source /\ g_tokens'[s] = g
    BY <1>0, <1>1, <1>4, JobOf DEF G!RecordLaunch, GateInv, GateTyped
  <2>8. Reservation'
    BY <2>1, <2>4, <2>5, <2>7 DEF Reservation, G!RecordLaunch
  <2>9. SlotOwned'
    BY <1>1, <2>6 DEF SlotOwned, G!RecordLaunch, G!Running
  <2>10. LimitKept'
    <3>1. g_limited[s] => g_rec[s].hold
      BY <1>1, <2>3 DEF GateInv, Owned, LimitKept
    <3>2. ~g_limited'[s]
      BY <1>1, <1>4, <2>4, <2>5, <3>1 DEF GateInv, GateTyped
    <3>3. \A t \in GateSources : t # s => g_limited'[t] = g_limited[t]
      BY <1>1, <1>4 DEF GateInv, GateTyped
    <3>4. \A t \in GateSources : g_limited'[t] /\ g_rec'[t].token = 0 => g_rec'[t].hold
      BY <2>5, <3>2, <3>3 DEF GateInv, Owned, LimitKept
    <3>5. QED
      BY <1>1, <2>6, <2>7, <3>2, <3>4 DEF LimitKept, G!RecordLaunch, G!Running
  <2>11. Counted(s)'
    <3>1. g_fruitless'[s] = (IF x.retry THEN 1 ELSE g_fruitless[s] + 1) /\ g_fruitless[s] \in Nat
      BY <1>1, <1>4, <2>5 DEF GateInv, GateTyped
    <3>2. g_pages' = g_pages /\ g_raw' = g_raw /\ g_pages[s].gen \in 1..2
      BY <1>1 DEF G!RecordLaunch, GateInv, GateTyped
    <3>3. ~g_rec[s].hold => x.held < 2
      BY <1>1, <1>4, <2>4, DecidedRecord
    <3>4. g_fruitless'[s] <= x.held + 1 /\ x.held < 2
      BY <2>3, <2>4, <3>1, <3>3 DEF GateRecord
    <3>5. x.held < 2 => x.baseline = 0
      <4>1. CASE ~g_rec[s].hold /\ g_rec[s].held < 2
        BY <1>1, <1>4, <2>4, <4>1, DecidedRecord DEF GateInv, Counted
      <4>2. CASE ~g_rec[s].hold /\ g_rec[s].held = 2
        BY <1>1, <1>4, <2>4, <4>2, DecidedRecord
      <4>3. QED
        BY <1>1, <2>4, <4>1, <4>2 DEF GateRecord
    <3>6. InFlight(s)'
      BY <2>2, <2>3, <2>4, <2>5, <3>1, <3>2, <3>4 DEF InFlight
    <3>7. AtRest(s)'
      BY <2>1, <2>4, <2>5 DEF AtRest, G!Gens
    <3>8. QED
      BY <2>5, <3>5, <3>6, <3>7 DEF Counted
  <2>12. ASSUME NEW t \in GateSources, t # s
         PROVE  Counted(t)'
    BY <1>4, <2>5, <2>12 DEF GateInv, GateTyped, Counted, AtRest, InFlight, G!RecordLaunch
  <2>13. QED
    BY <2>8, <2>9, <2>10, <2>11, <2>12 DEF Owned
<1>5. QED
  BY <1>2, <1>3, <1>4

LEMMA AdmissionStep ==
  ASSUME G!GateAssumption, GateInv, GateTyped', NEW s \in GateSources, G!Admission(s)
  PROVE  Owned' /\ \A t \in GateSources : Counted(t)'
<1>1. g_rec[s] \in GateRecord
  BY DEF GateInv, GateTyped
<1>2. PICK explicit \in BOOLEAN, p \in G!Proof(s) :
        /\ G!ReadFault(p)
        /\ IF G!Admitted /\ G!Sound(s) /\ G!Idle(s) /\ G!MayStart(g_rec[s], g_raw, p, explicit)
             THEN /\ G!Swap(s, G!Decided(g_rec[s])) /\ g_lock' = "launch"
                  /\ g_job' = [pc |-> "reserve", source |-> s, explicit |-> explicit]
             ELSE UNCHANGED <<g_rec, g_slot, g_lock, g_job>>
  BY DEF G!Admission
<1>3. CASE UNCHANGED <<g_rec, g_slot, g_lock, g_job>>
  <2>1. Owned'
    BY <1>3 DEF G!Admission, GateInv, Owned, Reservation, SlotOwned, LimitKept, G!history, G!Running
  <2>2. \A t \in GateSources : Counted(t)'
    BY <1>3 DEF G!Admission, GateInv, Counted, AtRest, InFlight, G!history
  <2>3. QED
    BY <2>1, <2>2
<1>4. CASE /\ G!MayStart(g_rec[s], g_raw, p, explicit) /\ G!Swap(s, G!Decided(g_rec[s]))
           /\ g_job' = [pc |-> "reserve", source |-> s, explicit |-> explicit]
  <2> DEFINE x == G!Decided(g_rec[s])
  <2>1. p \in {g_pages[s], G!NoProof}
    BY DEF G!Proof
  <2>2. /\ g_rec[s].token = 0
        /\ ~g_rec[s].hold => g_fruitless[s] <= x.held
        /\ g_fruitless[s] > 0 => ~G!Progressed(g_rec[s].seen, g_pages[s])
    BY <1>4, <2>1, StartCounts
  <2>3. /\ x \in GateRecord /\ x.token = 0 /\ x.seen = g_rec[s].seen /\ x.hold = g_rec[s].hold
        /\ (g_rec[s].hold \/ g_rec[s].held < 2 => x = g_rec[s])
        /\ (~g_rec[s].hold => x.held < 2)
        /\ (~g_rec[s].hold /\ g_rec[s].held = 2 => x.held = 0 /\ x.baseline = 0)
    BY <1>1, <1>4, DecidedRecord
  <2> HIDE DEF x
  <2>4. /\ g_rec'[s] = x /\ g_slot' = g_slot /\ \A t \in GateSources : t # s => g_rec'[t] = g_rec[t]
    BY <1>4, <2>2, <2>3, SwapRecord DEF x, GateInv
  <2>5. \A t \in GateSources : g_rec'[t].token = g_rec[t].token /\ g_rec'[t].hold = g_rec[t].hold
    BY <2>2, <2>3, <2>4
  <2>6. g_job'.pc # "fork"
    BY <1>4
  <2>7. Reservation'
    BY <2>6 DEF Reservation
  <2>8. SlotOwned'
    <3>1. g_proc = 0 /\ UNCHANGED <<g_proc, g_child, g_tokens>>
      BY DEF G!Admission
    <3>2. ASSUME NEW g \in G!Gens, g_child[g].state = "running"
          PROVE  g_slot = <<g_child[g].source, g>> /\ g_rec'[g_child[g].source].token = g
      <4>1. g_child[g].source \in GateSources
        BY <3>2, ChildOf DEF ChildStates, GateInv
      <4>2. QED
        BY <2>5, <3>2, <4>1 DEF GateInv, Owned, SlotOwned, G!Running
    <3>3. QED
      BY <2>4, <3>1, <3>2 DEF SlotOwned, G!Running
  <2>9. LimitKept'
    BY <2>5, <2>6 DEF G!Admission, GateInv, Owned, LimitKept, G!history, G!Running
  <2>10. Counted(s)'
    <3>1. /\ g_fruitless' = g_fruitless /\ g_pages' = g_pages /\ g_raw' = g_raw
          /\ g_fruitless[s] <= 2 /\ g_fruitless[s] \in Nat
      BY <2>2 DEF G!Admission, G!history, GateInv, GateTyped, Counted, AtRest
    <3>2. x.held < 2 => x.baseline = 0
      BY <1>1, <2>3 DEF GateInv, Counted, GateRecord
    <3>3. g_fruitless[s] > 0 /\ x.held = 2 /\ x.baseline > 0 => g_raw >= x.baseline
      BY <1>1, <2>2, <2>3 DEF GateInv, Counted, AtRest
    <3>4. AtRest(s)'
      BY <2>2, <2>3, <2>4, <3>1, <3>3 DEF AtRest
    <3>5. InFlight(s)'
      BY <2>3, <2>4 DEF InFlight
    <3>6. QED
      BY <2>4, <3>2, <3>4, <3>5 DEF Counted
  <2>11. ASSUME NEW t \in GateSources, t # s
         PROVE  Counted(t)'
    BY <1>4, <2>4, <2>11 DEF GateInv, Counted, AtRest, InFlight, G!Admission, G!history
  <2>12. QED
    BY <2>7, <2>8, <2>9, <2>10, <2>11 DEF Owned
<1>5. QED
  BY <1>2, <1>3, <1>4

LEMMA ForkStep ==
  ASSUME G!GateAssumption, GateInv, GateTyped', G!Fork
  PROVE  Owned' /\ \A t \in GateSources : Counted(t)'
<1>1. PICK s \in GateSources : s = g_job.source
  BY JobOf DEF G!Fork, GateInv
<1>2. PICK g \in G!Gens : g = g_tokens[s]
  BY <1>1 DEF G!Fork, GateInv, Owned, Reservation
<1>3. /\ g_child' = [g_child EXCEPT ![g] = [source |-> s, state |-> "running"]] /\ g_proc' = g
      /\ g_job' = G!NoJob /\ UNCHANGED <<G!durable, g_raw, g_tokens, G!recovery, g_faults, G!history>>
  BY <1>1, <1>2 DEF G!Fork
<1>4. g_child[g] = G!Unborn /\ g_rec[s].token = g /\ g_slot = <<s, g>> /\ ~g_limited[s] /\ g # 0
  BY <1>1, <1>2 DEF G!Fork, GateInv, Owned, Reservation, LimitKept, G!Gens
<1>5. g_child'[g] = [source |-> s, state |-> "running"] /\ \A h \in G!Gens : h # g => g_child'[h] = g_child[h]
  BY <1>3 DEF GateInv, GateTyped
<1>6. \A h \in G!Gens : G!Running(h)' => h = g
  BY <1>4, <1>5, SlotIsOne DEF GateInv, Owned, G!Running
<1>7. Reservation'
  BY <1>3 DEF Reservation, G!NoJob
<1>8. SlotOwned'
  BY <1>2, <1>3, <1>4, <1>5, <1>6 DEF SlotOwned, G!durable, ChildStates
<1>9. LimitKept'
  <2>1. g_child'[g].source = s /\ g_limited' = g_limited /\ g_rec' = g_rec
    BY <1>3, <1>5 DEF G!durable, G!history
  <2>2. g_job'.pc # "fork"
    BY <1>3 DEF G!NoJob
  <2>3. QED
    BY <1>3, <1>4, <1>6, <2>1, <2>2 DEF GateInv, Owned, LimitKept
<1>10. \A t \in GateSources : Counted(t)'
  BY <1>3 DEF GateInv, Counted, AtRest, InFlight, G!durable, G!history
<1>11. QED
  BY <1>7, <1>8, <1>9, <1>10 DEF Owned

LEMMA SpawnFailsStep ==
  ASSUME G!GateAssumption, GateInv, GateTyped', G!SpawnFails
  PROVE  Owned' /\ \A t \in GateSources : Counted(t)'
<1>1. PICK s \in GateSources : s = g_job.source
  BY JobOf DEF G!SpawnFails, GateInv
<1> DEFINE g == g_tokens[s]
           r == g_rec[s]
<1>2. /\ g_job' = G!NoJob /\ g_proc = 0
      /\ (\E p \in G!Proof(s) : G!RecordExit(s, p, TRUE, FALSE, TRUE)) \/ G!Unrecorded(s)
      /\ g_fruitless' = [g_fruitless EXCEPT ![s] = G!OneLess(@)]
      /\ g_limited' = [g_limited EXCEPT ![s] = @ \/ r.retry]
      /\ UNCHANGED <<g_rows, g_pages, g_raw, g_proc, g_child, G!recovery>>
  BY <1>1, JobOf DEF G!SpawnFails, GateInv, LockHeld
<1>3. g \in G!Gens /\ g_child[g] = G!Unborn /\ r.token = g /\ g_slot = <<s, g>> /\ ~g_limited[s] /\ g # 0
  BY <1>1 DEF G!SpawnFails, GateInv, Owned, Reservation, LimitKept, G!Gens
<1>4. \A h \in G!Gens : ~G!Running(h)
  <2>1. G!Unborn.state = "unborn"
    BY DEF G!Unborn
  <2>2. QED
    BY <1>3, <2>1, SlotIsOne DEF GateInv, Owned, G!Running
<1>5. r \in GateRecord /\ g_fruitless \in [GateSources -> Nat] /\ g_limited \in [GateSources -> BOOLEAN]
  BY DEF GateInv, GateTyped
<1>6. /\ g_fruitless'[s] = G!OneLess(g_fruitless[s]) /\ g_limited'[s] = r.retry
      /\ \A t \in GateSources : t # s => g_fruitless'[t] = g_fruitless[t] /\ g_limited'[t] = g_limited[t]
  <2>1. \A t \in GateSources : /\ g_fruitless'[t] = IF t = s THEN G!OneLess(g_fruitless[s]) ELSE g_fruitless[t]
                          /\ g_limited'[t] = IF t = s THEN g_limited[s] \/ r.retry ELSE g_limited[t]
    BY <1>2, <1>5
  <2>2. QED
    BY <1>3, <1>5, <2>1 DEF GateRecord
<1>7. /\ g_fruitless'[s] <= g_fruitless[s]
      /\ g_fruitless'[s] > 0 => g_fruitless[s] > 1 /\ g_fruitless'[s] = g_fruitless[s] - 1
  BY <1>5, <1>6 DEF G!OneLess
<1>8. Reservation' /\ SlotOwned'
  BY <1>2, <1>4 DEF Reservation, SlotOwned, G!NoJob, G!Running
<1>9. CASE G!Unrecorded(s)
  <2>1. UNCHANGED <<g_rec, g_slot, g_tokens>>
    BY <1>9 DEF G!Unrecorded
  <2>2. LimitKept'
    BY <1>2, <1>3, <1>4, <1>6, <2>1 DEF GateInv, Owned, LimitKept, G!NoJob, G!Running
  <2>3. \A t \in GateSources : g_fruitless'[t] <= g_fruitless[t] /\ g_rec'[t] = g_rec[t]
    BY <1>5, <1>6, <1>7, <2>1
  <2>4. \A t \in GateSources : Counted(t)'
    BY <1>2, <2>3, CountFalls DEF GateInv, GateTyped
  <2>5. QED
    BY <1>8, <2>2, <2>4 DEF Owned
<1>10. ASSUME NEW p \in G!Proof(s), G!RecordExit(s, p, TRUE, FALSE, TRUE)
       PROVE  Owned' /\ \A t \in GateSources : Counted(t)'
  <2> DEFINE hold == G!Holds(r, FALSE, TRUE, p)
             j == G!Judged(r, g_raw, p, TRUE, TRUE)
  <2>1. /\ \A t \in GateSources : t # s => g_rec'[t] = g_rec[t]
        /\ g_rec'[s].token = 0 /\ (hold => g_rec'[s].hold)
        /\ g_rec'[s].seen = IF p = G!NoProof THEN r.seen ELSE g_pages[s]
        /\ (hold => g_rec'[s].held = 2 /\ g_rec'[s].baseline = r.baseline)
        /\ (~hold => g_rec'[s].held = j.held /\ g_rec'[s].baseline = j.baseline)
        /\ g_tokens' = [g_tokens EXCEPT ![s] = 0] /\ (p = G!NoProof \/ p = g_pages[s])
    BY <1>10, RecordedExit DEF GateInv, ExitLeaves
  <2>2. ~hold => ~r.retry
    BY DEF G!Holds
  <2>3. LimitKept'
    BY <1>2, <1>4, <1>6, <2>1, <2>2 DEF GateInv, Owned, LimitKept, G!NoJob, G!Running
  <2>4. /\ r.held < 2 /\ r.baseline = 0 /\ g_fruitless[s] <= r.held + 1
        /\ g_fruitless[s] > 1 => ~G!Progressed(r.seen, g_pages[s])
    BY <1>3 DEF GateInv, Counted, InFlight
  <2>5. /\ p = G!NoProof => j.held = 2 /\ j.baseline = 0
        /\ p # G!NoProof => j = r
    BY <1>5 DEF G!Judged, GateRecord
  <2>6. g_rec'[s].baseline = 0
    BY <2>1, <2>4, <2>5
  <2>7. g_fruitless'[s] <= g_rec'[s].held /\ g_fruitless'[s] <= 2
    <3>1. g_fruitless'[s] <= r.held /\ r.held \in {0, 1} /\ g_fruitless'[s] \in Nat
      BY <1>5, <1>6, <2>4 DEF G!OneLess, GateRecord
    <3>2. g_rec'[s].held \in {2, r.held}
      BY <2>1, <2>5
    <3>3. QED
      BY <3>1, <3>2
  <2>8. g_fruitless'[s] > 0 => ~G!Progressed(g_rec'[s].seen, g_pages[s])
    <3>1. ~G!Progressed(g_pages[s], g_pages[s])
      BY DEF G!Progressed, GateInv, GateTyped
    <3>2. QED
      BY <1>7, <2>1, <2>4, <3>1
  <2>9. AtRest(s)' /\ InFlight(s)'
    BY <1>2, <2>1, <2>6, <2>7, <2>8 DEF AtRest, InFlight
  <2>10. \A t \in GateSources : t # s => Counted(t)'
    BY <1>2, <1>6, <2>1 DEF GateInv, Counted, AtRest, InFlight
  <2>11. QED
    BY <1>8, <2>3, <2>6, <2>9, <2>10 DEF Owned, Counted
<1>11. QED
  BY <1>2, <1>9, <1>10

LEMMA ReapStep ==
  ASSUME G!GateAssumption, GateInv, GateTyped', G!Reap
  PROVE  Owned' /\ \A t \in GateSources : Counted(t)'
<1>1. PICK g \in G!Gens : g = g_proc
  BY DEF G!Reap, GateInv, GateTyped, Token
<1>2. g_child[g].state \in {"ended", "memory", "limit"}
  BY <1>1 DEF G!Reap
<1>3. PICK s \in GateSources : s = g_child[g].source
  BY <1>2, ChildOf DEF GateInv, ChildStates
<1> DEFINE r == g_rec[s]
           ended == g_child[g].state = "ended"
           limit == g_child[g].state = "limit"
<1>4. /\ \/ \E p \in G!Proof(s) :
              /\ G!RecordExit(s, p, ~ended, limit, FALSE)
              /\ g_fruitless' = [g_fruitless EXCEPT ![s] =
                                 IF ended THEN 0 ELSE IF p = G!NoProof THEN G!OneLess(@) ELSE @]
         \/ /\ G!Unrecorded(s)
            /\ g_fruitless' = [g_fruitless EXCEPT ![s] = IF ended THEN 0 ELSE @]
      /\ g_proc' = 0 /\ g_child' = [g_child EXCEPT ![g] = G!Gone]
      /\ UNCHANGED <<g_rows, g_pages, g_raw, g_job, g_lock, G!recovery, g_limited>>
  BY <1>1, <1>3 DEF G!Reap
<1>5. g_tokens[s] = g /\ r.token = g /\ g_slot = <<s, g>> /\ g # 0 /\ g_job = G!NoJob
      /\ (g_limited[s] => limit)
  BY <1>1, <1>3 DEF GateInv, LockHeld, Owned, SlotOwned, LimitKept, G!Gens
<1>6. \A h \in G!Gens : ~G!Running(h) /\ ~G!Running(h)'
  <2>1. G!Gone.state # "running" /\ ~G!Running(g)
    BY <1>2 DEF G!Gone, G!Running
  <2>2. \A h \in G!Gens : ~G!Running(h)
    BY <1>5, <2>1, SlotIsOne DEF GateInv, Owned
  <2>3. \A h \in G!Gens : g_child'[h] \in {g_child[h], G!Gone}
    BY <1>4 DEF GateInv, GateTyped
  <2>4. QED
    BY <2>1, <2>2, <2>3 DEF G!Running
<1>7. r \in GateRecord /\ g_fruitless \in [GateSources -> Nat]
  BY DEF GateInv, GateTyped
<1>8. Reservation' /\ SlotOwned'
  BY <1>4, <1>5, <1>6 DEF Reservation, SlotOwned, G!NoJob
<1>9. CASE G!Unrecorded(s) /\ g_fruitless' = [g_fruitless EXCEPT ![s] = IF ended THEN 0 ELSE @]
  <2>1. UNCHANGED <<g_rec, g_slot, g_tokens>>
    BY <1>9 DEF G!Unrecorded
  <2>2. LimitKept'
    BY <1>4, <1>5, <1>6, <2>1 DEF GateInv, Owned, LimitKept, G!NoJob
  <2>3. \A t \in GateSources : g_fruitless'[t] <= g_fruitless[t] /\ g_rec'[t] = g_rec[t]
    BY <1>7, <1>9, <2>1
  <2>4. \A t \in GateSources : Counted(t)'
    BY <1>4, <2>3, CountFalls DEF GateInv, GateTyped
  <2>5. QED
    BY <1>8, <2>2, <2>4 DEF Owned
<1>10. ASSUME NEW p \in G!Proof(s), G!RecordExit(s, p, ~ended, limit, FALSE),
              g_fruitless' = [g_fruitless EXCEPT ![s] =
                                IF ended THEN 0 ELSE IF p = G!NoProof THEN G!OneLess(@) ELSE @]
       PROVE  Owned' /\ \A t \in GateSources : Counted(t)'
  <2> DEFINE hold == G!Holds(r, limit, FALSE, p)
             j == G!Judged(r, g_raw, p, ~ended, FALSE)
  <2>1. /\ \A t \in GateSources : t # s => g_rec'[t] = g_rec[t]
        /\ g_rec'[s].token = 0 /\ (hold => g_rec'[s].hold)
        /\ g_rec'[s].seen = IF p = G!NoProof THEN r.seen ELSE g_pages[s]
        /\ (hold => g_rec'[s].held = 2 /\ g_rec'[s].baseline = r.baseline)
        /\ (~hold => g_rec'[s].held = j.held /\ g_rec'[s].baseline = j.baseline)
        /\ g_tokens' = [g_tokens EXCEPT ![s] = 0] /\ (p = G!NoProof \/ p = g_pages[s])
    <3>1. (~ended) \in BOOLEAN /\ limit \in BOOLEAN /\ FALSE \in BOOLEAN /\ GateTyped
      BY DEF GateInv
    <3> HIDE DEF ended, limit
    <3>2. ExitLeaves(s, p, ~ended, limit, FALSE)
      BY <1>10, <3>1, RecordedExit
    <3>3. QED
      BY <3>2 DEF ExitLeaves
  <2>2. g_limited[s] => g_rec'[s].hold
    BY <1>5, <2>1 DEF G!Holds
  <2> HIDE DEF hold, j
  <2>3. LimitKept'
    BY <1>4, <1>5, <1>6, <2>1, <2>2 DEF GateInv, Owned, LimitKept, G!NoJob
  <2>4. /\ r.held < 2 /\ r.baseline = 0 /\ g_fruitless[s] <= r.held + 1
        /\ g_fruitless[s] > 1 => ~G!Progressed(r.seen, g_pages[s])
        /\ g_fruitless[s] > 0 => /\ \/ g_pages[s] = r.from
                                    \/ g_pages[s].gen # r.from.gen /\ g_pages[s].n = 0
                                 /\ ~r.classified /\ g_raw >= r.before
    BY <1>5 DEF GateInv, Counted, InFlight
  <2>5. /\ g_fruitless'[s] = IF ended THEN 0
                            ELSE IF p = G!NoProof THEN G!OneLess(g_fruitless[s]) ELSE g_fruitless[s]
        /\ \A t \in GateSources : t # s => g_fruitless'[t] = g_fruitless[t]
    BY <1>7, <1>10
  <2> HIDE DEF ended, limit
  <2>6. /\ g_fruitless'[s] \in Nat /\ g_fruitless'[s] <= g_fruitless[s]
        /\ (p = G!NoProof /\ g_fruitless'[s] > 0 => g_fruitless[s] > 1)
        /\ (ended => g_fruitless'[s] = 0)
    BY <1>7, <2>5 DEF G!OneLess
  <2>7. g_raw \in 1..MaxRaw /\ MaxRaw \in Nat /\ r.before \in Int /\ r.held \in {0, 1} /\ g_pages[s].n \in Nat
    BY <1>7, <2>4 DEF GateInv, GateTyped, G!GateAssumption, GateRecord, Memory
  <2>8. p # G!NoProof /\ g_fruitless[s] > 0 => ~G!Fruitful(r, p) /\ ~G!Recovered(g_raw, r.before)
    <3>1. g_fruitless[s] > 0 => ~G!Progressed(r.from, g_pages[s])
      BY <2>4, <2>7 DEF G!Progressed
    <3>2. QED
      BY <2>1, <2>4, <2>7, <3>1 DEF G!Fruitful, G!Recovered
  <2>9. ~hold => /\ g_fruitless'[s] <= g_rec'[s].held /\ g_rec'[s].held \in 0..2
                 /\ (g_rec'[s].held < 2 => g_rec'[s].baseline = 0)
                 /\ (g_rec'[s].held = 2 /\ g_rec'[s].baseline > 0 => g_raw >= g_rec'[s].baseline)
    <3>1. CASE p = G!NoProof
      <4>1. j.held = 2 /\ j.baseline = 0
        BY <1>7, <3>1 DEF j, G!Judged, GateRecord
      <4>2. QED
        BY <1>7, <2>1, <2>4, <2>6, <2>7, <4>1
    <3>2. CASE p # G!NoProof /\ (G!Fruitful(r, p) \/ ended \/ G!Recovered(g_raw, r.before))
      <4>1. j.held = 0 /\ j.baseline = 0
        BY <1>7, <3>2 DEF j, G!Judged, GateRecord
      <4>2. g_fruitless'[s] = 0
        BY <1>7, <2>6, <2>8, <3>2
      <4>3. QED
        BY <2>1, <4>1, <4>2
    <3>3. CASE p # G!NoProof /\ ~(G!Fruitful(r, p) \/ ended \/ G!Recovered(g_raw, r.before))
      <4>1. j.held = r.held + 1 /\ j.baseline = IF r.held + 1 = 2 THEN g_raw ELSE r.baseline
        BY <1>7, <2>4, <3>3 DEF j, G!Judged, GateRecord
      <4>2. QED
        BY <1>7, <2>1, <2>4, <2>6, <2>7, <4>1
    <3>4. QED
      BY <3>1, <3>2, <3>3
  <2>10. g_fruitless'[s] > 0 => ~G!Progressed(g_rec'[s].seen, g_pages[s])
    <3>1. ~G!Progressed(g_pages[s], g_pages[s])
      BY <2>7 DEF G!Progressed
    <3>2. QED
      BY <2>1, <2>4, <2>6, <3>1
  <2>11. AtRest(s)' /\ InFlight(s)'
    <3>1. g_fruitless'[s] <= 2
      BY <1>7, <2>4, <2>6, <2>7
    <3>2. g_pages' = g_pages /\ g_raw' = g_raw
      BY <1>4
    <3>3. ~g_rec'[s].hold => ~hold
      BY <2>1
    <3>4. hold => g_rec'[s].baseline = 0
      BY <2>1, <2>4
    <3>5. AtRest(s)'
      BY <2>9, <2>10, <3>1, <3>2, <3>3, <3>4 DEF AtRest
    <3>6. QED
      BY <2>1, <3>5 DEF InFlight
  <2>12. g_rec'[s].held < 2 => g_rec'[s].baseline = 0
    BY <2>1, <2>4, <2>9
  <2>13. \A t \in GateSources : t # s => Counted(t)'
    BY <1>4, <2>1, <2>5 DEF GateInv, Counted, AtRest, InFlight
  <2>14. QED
    BY <1>8, <2>3, <2>11, <2>12, <2>13 DEF Owned, Counted
<1>11. QED
  BY <1>4, <1>9, <1>10

LEMMA ChildStep ==
  ASSUME G!GateAssumption, GateInv, GateTyped', NEW g \in G!Gens, G!ChildNext(g)
  PROVE  Owned' /\ \A t \in GateSources : Counted(t)'
<1>0. G!Running(g)
  BY DEF G!ChildNext, G!CommitPage, G!NewScope, G!Classify, G!MeetsLimit, G!Exits
<1>1. PICK s \in GateSources : s = g_child[g].source
  BY <1>0, ChildOf DEF G!Running, ChildStates, GateInv
<1>2. /\ g_slot = <<s, g>> /\ g_rec[s].token = g /\ g # 0 /\ g_rec[s] \in GateRecord /\ g_rec[s].held \in 0..2
      /\ Counted(s) /\ g_pages[s] \in [gen : 1..2, n : 0..MaxPages] /\ g_fruitless[s] \in Nat
      /\ \A h \in G!Gens : G!Running(h) => h = g
  <2>1. g_slot = <<s, g>> /\ g_rec[s].token = g /\ g # 0
    BY <1>0, <1>1 DEF GateInv, Owned, SlotOwned, G!Gens
  <2>2. /\ g_rec[s] \in GateRecord /\ g_pages[s] \in [gen : 1..2, n : 0..MaxPages]
        /\ g_fruitless[s] \in Nat /\ Counted(s)
    BY DEF GateInv, GateTyped
  <2>3. \A h \in G!Gens : G!Running(h) => h = g
    BY <2>1, SlotIsOne DEF GateInv, Owned
  <2>4. QED
    BY <2>1, <2>2, <2>3 DEF GateRecord
<1>3. ASSUME g_proc # 0
      PROVE  g_proc \in G!Gens /\ (g_child[g_proc].source = s => g_proc = g)
  BY <1>2, <1>3 DEF GateInv, GateTyped, Token, Owned, SlotOwned
<1>4. g_job.pc = "fork" => g_job.source # s
  <2>1. G!Unborn.state = "unborn"
    BY DEF G!Unborn
  <2>2. QED
    BY <1>0, <1>2, <2>1 DEF GateInv, Owned, Reservation, G!Running
<1>5. ASSUME UNCHANGED <<g_child, g_slot, g_tokens, g_proc, g_job, g_limited>>,
             \A t \in GateSources : g_rec'[t].token = g_rec[t].token /\ g_rec'[t].hold = g_rec[t].hold
      PROVE  Owned'
  <2>1. ASSUME NEW h \in G!Gens, g_child[h].state \in ChildStates
        PROVE  g_rec'[g_child[h].source].token = g_rec[g_child[h].source].token
    BY <1>5, <2>1, ChildOf DEF GateInv
  <2>2. Reservation'
    <3>1. g_job.pc = "fork" => g_job.source \in GateSources
      BY JobOf DEF GateInv
    <3>2. QED
      BY <1>5, <3>1 DEF GateInv, Owned, Reservation
  <2>3. SlotOwned'
    BY <1>3, <1>5, <2>1 DEF GateInv, Owned, SlotOwned, G!Running, ChildStates
  <2>4. LimitKept'
    BY <1>5 DEF GateInv, Owned, LimitKept, G!Running
  <2>5. QED
    BY <2>2, <2>3, <2>4 DEF Owned
<1>6. ASSUME NEW how \in {"ended", "memory", "limit"}, G!End(g, how),
             UNCHANGED <<g_slot, g_tokens, g_proc, g_job>>,
             \A t \in GateSources : g_rec'[t].token = g_rec[t].token /\ (g_rec[t].hold => g_rec'[t].hold),
             g_limited' = g_limited \/ (how = "limit" /\ g_limited' = [g_limited EXCEPT ![s] = TRUE])
      PROVE  Owned'
  <2>1. /\ g_child'[g] = [g_child[g] EXCEPT !.state = how]
        /\ \A h \in G!Gens : h # g => g_child'[h] = g_child[h]
        /\ g_child'[g].state = how /\ g_child'[g].source = s
    BY <1>0, <1>1, <1>6, ChildOf DEF G!End, GateInv, GateTyped, G!Running, ChildStates
  <2>2. \A h \in G!Gens : g_child'[h].source = g_child[h].source /\ ~G!Running(h)'
    BY <1>1, <1>2, <1>6, <2>1 DEF G!Running
  <2>3. Reservation'
    <3>1. g_job.pc = "fork" => g_job.source \in GateSources
      BY JobOf DEF GateInv
    <3>2. g_child[g] # G!Unborn
      <4>1. G!Unborn.state = "unborn"
        BY DEF G!Unborn
      <4>2. QED
        BY <1>0, <4>1 DEF G!Running
    <3>3. QED
      BY <1>6, <2>1, <3>1, <3>2 DEF GateInv, Owned, Reservation
  <2>4. SlotOwned'
    <3>1. ASSUME g_proc # 0
          PROVE  /\ g_child'[g_proc].state \in ChildStates /\ g_child'[g_proc].source \in GateSources
                 /\ g_tokens[g_child'[g_proc].source] = g_proc /\ g_rec[g_child'[g_proc].source].token = g_proc
                 /\ g_slot = <<g_child'[g_proc].source, g_proc>>
      <4>1. g_proc \in G!Gens /\ g_child[g_proc].state \in ChildStates /\ g_child[g_proc].source \in GateSources
        BY <1>3, <3>1, ChildOf DEF GateInv, Owned, SlotOwned
      <4>2. QED
        BY <1>6, <2>1, <2>2, <3>1, <4>1 DEF GateInv, Owned, SlotOwned, ChildStates
    <3>2. QED
      BY <1>6, <2>2, <3>1 DEF SlotOwned
  <2>5. LimitKept'
    <3>1. \A t \in GateSources : g_limited'[t] => g_limited[t] \/ (t = s /\ how = "limit")
      BY <1>6 DEF GateInv, GateTyped
    <3>2. \A t \in GateSources : g_limited'[t] /\ g_rec'[t].token = 0 => g_rec'[t].hold
      BY <1>2, <1>6, <3>1 DEF GateInv, Owned, LimitKept
    <3>3. g_job.pc = "fork" => ~g_limited'[g_job.source]
      BY <1>4, <3>1, JobOf DEF GateInv, Owned, LimitKept
    <3>4. ASSUME g_proc # 0, g_limited'[g_child'[g_proc].source]
          PROVE  g_child'[g_proc].state = "limit"
      <4>1. g_proc \in G!Gens /\ g_child[g_proc].source \in GateSources
        BY <1>3, <3>4, ChildOf DEF GateInv, Owned, SlotOwned
      <4>2. CASE g_limited[g_child[g_proc].source]
        <5>1. g_child[g_proc].state = "limit"
          BY <3>4, <4>2 DEF GateInv, Owned, LimitKept
        <5>2. g_proc # g
          BY <1>0, <5>1 DEF G!Running
        <5>3. QED
          BY <2>1, <4>1, <5>1, <5>2
      <4>3. CASE g_child[g_proc].source = s /\ how = "limit"
        BY <1>3, <2>1, <3>4, <4>3
      <4>4. QED
        BY <2>2, <3>1, <3>4, <4>1, <4>2, <4>3
    <3>5. QED
      BY <1>6, <2>2, <3>2, <3>3, <3>4 DEF LimitKept
  <2>6. QED
    BY <2>3, <2>4, <2>5 DEF Owned
<1>7. ASSUME g_rec' = g_rec, g_raw' = g_raw, g_pages' = g_pages, g_fruitless' = g_fruitless
      PROVE  \A t \in GateSources : Counted(t)'
  BY <1>7 DEF GateInv, Counted, AtRest, InFlight
<1>8. CASE G!CommitPage(g)
  <2>1. /\ g_pages' = [g_pages EXCEPT ![s].n = @ + 1] /\ g_fruitless' = [g_fruitless EXCEPT ![s] = 0]
        /\ UNCHANGED <<g_rec, g_raw, g_child, g_slot, g_tokens, g_proc, g_job, g_limited>>
    BY <1>1, <1>8 DEF G!CommitPage, G!Fruit
  <2>2. g_pages'[s].gen = g_pages[s].gen /\ g_fruitless'[s] = 0
    BY <1>2, <2>1 DEF GateInv, GateTyped
  <2>3. Counted(s)'
    BY <1>2, <2>1, <2>2 DEF Counted, AtRest, InFlight
  <2>4. ASSUME NEW t \in GateSources, t # s
        PROVE  Counted(t)'
    BY <2>1, <2>4 DEF GateInv, GateTyped, Counted, AtRest, InFlight
  <2>5. QED
    BY <1>5, <2>1, <2>3, <2>4
<1>9. CASE G!NewScope(g)
  <2>1. /\ g_pages[s].gen = 1 /\ g_pages' = [g_pages EXCEPT ![s] = [gen |-> 2, n |-> 0]]
        /\ UNCHANGED <<g_rec, g_raw, g_child, g_slot, g_tokens, g_proc, g_job, g_limited, g_fruitless>>
    BY <1>1, <1>9 DEF G!NewScope, G!history
  <2>2. g_pages'[s] = [gen |-> 2, n |-> 0]
    BY <1>2, <2>1 DEF GateInv, GateTyped
  <2>3. g_rec[s].from.gen = 1 /\ g_rec[s].seen \in Progress
    BY <1>2, <2>1 DEF Counted, InFlight, GateRecord
  <2>4. ~G!Progressed(g_rec[s].seen, g_pages'[s])
    BY <2>2, <2>3 DEF G!Progressed, Progress
  <2>5. Counted(s)'
    BY <1>2, <2>1, <2>2, <2>3, <2>4 DEF Counted, AtRest, InFlight
  <2>6. ASSUME NEW t \in GateSources, t # s
        PROVE  Counted(t)'
    BY <2>1, <2>6 DEF GateInv, GateTyped, Counted, AtRest, InFlight
  <2>7. QED
    BY <1>5, <2>1, <2>5, <2>6
<1>10. CASE G!Classify(g)
  <2> DEFINE x == [g_rec[s] EXCEPT !.classified = TRUE]
  <2>1. x \in GateRecord /\ x.token = g_rec[s].token /\ x.hold = g_rec[s].hold /\ x.held = g_rec[s].held
        /\ x.baseline = g_rec[s].baseline /\ x.from = g_rec[s].from
    BY <1>2 DEF GateRecord
  <2>2. CASE G!Swap(s, x) /\ G!Fruit(s) /\ UNCHANGED <<g_child, g_faults>>
    <3>1. /\ g_fruitless' = [g_fruitless EXCEPT ![s] = 0]
          /\ UNCHANGED <<g_pages, g_raw, g_child, g_tokens, g_proc, g_job, g_limited>>
      BY <1>10, <2>2 DEF G!Classify, G!Fruit
    <3> HIDE DEF x
    <3>2. /\ g_rec'[s] = x /\ g_slot' = g_slot /\ \A t \in GateSources : t # s => g_rec'[t] = g_rec[t]
      BY <2>1, <2>2, SwapRecord DEF GateInv
    <3>3. g_fruitless'[s] = 0
      BY <3>1 DEF GateInv, GateTyped
    <3>4. Counted(s)'
      BY <1>2, <2>1, <3>1, <3>2, <3>3 DEF Counted, AtRest, InFlight
    <3>5. ASSUME NEW t \in GateSources, t # s
          PROVE  Counted(t)'
      BY <3>1, <3>2, <3>5 DEF GateInv, GateTyped, Counted, AtRest, InFlight
    <3>6. Owned'
      BY <1>5, <2>1, <3>1, <3>2
    <3>7. QED
      BY <3>4, <3>5, <3>6
  <2>3. CASE G!Fault /\ G!End(g, "memory") /\ UNCHANGED <<g_rec, g_slot, G!history>>
    BY <1>6, <1>7, <1>10, <2>3 DEF G!Classify, G!history
  <2>4. QED
    BY <1>1, <1>10, <2>2, <2>3 DEF G!Classify
<1>11. CASE G!MeetsLimit(g)
  <2> DEFINE x == [g_rec[s] EXCEPT !.hold = TRUE]
  <2>1. x \in GateRecord /\ x.token = g_rec[s].token /\ x.hold /\ x.held = g_rec[s].held
        /\ x.baseline = g_rec[s].baseline /\ x.from = g_rec[s].from /\ x.seen = g_rec[s].seen
        /\ x.classified = g_rec[s].classified /\ x.before = g_rec[s].before
    BY <1>2 DEF GateRecord
  <2>2. /\ G!End(g, "limit") /\ g_limited' = [g_limited EXCEPT ![s] = TRUE]
        /\ UNCHANGED <<g_pages, g_raw, g_tokens, g_proc, g_job, g_fruitless>>
        /\ G!Swap(s, x) \/ UNCHANGED <<g_rec, g_slot>>
    BY <1>1, <1>11 DEF G!MeetsLimit
  <2> HIDE DEF x
  <2>3. CASE UNCHANGED <<g_rec, g_slot>>
    BY <1>6, <1>7, <2>2, <2>3
  <2>4. CASE G!Swap(s, x)
    <3>1. /\ g_rec'[s] = x /\ g_slot' = g_slot /\ \A t \in GateSources : t # s => g_rec'[t] = g_rec[t]
      BY <2>1, <2>4, SwapRecord DEF GateInv
    <3>2. Counted(s)'
      BY <1>2, <2>1, <2>2, <3>1 DEF Counted, AtRest, InFlight
    <3>3. ASSUME NEW t \in GateSources, t # s
          PROVE  Counted(t)'
      BY <2>2, <3>1, <3>3 DEF GateInv, Counted, AtRest, InFlight
    <3>4. Owned'
      BY <1>6, <2>1, <2>2, <3>1
    <3>5. QED
      BY <3>2, <3>3, <3>4
  <2>5. QED
    BY <2>2, <2>3, <2>4
<1>12. CASE G!Exits(g)
  <2>1. /\ \E how \in {"ended", "memory"} : G!End(g, how)
        /\ UNCHANGED <<g_rec, g_slot, g_pages, g_raw, g_tokens, g_job, g_proc, g_limited, g_fruitless>>
    BY <1>12 DEF G!Exits, G!durable, G!history
  <2>2. QED
    BY <1>6, <1>7, <2>1
<1>13. QED
  BY <1>8, <1>9, <1>10, <1>11, <1>12 DEF G!ChildNext

(* Everything else leaves the records alone, or takes from a count.        *)
LEMMA OtherStep ==
  ASSUME G!GateAssumption, GateInv, GateTyped',
         \/ G!Initialize \/ G!LoseRow \/ G!Restart \/ G!IdleStart \/ G!IdleRecheck \/ G!IdleTrim
         \/ G!RequestStarts \/ G!RequestEnds \/ UNCHANGED G!vars
  PROVE  Owned' /\ \A t \in GateSources : Counted(t)'
<1>1. UNCHANGED <<g_rec, g_slot, g_pages, g_child, g_limited>>
  BY DEF G!Initialize, G!LoseRow, G!Restart, G!IdleStart, G!IdleRecheck, G!IdleTrim, G!RequestStarts,
     G!RequestEnds,
         G!vars, G!Install, G!durable, G!history
<1>2. Owned'
  <2>1. CASE UNCHANGED <<g_tokens, g_job, g_proc>>
    BY <1>1, <2>1 DEF GateInv, Owned, Reservation, SlotOwned, LimitKept, G!Running
  <2>2. CASE G!Restart
    <3>1. g_job'.pc # "fork" /\ g_proc' = 0
      BY <2>2 DEF G!Restart, G!NoJob
    <3>2. QED
      BY <1>1, <3>1 DEF GateInv, Owned, Reservation, SlotOwned, LimitKept, G!Running
  <2>3. QED
    BY <2>1, <2>2 DEF G!Initialize, G!LoseRow, G!IdleStart, G!IdleRecheck, G!IdleTrim, G!RequestStarts,
       G!RequestEnds, G!vars
<1>3. g_fruitless \in [GateSources -> Nat] /\ g_raw \in Int /\ g_raw' \in Int
  BY DEF GateInv, GateTyped
<1>4. \A t \in GateSources : g_fruitless'[t] <= g_fruitless[t] /\ (g_fruitless'[t] > 0 => g_raw' >= g_raw)
  <2>1. CASE UNCHANGED <<g_raw, g_fruitless>>
    BY <1>3, <2>1
  <2>2. ASSUME NEW r \in Nat, g_raw' = r, G!Fell(r)
        PROVE  \A t \in GateSources :
                 g_fruitless'[t] <= g_fruitless[t] /\ (g_fruitless'[t] > 0 => g_raw' >= g_raw)
    BY <1>3, <2>2 DEF G!Fell
  <2>3. QED
    BY <2>1, <2>2 DEF G!Initialize, G!LoseRow, G!Restart, G!IdleStart, G!IdleRecheck, G!IdleTrim,
       G!RequestStarts,
                     G!RequestEnds, G!vars, G!history
<1>5. \A t \in GateSources : Counted(t)'
  BY <1>1, <1>4, CountFalls DEF GateInv
<1>6. QED
  BY <1>2, <1>5

LEMMA StepGate ==
  ASSUME G!GateAssumption, GateInv, [G!Next]_(G!vars)
  PROVE  GateInv'
<1>1. GateTyped' /\ LockHeld'
  BY StepTyped, StepLockHeld DEF GateInv
<1>2. Owned' /\ \A t \in GateSources : Counted(t)'
  BY <1>1, RecordLaunchStep, AdmissionStep, ForkStep, SpawnFailsStep, ReapStep, ChildStep, OtherStep
  DEF G!Next, G!WebNext
<1>3. QED
  BY <1>1, <1>2 DEF GateInv

-----------------------------------------------------------------------------
(* The invariant holds whatever the sources, the memory and the faults.    *)
THEOREM GateInvariantHolds ==
  ASSUME G!GateAssumption
  PROVE  G!Spec => []GateInv
<1>1. G!Init => GateInv
  BY InitGate
<1>2. GateInv /\ [G!Next]_(G!vars) => GateInv'
  BY StepGate
<1>3. QED
  BY <1>1, <1>2, PTL DEF G!Spec

(* No two source children ever run at once, and the one that runs holds    *)
(* the durable slot: record_launch, the reaper and the child's own writes. *)
THEOREM OneChildHolds ==
  ASSUME G!GateAssumption
  PROVE  G!Spec => []G!OneChild
<1>1. GateInv => G!OneChild
  <2>1. GateInv => G!TypeOK
    BY DEF GateInv, GateTyped, G!TypeOK, GateRecord, Memory, Token
  <2>2. QED
    BY <2>1 DEF GateInv, Owned, SlotOwned, G!OneChild
<1>2. QED
  BY <1>1, GateInvariantHolds, PTL

(* A source is launched at most twice without a page, a classification,    *)
(* memory given back or an operator (_decision and record_exit), whatever  *)
(* fails and restarts, as long as its progress can be read.                *)
THEOREM AtMostTwiceHolds ==
  ASSUME G!GateAssumption
  PROVE  G!Spec => []G!AtMostTwice
<1>1. ASSUME GateInv
      PROVE  G!AtMostTwice
  <2>1. SUFFICES ASSUME NEW s \in GateSources PROVE g_fruitless[s] <= 2
    BY DEF G!AtMostTwice
  <2>2. Counted(s) /\ g_rec[s] \in GateRecord /\ g_fruitless[s] \in Nat
    BY <1>1 DEF GateInv, GateTyped
  <2>3. QED
    BY <2>2 DEF Counted, AtRest, InFlight, GateRecord
<1>2. QED
  BY <1>1, GateInvariantHolds, PTL

(* After a response over the limit only an operator launches the source:   *)
(* what the child notes, or the reaper from its exit code, is never lost.  *)
THEOREM LimitWaitsForOperatorHolds ==
  ASSUME G!GateAssumption
  PROVE  G!Spec => []G!LimitWaitsForOperator
<1>1. GateInv => G!LimitWaitsForOperator
  BY DEF GateInv, Owned, LimitKept, G!LimitWaitsForOperator
<1>2. QED
  BY <1>1, GateInvariantHolds, PTL

(* Trimming never overlaps a request, a launch or an owned child: the      *)
(* launch lock and the second look of run_recovery_cycle.                  *)
THEOREM TrimIsAloneHolds ==
  ASSUME G!GateAssumption
  PROVE  G!Spec => []G!TrimIsAlone
<1>1. GateInv => G!TrimIsAlone
  BY DEF GateInv, LockHeld, G!TrimIsAlone
<1>2. QED
  BY <1>1, GateInvariantHolds, PTL

-----------------------------------------------------------------------------
(* Each step of the whole is a step of the part it runs, or none of it.    *)
LEMMA PartSteps ==
  ServiceSpec => Spec /\ G!Spec /\ U!Spec
<1>1. ServiceInit => Init /\ G!Init /\ U!Init
  BY DEF ServiceInit
<1>2. [ServiceNext]_serviceVars => [Next]_vars /\ [G!Next]_(G!vars) /\ [U!Next]_(U!vars)
  BY DEF ServiceNext, serviceVars, gateVars, syncVars, vars, G!vars, G!durable, G!recovery, G!history,
         U!vars, U!local, U!server
<1>3. QED
  BY <1>1, <1>2, PTL DEF ServiceSpec, Spec, G!Spec, U!Spec

(* No source is asked more often on a date than its limit allows, whoever  *)
(* asks and whatever fails; a page that is accepted holds every row of its *)
(* response, or shows the loss in its total, or is of one of the shapes    *)
(* AcceptedIsWhole names; and no page that was really delivered is         *)
(* refused, however many attempts and pages its context has seen.          *)
THEOREM RequestsAreWholeHolds ==
  ServiceSpec => []RequestsAreWhole
<1>1. Spec => []RequestInv
  BY InitRequest, StepRequest, PTL DEF Spec
<1>2. RequestInv => DailyLimit
  <2>1. RequestInv => TypeOK
    BY DEF RequestInv, RequestTyped, TypeOK, Request
  <2>2. QED
    BY <2>1 DEF RequestInv, CountedByDay, DailyLimit
<1>3. RequestInv => GenuineIsAccepted
  BY DEF RequestInv, Genuine, GenuineIsAccepted, At
<1>4. ASSUME RequestInv
      PROVE  AcceptedIsWhole
  <2>1. SUFFICES ASSUME NEW p \in Procs, At(p, "attest")
                 PROVE  \/ req[p].page.lost = "nothing"
                        \/ req[p].page.lost = "container" /\ p \notin Bounded
                        \/ req[p].page.lost = "member"
                        \/ req[p].page.lost = "tag" /\ source = "LOFIN"
    BY DEF AcceptedIsWhole
  <2>2. Whole(req[p].page, Parser(p), req[p].service) /\ req[p].service \in ServicesOf(source)
    BY <1>4, <2>1 DEF RequestInv, Genuine, At
  <2>3. QED
    BY <1>4, <2>2 DEF Whole, Parser, ServicesOf, RequestInv, RequestTyped, Sources
<1>5. RequestInv => RequestsAreWhole
  BY <1>2, <1>3, <1>4 DEF RequestsAreWhole
<1>6. QED
  BY <1>1, <1>5, PartSteps, PTL

(* No two source children run at once, a source that makes no progress is  *)
(* launched twice at most, after an oversized response only an operator    *)
(* launches it, and memory is trimmed beside nothing.                      *)
THEOREM LaunchesAreGatedHolds ==
  ServiceSpec => []LaunchesAreGated
<1>1. G!GateAssumption
  BY InstancesAssumption
<1>2. G!Spec => []G!OneChild /\ []G!AtMostTwice /\ []G!LimitWaitsForOperator /\ []G!TrimIsAlone
  BY <1>1, OneChildHolds, AtMostTwiceHolds, LimitWaitsForOperatorHolds, TrimIsAloneHolds
<1>3. G!OneChild /\ G!AtMostTwice /\ G!LimitWaitsForOperator /\ G!TrimIsAlone => LaunchesAreGated
  BY DEF LaunchesAreGated
<1>4. QED
  BY <1>2, <1>3, PartSteps, PTL

(* What is true of the uploads in every state.                             *)
LEMMA SyncInvariant ==
  ServiceSpec => []SyncInv
<1>1. U!SyncAssumption
  BY InstancesAssumption
<1>2. U!Init => SyncInv
  BY <1>1, InitSync
<1>3. SyncInv /\ [U!Next]_(U!vars) => SyncInv'
  BY <1>1, StepSync
<1>4. QED
  BY <1>2, <1>3, PartSteps, PTL DEF U!Spec

(* Whatever dies in the middle of an import, readers see one committed     *)
(* snapshot with all its sections; no snapshot that was ever served holds  *)
(* a row without a date, or one the retention of its own cycle had to take *)
(* away, though collectors start on one database, fail in any stage and    *)
(* die at any step; and who was told "imported" is right.                  *)
THEOREM ServedIsWholeHolds ==
  ServiceSpec => []ServedIsWhole
<1>1. U!SyncAssumption
  BY InstancesAssumption
<1>2. SyncInv => U!ServedIsWhole
  BY <1>1 DEF SyncInv, SyncTyped, Locked, Numbered, Committed, U!ServedIsWhole, U!TypeOK,
     U!SyncAssumption, Calendar, Upload, States, Stored
<1>3. SyncInv => U!NothingLeaks
  BY DEF SyncInv, SyncTyped, Numbered, Purged, Fresh, U!NothingLeaks
<1>4. SyncInv => U!AckedWasServed
  BY DEF SyncInv, Committed, U!AckedWasServed
<1>5. SyncInv => ServedIsWhole
  BY <1>2, <1>3, <1>4 DEF ServedIsWhole
<1>6. QED
  BY <1>5, SyncInvariant, PTL

(* A newer snapshot is replaced by an older one only if the collector of   *)
(* the older one ended before its upload did.                              *)
THEOREM NewerStaysHolds ==
  ServiceSpec => NewerStays
<1> DEFINE Kept == u_serving'.id # 0 /\ u_serving'.id < u_serving.id => u_upload[u_serving'.id].orphan
<1>1. ASSUME SyncInv, [U!Next]_(U!vars) PROVE Kept
  <2>1. SUFFICES ASSUME u_serving'.id < u_serving.id PROVE u_upload[u_serving'.id].orphan
    OBVIOUS
  <2>2. u_serving' # u_serving /\ u_snap \in Int /\ u_serving.id \in Int /\ u_serving.id <= u_snap
    BY <1>1, <2>1 DEF SyncInv, SyncTyped, Numbered, Stored
  <2>3. PICK i \in U!Snaps : Server(i)
    BY <1>1, <2>2 DEF U!Next, Server, U!vars, U!local, U!server, U!Midnight, U!OtherWorker, U!Start,
       U!End, U!Cycle,
       U!Fail, U!Collect, U!Purge, U!Build, U!Push, U!Answered, U!GiveUp
  <2>4. u_serving'.id = i /\ u_upload[i].state \in U!Alive
    BY <1>1, <2>2, <2>3, ServerServes, ServerMoves DEF SyncInv
  <2>5. i # u_snap
    BY <2>1, <2>2, <2>4
  <2>6. u_upload[i] \in Upload
    BY <1>1 DEF SyncInv, SyncTyped
  <2>7. QED
    BY <1>1, <2>4, <2>5, <2>6 DEF SyncInv, Awaited, Upload
<1>2. SyncInv /\ [U!Next]_(U!vars) => [Kept]_(U!vars)
  BY <1>1
<1>3. QED
  BY <1>2, SyncInvariant, PartSteps, PTL DEF U!Spec, NewerStays, U!NewerStays

=============================================================================
