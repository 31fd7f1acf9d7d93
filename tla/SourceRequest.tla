--------------------------- MODULE SourceRequest ---------------------------
(***************************************************************************)
(* How a page is asked of a source: vnext_http.request (shopping) and      *)
(* lofin_vnext_http._request (the budget services QWGJK and AIDFA), inside *)
(* the request contexts of vnext_source_guard.  Every attempt spends one   *)
(* permit of the context and one request of the source's Korean day; the   *)
(* day's counter is shared by all processes.  A collector accepts a page   *)
(* only if the context recorded exactly one new success, of that page.     *)
(*                                                                         *)
(* A response is an envelope: what its parts are, not how they are spelt.  *)
(* The child with the small memory tier parses in bounded pieces, any      *)
(* other process with the legacy parser.  Reading the date, reserving a    *)
(* request and the network are separate steps of a process.                *)
(***************************************************************************)
EXTENDS Integers, FiniteSets

CONSTANTS
  Procs,       \* processes that may ask a source
  Bounded,     \* those that use the bounded parser and its memory checks
  Probes,      \* those that only probe a connection, with one request
  Limit,       \* requests of one source and day (900 and 500)
  MaxPermits,  \* request budget of a collector's context
  Retries,     \* attempts of a request
  LastDay      \* bound on the calendar

ASSUME RequestAssumption ==
  /\ Bounded \cup Probes \subseteq Procs
  /\ {Limit, MaxPermits, Retries} \subseteq Nat \ {0} /\ LastDay \in Nat /\ LastDay >= 2

Services == {"SHOPPING", "QWGJK", "AIDFA"}
(* The two counters share no key and no lock: a behaviour is about the     *)
(* services of one of them.                                                *)
Sources == {"G2B", "LOFIN"}
ServicesOf(s) == IF s = "G2B" THEN {"SHOPPING"} ELSE {"QWGJK", "AIDFA"}
Days == 1..LastDay

VARIABLES
  today,    \* the Korean date
  source,   \* the source asked
  counter,  \* the date and the count of it in app_settings
  ctx,      \* the context of each process
  req,      \* the request of each process
  sent,     \* history: requests reserved on each date
  stale     \* history: somebody reserved under a date that was over

vars == <<today, source, counter, ctx, req, sent, stale>>

-----------------------------------------------------------------------------
(* Envelopes.  The row container may occur a second time, as a sibling or  *)
(* as an equal JSON member; what a response carries is what the source     *)
(* sent, whatever a parser makes of it; without a container, unless the    *)
(* total or the code says none, rows may hide under an unknown name.  In a *)
(* mixed list something is no row; beside the rows their container may     *)
(* hold another name (in XML, where the list is the container, the same).  *)
Envelope ==
  [form : {"empty", "broken", "json", "xml"}, code : {"none", "ok", "nodata", "22", "23", "01", "30"},
   body : BOOLEAN, items : {"absent", "null", "rows", "mixed", "beside"},
   second : {"no", "sibling", "member"}, total : {"none", "zero", "some", "bad"},
   size : {"fits", "wide", "huge"}]
Carried(e) ==
  IF ~e.body THEN 0
  ELSE IF e.items \in {"rows", "mixed", "beside"}
       THEN (IF e.items = "rows" THEN 1 ELSE 2) + (IF e.second = "no" THEN 0 ELSE 1)
  ELSE IF e.items = "absent" /\ e.total # "zero" /\ e.code # "nodata" THEN 1 ELSE 0

(* Of a parsed page the model keeps what it has silently lost; a collector *)
(* sees the loss when the page's own total is larger.                      *)
Page(e, n) ==
  [kind |-> "page",
   lost |-> IF n = Carried(e) \/ (n = 0 /\ e.total = "some") THEN "nothing"
            ELSE IF e.second # "no" THEN "container"
            ELSE IF e.form = "xml" /\ e.items # "rows" THEN "tag"
            ELSE IF e.form = "json" /\ e.items = "beside" THEN "member" ELSE "rows"]
Error(kind) == [kind |-> kind, lost |-> "nothing"]

(* A response beyond the byte ceiling is refused; a bounded parser also    *)
(* limits rows, fields, depth and retained bytes, and holds.  It refuses a *)
(* second container, where the legacy parsers keep one or join them.       *)
Parsers == {"bounded", "legacy"}
Refused(e, parser) ==
  \/ e.size = "huge"
  \/ parser = "bounded" /\ (e.size = "wide" \/ e.second # "no")
  \/ e.form \in {"empty", "broken"}
Refusal(e, parser) ==
  Error(IF parser = "bounded" /\ e.size # "fits" THEN "hold" ELSE "final")

(* _api_error: 22 is the source's own quota, 23 its rate limit, 01 02 05   *)
(* may be asked again, anything else is final.                             *)
ApiError(code) == Error(IF code \in {"23", "01"} THEN "retry" ELSE "final")

(* Only an explicit zero total stands for a missing container.             *)
EmptyShape_Bug(e) == e.items \in {"null", "absent"}        \* any missing container
EmptyShape(e) == e.items = "null" \/ (e.items = "absent" /\ e.total = "zero")

(* XML refuses another tag among the items, an items object takes "item".  *)
ParseShopping(e, parser) ==
  IF Refused(e, parser) THEN Refusal(e, parser)
  ELSE IF e.code \notin {"none", "ok"} THEN ApiError(e.code)
  ELSE IF e.code = "none" \/ ~e.body \/ e.total = "bad" THEN Error("final")
  ELSE IF EmptyShape(e) THEN Page(e, 0)
  ELSE IF e.items = "rows" \/ (e.items = "beside" /\ e.form = "json") THEN Page(e, 1)
  ELSE Error("final")

(* LOFIN joins sibling containers.  "No data" may come without an envelope *)
(* but not with rows or a positive total.  XML has no container of rows:   *)
(* none is an empty page, and every other child is passed over, as another *)
(* member of a JSON entry is.  No error of the service is asked again.     *)
LofinRows(e) == e.items \in {"rows", "beside"} \/ (e.items = "mixed" /\ e.form = "xml")
ParseLofin(e, parser) ==
  IF Refused(e, parser) THEN Refusal(e, parser)
  ELSE IF ~e.body THEN IF e.code = "nodata" THEN Page(e, 0) ELSE Error("final")
  ELSE IF \/ e.code \notin {"ok", "nodata"} \/ e.total = "bad"
          \/ e.items = "mixed" /\ e.form = "json"
       THEN Error("final")
  ELSE IF e.code = "nodata"
       THEN IF LofinRows(e) \/ e.total = "some" THEN Error("final") ELSE Page(e, 0)
  ELSE IF e.items = "absent" /\ e.form = "json" THEN Error("final")
  ELSE Page(e, IF ~LofinRows(e) THEN 0 ELSE IF e.second = "sibling" THEN 2 ELSE 1)

Parse(service, e, parser) ==
  IF service = "SHOPPING" THEN ParseShopping(e, parser) ELSE ParseLofin(e, parser)

(* What the network can come back with: an HTTP failure worth another      *)
(* attempt or not, no answer, or a response.                               *)
Answers == [s \in Services |-> [parser \in Parsers |->
  {Error("retry"), Error("final")} \cup {Parse(s, e, parser) : e \in Envelope}]]

-----------------------------------------------------------------------------
NoContext == [limit |-> 0, used |-> 0, successes |-> 0]
NoRequest == [pc |-> "idle", service |-> "SHOPPING", attempt |-> 0, date |-> 0,
              used |-> 0, successes |-> 0, page |-> Error("none")]

Init ==
  /\ today = 2 /\ source \in Sources /\ counter = [date |-> 0, count |-> 0]
  /\ ctx = [p \in Procs |-> NoContext] /\ req = [p \in Procs |-> NoRequest]
  /\ sent = [d \in Days |-> 0] /\ stale = FALSE

Midnight ==
  /\ today < LastDay /\ today' = today + 1
  /\ UNCHANGED <<source, counter, ctx, req, sent, stale>>

At(p, label) == req[p].pc = label
Goto(p, label) == req' = [req EXCEPT ![p].pc = label]
Fail(p) == req' = [req EXCEPT ![p] = [NoRequest EXCEPT !.pc = "failed"]]

(* A context for the one shopping day or budget date that a collector or a *)
(* probe is about; contexts do not nest.                                   *)
Permits(p) == IF p \in Probes THEN 1 ELSE MaxPermits
Open(p) ==
  /\ At(p, "idle") /\ Goto(p, "open")
  /\ ctx' = [ctx EXCEPT ![p] = [NoContext EXCEPT !.limit = Permits(p)]]
  /\ UNCHANGED <<today, source, counter, sent, stale>>

Close(p) ==
  /\ req[p].pc \in {"open", "failed"}
  /\ ctx' = [ctx EXCEPT ![p] = NoContext] /\ req' = [req EXCEPT ![p] = NoRequest]
  /\ UNCHANGED <<today, source, counter, sent, stale>>

(* A collector remembers what the context has recorded and asks for a page.*)
AskPage(p) ==
  /\ At(p, "open")
  /\ \E s \in ServicesOf(source) :
       req' = [req EXCEPT ![p] = [NoRequest EXCEPT !.pc = "attempt", !.service = s,
                 !.used = ctx[p].used, !.successes = ctx[p].successes]]
  /\ UNCHANGED <<today, source, counter, ctx, sent, stale>>

(* require_source_request_context spends the permit before anything else.  *)
(* Denied memory must not consume a request of the day.                    *)
Authorize(p) ==
  /\ At(p, "attempt")
  /\ IF ctx[p].used < ctx[p].limit
       THEN /\ ctx' = [ctx EXCEPT ![p].used = @ + 1]
            /\ \/ req' = [req EXCEPT ![p].pc = "take", ![p].date = today]
               \/ p \in Bounded /\ Fail(p)
       ELSE Fail(p) /\ UNCHANGED ctx
  /\ UNCHANGED <<today, source, counter, sent, stale>>

(* _quota_take under its advisory lock, with the date read before it.      *)
Exhausted_Bug(count) == count > Limit                       \* one too many
Exhausted(count) == count >= Limit
Take(p) ==
  LET d == req[p].date
      count == IF counter.date = d THEN counter.count ELSE 0
  IN  /\ At(p, "take")
      /\ IF Exhausted(count)
           THEN Fail(p) /\ UNCHANGED <<counter, sent, stale>>
           ELSE /\ counter' = [date |-> d, count |-> count + 1]
                /\ sent' = [sent EXCEPT ![d] = @ + 1]
                /\ stale' = (stale \/ d # today) /\ Goto(p, "wait")
      /\ UNCHANGED <<today, source, ctx>>

(* The answer.  A retry spends a permit and a request of its own.          *)
Parser(p) == IF p \in Bounded THEN "bounded" ELSE "legacy"
MayRetry(attempt) == attempt + 1 < Retries
Answered(p) ==
  /\ At(p, "wait")
  /\ \E a \in Answers[req[p].service][Parser(p)] :
       IF a.kind = "page" THEN req' = [req EXCEPT ![p].pc = "parsed", ![p].page = a, ![p].date = 0]
       ELSE IF a.kind = "retry" /\ MayRetry(req[p].attempt)
         THEN req' = [req EXCEPT ![p].pc = "attempt", ![p].attempt = @ + 1, ![p].date = 0]
       ELSE Fail(p)
  /\ UNCHANGED <<today, source, counter, ctx, sent, stale>>

Recorded(c) == [c EXCEPT !.successes = @ + 1]

(* The transport records the page, except those of QWGJK, which            *)
(* budget_vnext.fetch_page records; memory may be denied after the parse.  *)
TransportRecords_Bug(service) == TRUE
TransportRecords(service) == service # "QWGJK"
FetchPage(p) ==
  LET s == req[p].service
      sentOn == IF TransportRecords(s) THEN Recorded(ctx[p]) ELSE ctx[p]
  IN  /\ At(p, "parsed")
      /\ \/ /\ ctx' = [ctx EXCEPT ![p] =
                    IF s = "QWGJK" THEN Recorded(sentOn) ELSE sentOn]
            /\ Goto(p, "attest")
         \/ p \in Bounded /\ Fail(p) /\ UNCHANGED ctx
      /\ UNCHANGED <<today, source, counter, sent, stale>>

(* require_attested_transport_result; the one new success is this page's.  *)
(* The collector stores the page and goes on with the next one.            *)
Attested(p) ==
  ctx[p].used > req[p].used /\ ctx[p].successes = req[p].successes + 1
Accept(p) ==
  /\ At(p, "attest")
  /\ IF Attested(p) THEN req' = [req EXCEPT ![p] = [NoRequest EXCEPT !.pc = "open"]]
                    ELSE Fail(p)
  /\ UNCHANGED <<today, source, counter, ctx, sent, stale>>

Crash(p) ==
  /\ ~At(p, "idle")
  /\ ctx' = [ctx EXCEPT ![p] = NoContext] /\ req' = [req EXCEPT ![p] = NoRequest]
  /\ UNCHANGED <<today, source, counter, sent, stale>>

Next ==
  \/ Midnight
  \/ \E p \in Procs :
       \/ Open(p) \/ AskPage(p) \/ Authorize(p) \/ Take(p) \/ Answered(p)
       \/ FetchPage(p) \/ Accept(p) \/ Close(p) \/ Crash(p)

Spec == Init /\ [][Next]_vars

-----------------------------------------------------------------------------
Labels == {"idle", "open", "attempt", "take", "wait", "parsed", "attest", "failed"}
TypeOK ==
  /\ today \in Days /\ source \in Sources /\ stale \in BOOLEAN
  /\ counter \in [date : 0..LastDay, count : 0..Limit]
  /\ sent \in [Days -> Nat]
  /\ \A p \in Procs : /\ req[p].pc \in Labels /\ req[p].attempt \in 0..Retries
                      /\ ctx[p].used \in 0..ctx[p].limit /\ ctx[p].limit \in 0..MaxPermits

(* No source is asked more often on a date than its limit allows, whoever  *)
(* asks and whatever fails, as long as nobody reserved a request under a   *)
(* date that was already over.                                             *)
DailyLimit == TypeOK /\ (~stale => \A d \in Days : sent[d] <= Limit)

(* A page that a collector accepts holds every row the response carried,   *)
(* or its own total tells the loss: no shape of an envelope loses rows     *)
(* silently ("refusing silent row loss", vnext_http.py:412).  Except that  *)
(* a legacy parser lets a second container disappear, that JSON may hold   *)
(* another member beside the one with the rows, and that LOFIN passes over *)
(* XML children of an unknown tag, with or without known rows.             *)
AcceptedIsWhole ==
  \A p \in Procs : At(p, "attest") /\ Attested(p) =>
    \/ req[p].page.lost = "nothing"
    \/ req[p].page.lost = "container" /\ p \notin Bounded
    \/ req[p].page.lost = "member"
    \/ req[p].page.lost = "tag" /\ source = "LOFIN"

(* The attestation refuses no page the transport really delivered, however *)
(* many attempts, services and pages the context has seen before.          *)
GenuineIsAccepted == \A p \in Procs : At(p, "attest") => Attested(p)

=============================================================================
