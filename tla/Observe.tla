------------------------------ MODULE Observe ------------------------------
(***************************************************************************)
(* What the console shows of the traffic: the counters and the curve of    *)
(* the last minutes (metrics.go), the ring of access-log entries and the   *)
(* streams that follow it (accesslog.go, stats.go).                        *)
(*                                                                         *)
(* A request on its way through the pipeline (Gateway) counts itself in    *)
(* several calls, each of which takes the lock of the counters for itself, *)
(* and writes its entry last, in a deferred call: also when the reverse    *)
(* proxy panics with ErrAbortHandler because a backend broke off in the    *)
(* middle of its answer.  A page of the console follows the ring through a *)
(* stream and asks for the history besides (LogsPage.tsx): neither waits   *)
(* for the other, and the ring never waits for a page.                     *)
(*                                                                         *)
(* An entry is its number; the routes' counters are added up; how long a   *)
(* request took, the time of a point, and what the console only reads      *)
(* (/stats, /metrics) are left out.                                        *)
(***************************************************************************)
EXTENDS Integers, Sequences, FiniteSets, SequencesExt

CONSTANTS
  Requests,  \* goroutines that serve a request
  Pages,     \* goroutines that serve /_goproxy/events
  Size,      \* logRingSize
  Depth,     \* logSubBuffer
  Points,    \* seriesSize
  Limits,    \* entries a page may ask for
  MaxSeq,    \* bound: requests there are
  MaxSamples \* bound: points that are taken

ASSUME ObserveAssumption ==
  /\ Size \in Nat \ {0} /\ Depth \in Nat \ {0} /\ Points \in Nat \ {0}
  /\ Limits \subseteq Nat /\ MaxSeq \in Nat /\ MaxSamples \in Nat
  /\ IsFiniteSet(Requests) /\ IsFiniteSet(Pages)

VARIABLES
  log,       \* logBuffer: buf, head, size, seq, dropped
  chan,      \* per page that is in subs: its channel
  page,      \* per page: whether its stream is open, what it has got
  req,       \* per goroutine: where its request is, and its status
  total,     \* totals of requests, errors and blocked requests
  inFly,     \* the gauge
  count,     \* how many durations have been observed
  series,    \* the curve: buf, at, n, last
  hist       \* history variables

vars == <<log, chan, page, req, total, inFly, count, series, hist>>
counters == <<total, inFly, count, series>>
feeds == <<log, chan, page>>

-----------------------------------------------------------------------------
(* The ring. *)

Least(a, b) == IF a < b THEN a ELSE b

(* As if it began at the oldest entry, however few are asked for. *)
RecentFromHead(n) ==
  LET k == IF n = 0 \/ n > log.size THEN log.size ELSE n
      start == (log.head + Size - log.size) % Size
  IN [i \in 1 .. k |-> log.buf[(start + i - 1) % Size]]

(* The numbers Recent(n) finds, from old to new. *)
Recent(n) ==
  LET k == IF n = 0 \/ n > log.size THEN log.size ELSE n
      start == (log.head + Size - k) % Size
  IN [i \in 1 .. k |-> log.buf[(start + i - 1) % Size]]

Full(p) == Len(chan[p]) = Depth
Subscribed == DOMAIN chan

(* Add, with the broadcast: a channel that is full gets nothing. *)
Broadcast(e) ==
  chan' = [p \in Subscribed |-> IF Full(p) THEN chan[p] ELSE Append(chan[p], e)]

(* As if one drop were counted, however many pages are slow. *)
AddCountsOnce ==
  /\ log' = [buf |-> [log.buf EXCEPT ![log.head] = log.seq + 1],
             head |-> (log.head + 1) % Size,
             size |-> Least(log.size + 1, Size),
             seq |-> log.seq + 1,
             dropped |-> log.dropped + IF \E p \in Subscribed : Full(p) THEN 1 ELSE 0]
  /\ Broadcast(log.seq + 1)

Add ==
  /\ log' = [buf |-> [log.buf EXCEPT ![log.head] = log.seq + 1],
             head |-> (log.head + 1) % Size,
             size |-> Least(log.size + 1, Size),
             seq |-> log.seq + 1,
             dropped |-> log.dropped + Cardinality({p \in Subscribed : Full(p)})]
  /\ Broadcast(log.seq + 1)

-----------------------------------------------------------------------------
(* A request. *)

Statuses == {"less", "5xx"}
Busy == {q \in Requests : req[q].stage # "idle"}
At(stage) == {q \in Requests : req[q].stage = stage}
To(q, stage) == req' = [req EXCEPT ![q].stage = stage]

Arrive(q) ==
  /\ req[q].stage = "idle" /\ log.seq + Cardinality(Busy) < MaxSeq
  /\ To(q, "gates")
  /\ UNCHANGED <<feeds, counters, hist>>

(* A ban, a list, a limit, a breaker (503) or the credentials refuse it. *)
Reject(q) ==
  /\ req[q].stage = "gates"
  /\ \E s \in Statuses : req' = [req EXCEPT ![q] = [stage |-> "answered", status |-> s]]
  /\ total' = [total EXCEPT !.blocked = @ + 1]
  /\ UNCHANGED <<feeds, inFly, count, series, hist>>

(* No route, or a redirection. *)
Turn(q) ==
  /\ req[q].stage = "gates"
  /\ To(q, "answered")
  /\ UNCHANGED <<feeds, counters, hist>>

(* An ACME challenge is answered, and counted nowhere. *)
Challenge(q) ==
  /\ req[q].stage = "gates"
  /\ To(q, "done")
  /\ hist' = [hist EXCEPT !.uncounted = @ + 1]
  /\ UNCHANGED <<feeds, counters>>

Forward(q) ==
  /\ req[q].stage = "gates"
  /\ To(q, "forwarded")
  /\ inFly' = inFly + 1
  /\ hist' = [hist EXCEPT !.sent = @ + 1]
  /\ UNCHANGED <<feeds, total, count, series>>

(* The reverse proxy panics: only the deferred call is left. *)
Abort(q) ==
  /\ req[q].stage = "forwarded"
  /\ To(q, "done")
  /\ hist' = [hist EXCEPT !.aborted = @ + 1, !.uncounted = @ + 1]
  /\ UNCHANGED <<feeds, counters>>

(* DecInFlight. *)
Answer(q) ==
  /\ req[q].stage = "forwarded"
  /\ \E s \in Statuses : req' = [req EXCEPT ![q] = [stage |-> "back", status |-> s]]
  /\ inFly' = inFly - 1
  /\ UNCHANGED <<feeds, total, count, series, hist>>

ObserveDuration(q) ==
  /\ req[q].stage = "back"
  /\ To(q, "answered")
  /\ count' = count + 1
  /\ UNCHANGED <<feeds, total, inFly, series, hist>>

(* IncRequest *)
IncRequest(q) ==
  /\ req[q].stage = "answered"
  /\ To(q, "done")
  /\ total' = [total EXCEPT !.requests = @ + 1,
                            !.errors = @ + IF req[q].status = "5xx" THEN 1 ELSE 0]
  /\ UNCHANGED <<feeds, inFly, count, series, hist>>

(* logAccess *)
LogAccess(q) ==
  /\ req[q].stage = "done"
  /\ Add
  /\ req' = [req EXCEPT ![q] = [stage |-> "idle", status |-> "less"]]
  /\ UNCHANGED <<page, counters, hist>>

-----------------------------------------------------------------------------
(* The curve. *)

Kinds == {"requests", "errors", "blocked"}
Zero == [k \in Kinds |-> 0]
Minus(a, b) == [k \in Kinds |-> a[k] - b[k]]

(* As if the differences were taken with what the counters were at first. *)
SampleWhole ==
  /\ Len(hist.marks) <= MaxSamples
  /\ series' = [buf |-> [series.buf EXCEPT ![series.at] = total],
                at |-> (series.at + 1) % Points,
                n |-> Least(series.n + 1, Points),
                last |-> total]
  /\ hist' = [hist EXCEPT !.marks = Append(@, total)]
  /\ UNCHANGED <<feeds, req, total, inFly, count>>

Sample ==
  /\ Len(hist.marks) <= MaxSamples
  /\ series' = [buf |-> [series.buf EXCEPT ![series.at] = Minus(total, series.last)],
                at |-> (series.at + 1) % Points,
                n |-> Least(series.n + 1, Points),
                last |-> total]
  /\ hist' = [hist EXCEPT !.marks = Append(@, total)]
  /\ UNCHANGED <<feeds, req, total, inFly, count>>

SeriesPoints ==
  LET start == (series.at - series.n + Points) % Points
  IN [i \in 1 .. series.n |-> series.buf[(start + i - 1) % Points]]

-----------------------------------------------------------------------------
(* A page.  from and upto are history: the last entry before the stream is *)
(* subscribed, and the last before the history was read.  got is what came *)
(* through the stream; recent, the answer of /logs, takes the place of the *)
(* first cut of it when it is shown.                                       *)

Gone == [stage |-> "off", from |-> 0, got |-> <<>>,
         asked |-> "no", upto |-> 0, recent |-> <<>>, cut |-> 0]

(* handleEvents: the header of the answer is sent before it subscribes. *)
Begin(p) ==
  /\ page[p].stage = "off"
  /\ page' = [page EXCEPT ![p].stage = "begun"]
  /\ UNCHANGED <<log, chan, req, counters, hist>>

Subscribe(p) ==
  /\ page[p].stage = "begun"
  /\ chan' = [o \in Subscribed \cup {p} |-> IF o = p THEN <<>> ELSE chan[o]]
  /\ page' = [page EXCEPT ![p].stage = "open", ![p].from = log.seq]
  /\ UNCHANGED <<log, req, counters, hist>>

(* At once when the page is opened, when the header is there after a break *)
(* of the stream: before handleEvents, in the middle of it or after it.    *)
HandleLogs(p) ==
  /\ page[p].asked = "no"
  /\ \E n \in Limits :
       page' = [page EXCEPT ![p].asked = "read", ![p].upto = log.seq,
                            ![p].recent = Recent(n)]
  /\ UNCHANGED <<log, chan, req, counters, hist>>

(* setEntries(list): whatever has been shown so far is replaced. *)
LoadHistory(p) ==
  /\ page[p].asked = "read"
  /\ page' = [page EXCEPT ![p].asked = "shown", ![p].cut = Len(page[p].got)]
  /\ UNCHANGED <<log, chan, req, counters, hist>>

(* What the channel holds, after a hello: onEntry appends it. *)
Deliver(p) ==
  /\ page[p].stage = "open" /\ chan[p] # <<>>
  /\ chan' = [chan EXCEPT ![p] = Tail(@)]
  /\ page' = [page EXCEPT ![p].got = Append(@, Head(chan[p]))]
  /\ UNCHANGED <<log, req, counters, hist>>

Feed(p) == page[p].got \o chan[p]
Lacks(p) == (page[p].from + 1 .. log.seq) \ ToSet(Feed(p))

Cut(p) == SubSeq(page[p].got, 1, page[p].cut)
Shown(p) == page[p].recent \o SubSeq(page[p].got, page[p].cut + 1, Len(page[p].got))

(* The client is gone: cancel. *)
Cancel(p) ==
  /\ page[p].stage = "open"
  /\ chan' = [o \in Subscribed \ {p} |-> chan[o]]
  /\ page' = [page EXCEPT ![p] = Gone]
  /\ hist' = [hist EXCEPT !.lacked = @ + Cardinality(Lacks(p))]
  /\ UNCHANGED <<log, req, counters>>

-----------------------------------------------------------------------------
(* newLogBuffer, NewMetrics *)
Init ==
  /\ log = [buf |-> [i \in 0 .. Size - 1 |-> 0], head |-> 0, size |-> 0,
            seq |-> 0, dropped |-> 0]
  /\ chan = <<>>
  /\ page = [p \in Pages |-> Gone]
  /\ req = [q \in Requests |-> [stage |-> "idle", status |-> "less"]]
  /\ total = Zero /\ inFly = 0 /\ count = 0
  /\ series = [buf |-> [i \in 0 .. Points - 1 |-> Zero], at |-> 0, n |-> 0, last |-> Zero]
  /\ hist = [uncounted |-> 0, sent |-> 0, aborted |-> 0, lacked |-> 0,
             marks |-> <<Zero>>]

Next ==
  \/ \E q \in Requests :
       \/ Arrive(q) \/ Reject(q) \/ Turn(q) \/ Challenge(q) \/ Forward(q)
       \/ Abort(q) \/ Answer(q) \/ ObserveDuration(q) \/ IncRequest(q) \/ LogAccess(q)
  \/ \E p \in Pages :
       \/ Begin(p) \/ Subscribe(p) \/ Deliver(p) \/ Cancel(p)
       \/ HandleLogs(p) \/ LoadHistory(p)
  \/ Sample

Spec == Init /\ [][Next]_vars

-----------------------------------------------------------------------------
(* Properties. *)

Missing == {m \in Subscribed \X (1 .. log.seq) : m[2] \in Lacks(m[1])}

(* A stream is the log from its subscription on, in order and nothing      *)
(* twice, and what is missing from the streams is what dropped counts,     *)
(* also after pages have come and gone (accesslog.go:94, stats.go:100).    *)
FeedsAccounted ==
  /\ \A p \in Subscribed :
       /\ Len(chan[p]) <= Depth
       /\ \A i \in DOMAIN Feed(p) :
            /\ Feed(p)[i] \in page[p].from + 1 .. log.seq
            /\ \A j \in 1 .. i - 1 : Feed(p)[j] < Feed(p)[i]
  /\ log.dropped = hist.lacked + Cardinality(Missing)

(* A page that shows both shows the log from the first entry of the        *)
(* history on, whichever was asked for first.  Besides what is on its way  *)
(* or has been dropped and counted, it lacks only what was logged between  *)
(* the reading of the history and the subscription, or came after that     *)
(* reading and before the answer, which replaced it; and it has twice, or  *)
(* out of order, only what was logged between the subscription and the     *)
(* reading.  stats.go:125 has the page drop the latter by their number,    *)
(* and LogsPage.tsx:126 has no gap, the history being first: neither is    *)
(* what the page does, and this is what is left of the two.                *)
HistoryMeetsStream ==
  \A p \in Subscribed :
    LET v == page[p]
    IN v.asked = "shown" =>
         /\ \A i \in DOMAIN v.recent : v.recent[i] = v.upto - Len(v.recent) + i
         /\ v.recent = <<>> => v.upto = 0
         /\ \A e \in v.upto - Len(v.recent) + 1 .. log.seq :
              \/ e \in ToSet(Shown(p)) \cup ToSet(chan[p]) \cup Lacks(p)
              \/ e > v.upto /\ (e <= v.from \/ e \in ToSet(Cut(p)))
         /\ \A j \in DOMAIN Shown(p) : \A i \in 1 .. j - 1 :
              Shown(p)[i] >= Shown(p)[j] => Shown(p)[j] \in v.from + 1 .. v.upto

(* Nothing is counted twice or forgotten between the calls that count a    *)
(* request: the log has the requests that are counted and those that are   *)
(* answered but cannot be, the gauge has those on their way and, for good, *)
(* those whose answer broke off, and each of the points that the curve     *)
(* keeps has what was counted since the point before it, the last ones in  *)
(* their order (main.go:539, metrics.go:320).                              *)
CountsAddUp ==
  /\ total.requests + hist.uncounted = log.seq + Cardinality(At("done"))
  /\ inFly = Cardinality(At("forwarded")) + hist.aborted
  /\ count = hist.sent - hist.aborted - Cardinality(At("forwarded") \cup At("back"))
  /\ LET m == hist.marks
         first == Len(m) - series.n
     IN /\ series.last = Last(m) /\ series.n = Least(Len(m) - 1, Points)
        /\ \A i \in 1 .. series.n :
             SeriesPoints[i] = Minus(m[first + i], m[first + i - 1])
  /\ \A k \in Kinds : series.last[k] <= total[k]
=============================================================================
