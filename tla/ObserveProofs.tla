---------------------------- MODULE ObserveProofs ----------------------------
(***************************************************************************)
(* What holds of the counters and the access log for every size of the     *)
(* rings and of the channels and for any number of pages and requests: the *)
(* ring has the last entries in order, what a stream lacks is what dropped *)
(* counts, what a page shows of its history and its stream has gaps and    *)
(* repetitions only between the two, and the counters and the points of    *)
(* the curve add up to the requests there were.                            *)
(***************************************************************************)
EXTENDS Observe, FiniteSetTheorems, SequenceTheorems, TLAPS

-----------------------------------------------------------------------------
(* Places in the ring *)

\* An index is never as far as twice around.
LEMMA Wrap ==
  ASSUME NEW n \in Nat \ {0}, NEW x \in 0 .. 2 * n - 1
  PROVE  x % n = IF x < n THEN x ELSE x - n
<1>1. CASE x < n
  <2>1. x = n * 0 + x
    BY <1>1
  <2> QED BY <1>1, SMT
<1>2. CASE ~(x < n)
  BY <1>2, SMT
<1> QED BY <1>1, <1>2

\* The place that is j before the head of a ring of n.
Before(n, h, j) == IF h >= j THEN h - j ELSE h + n - j

LEMMA BeforeIs ==
  ASSUME NEW n \in Nat \ {0}, NEW h \in 0 .. n - 1, NEW j \in 1 .. n
  PROVE  (h + n - j) % n = Before(n, h, j) /\ Before(n, h, j) \in 0 .. n - 1
<1> DEFINE x == h + n - j
<1>1. x \in 0 .. 2 * n - 1 /\ x = h + n - j
  OBVIOUS
<1> HIDE DEF x
<1>2. x % n = IF x < n THEN x ELSE x - n
  BY <1>1, Wrap
<1>3. x % n = Before(n, h, j) /\ Before(n, h, j) \in 0 .. n - 1
  BY <1>1, <1>2 DEF Before
<1> QED BY <1>1, <1>3

\* The places in a ring are different.
LEMMA Elsewhere ==
  ASSUME NEW n \in Nat \ {0}, NEW h \in 0 .. n - 1, NEW j \in 1 .. n - 1
  PROVE  Before(n, h, j) # h /\ Before(n, h, j) \in 0 .. n - 1
BY DEF Before

\* The place after one.
After(n, h) == IF h + 1 < n THEN h + 1 ELSE 0

LEMMA AfterIs ==
  ASSUME NEW n \in Nat \ {0}, NEW h \in 0 .. n - 1
  PROVE  (h + 1) % n = After(n, h)
<1> DEFINE x == h + 1
<1>1. x \in 0 .. 2 * n - 1 /\ x = h + 1
  OBVIOUS
<1> HIDE DEF x
<1>2. x % n = IF x < n THEN x ELSE x - n
  BY <1>1, Wrap
<1>3. x % n = After(n, h)
  BY <1>1, <1>2 DEF After
<1> QED BY <1>1, <1>3

\* In new the newest is v, and what is in buf is one place further from the next head.
Pushed(n, h, buf, v, new) ==
  /\ new[Before(n, After(n, h), 1)] = v
  /\ \A j \in 1 .. n - 1 : new[Before(n, After(n, h), j + 1)] = buf[Before(n, h, j)]

LEMMA RingPush ==
  ASSUME NEW n \in Nat \ {0}, NEW h \in 0 .. n - 1, NEW v, NEW buf, DOMAIN buf = 0 .. n - 1
  PROVE  Pushed(n, h, buf, v, [buf EXCEPT ![h] = v])
<1> DEFINE g == After(n, h)
           new == [buf EXCEPT ![h] = v]
<1>3. g = IF h + 1 < n THEN h + 1 ELSE 0
  BY DEF After
<1> HIDE DEF g
<1>4. g \in 0 .. n - 1 /\ Before(n, g, 1) = h
  BY <1>3 DEF Before
<1>5. \A j \in 1 .. n - 1 : Before(n, g, j + 1) = Before(n, h, j)
  BY <1>3 DEF Before
<1>6. new[h] = v /\ \A a \in 0 .. n - 1 : a # h => new[a] = buf[a]
  OBVIOUS
<1>7. \A j \in 1 .. n - 1 : new[Before(n, g, j + 1)] = buf[Before(n, h, j)]
  <2> TAKE j \in 1 .. n - 1
  <2>1. Before(n, h, j) \in 0 .. n - 1 /\ Before(n, h, j) # h
    BY Elsewhere
  <2> QED BY <1>5, <1>6, <2>1
<1> QED BY <1>4, <1>6, <1>7 DEF g, Pushed

\* Where the k newest are read from old to new, the i-th is the one that is
\* k - i + 1 before the head.
LEMMA RingRead ==
  ASSUME NEW n \in Nat \ {0}, NEW h \in 0 .. n - 1, NEW k \in 1 .. n, NEW i \in 1 .. k
  PROVE  (((h + n - k) % n) + i - 1) % n = Before(n, h, k - i + 1)
<1> DEFINE start == (h + n - k) % n
           x == start + i - 1
<1>1. start = Before(n, h, k) /\ start \in 0 .. n - 1
  BY BeforeIs
<1> HIDE DEF start
<1>2. x \in 0 .. 2 * n - 1 /\ x = Before(n, h, k) + i - 1
  BY <1>1
<1> HIDE DEF x
<1>3. x % n = IF x < n THEN x ELSE x - n
  BY <1>2, Wrap
<1>4. x % n = Before(n, h, k - i + 1)
  BY <1>2, <1>3 DEF Before
<1> QED BY <1>4 DEF x, start

-----------------------------------------------------------------------------
(* The invariant *)

\* The ring has the last entries, the newest before the head.
RingOK ==
  /\ log.buf \in [0 .. Size - 1 -> Nat] /\ log.head \in 0 .. Size - 1 /\ log.seq \in Nat
  /\ log.size = Least(log.seq, Size)
  /\ \A j \in 1 .. log.size : log.buf[Before(Size, log.head, j)] = log.seq - j + 1

Visit == [stage : {"off", "begun", "open"}, from : Nat, got : Seq(Nat),
          asked : {"no", "read", "shown"}, upto : Nat, recent : Seq(Nat), cut : Nat]

\* A page has a channel while its stream is open.
VisitsOK ==
  /\ page \in [Pages -> Visit]
  /\ Subscribed = {p \in Pages : page[p].stage = "open"}
  /\ chan \in [Subscribed -> Seq(Nat)]
  /\ \A p \in Pages : page[p].from <= log.seq

\* r is the last entries up to u, in order.
LastUpTo(r, u) ==
  /\ Len(r) <= u /\ (r = <<>> => u = 0)
  /\ \A i \in DOMAIN r : r[i] = u - Len(r) + i

\* What a page has of the history is as it was when it was read.
AnswersOK ==
  \A p \in Pages :
    LET v == page[p] IN LastUpTo(v.recent, v.upto) /\ v.upto <= log.seq /\ v.cut <= Len(v.got)

HistoryInv == RingOK /\ VisitsOK /\ AnswersOK

LEMMA HistoryInit == Init => HistoryInv
<1> SUFFICES ASSUME Init PROVE HistoryInv
  OBVIOUS
<1>1. Size \in Nat \ {0}
  BY ObserveAssumption
<1>2. RingOK
  BY <1>1 DEF Init, RingOK, Least
<1>3. VisitsOK
  BY DEF Init, VisitsOK, Visit, Gone, Subscribed
<1>4. AnswersOK
  BY DEF Init, AnswersOK, LastUpTo, Gone
<1> QED BY <1>2, <1>3, <1>4 DEF HistoryInv

-----------------------------------------------------------------------------
(* What is logged *)

LEMMA AddKeepsRing ==
  ASSUME RingOK, Add
  PROVE  RingOK' /\ log'.seq = log.seq + 1
<1> DEFINE new == [log.buf EXCEPT ![log.head] = log.seq + 1]
           g == (log.head + 1) % Size
<1>1. Size \in Nat \ {0} /\ log.seq \in Nat /\ log.size = Least(log.seq, Size)
      /\ log.head \in 0 .. Size - 1 /\ log.buf \in [0 .. Size - 1 -> Nat]
  BY ObserveAssumption DEF RingOK
<1>2. /\ log'.buf = new /\ log'.head = g /\ log'.seq = log.seq + 1
      /\ log'.size = Least(log.size + 1, Size)
  BY DEF Add
<1>3. /\ g \in 0 .. Size - 1 /\ new \in [0 .. Size - 1 -> Nat]
      /\ new[Before(Size, g, 1)] = log.seq + 1
      /\ \A j \in 1 .. Size - 1 : new[Before(Size, g, j + 1)] = log.buf[Before(Size, log.head, j)]
  <2> DEFINE v == log.seq + 1
             h == log.head
             b == log.buf
  <2>1. /\ v \in Nat /\ h \in 0 .. Size - 1 /\ b \in [0 .. Size - 1 -> Nat]
        /\ DOMAIN b = 0 .. Size - 1
    BY <1>1
  <2> HIDE DEF v, h, b
  <2>2. (h + 1) % Size = After(Size, h) /\ After(Size, h) \in 0 .. Size - 1
    BY <1>1, <2>1, AfterIs DEF After
  <2>3. Pushed(Size, h, b, v, [b EXCEPT ![h] = v])
    BY <1>1, <2>1, RingPush
  <2>4. [b EXCEPT ![h] = v] \in [0 .. Size - 1 -> Nat]
    BY <2>1
  <2> QED BY <2>2, <2>3, <2>4 DEF v, h, b, Pushed
<1> HIDE DEF new, g
<1>4. Least(log.size + 1, Size) = Least(log.seq + 1, Size)
  BY <1>1 DEF Least
<1>5. ASSUME NEW j \in 1 .. Least(log.size + 1, Size)
      PROVE  new[Before(Size, g, j)] = log.seq + 1 - j + 1
  <2>1. CASE j = 1
    BY <1>1, <1>3, <2>1
  <2>2. CASE j # 1
    <3> DEFINE i == j - 1
    <3>1. i \in 1 .. log.size /\ i \in 1 .. Size - 1 /\ j = i + 1
      BY <1>1, <2>2 DEF Least
    <3> HIDE DEF i
    <3>2. log.buf[Before(Size, log.head, i)] = log.seq - i + 1
      BY <3>1 DEF RingOK
    <3>3. new[Before(Size, g, i + 1)] = log.buf[Before(Size, log.head, i)]
      BY <1>3, <3>1
    <3>4. log.seq \in Nat /\ i \in Nat /\ j = i + 1
      BY <1>1, <3>1
    <3>5. log.seq - i + 1 = log.seq + 1 - j + 1
      BY <3>4
    <3> QED BY <3>1, <3>2, <3>3, <3>5
  <2> QED BY <2>1, <2>2
<1>6. log'.size = Least(log'.seq, Size) /\ log'.seq \in Nat /\ log'.head \in 0 .. Size - 1
  BY <1>1, <1>2, <1>3, <1>4
<1>7. \A j \in 1 .. log'.size : log'.buf[Before(Size, log'.head, j)] = log'.seq - j + 1
  <2> TAKE j \in 1 .. log'.size
  <2>1. new[Before(Size, g, j)] = log.seq + 1 - j + 1
    BY <1>2, <1>5
  <2>2. log'.buf[Before(Size, log'.head, j)] = new[Before(Size, g, j)]
    BY <1>2
  <2>3. log'.seq - j + 1 = log.seq + 1 - j + 1
    BY <1>1, <1>2, <1>6
  <2> QED BY <2>1, <2>2, <2>3
<1> QED BY <1>2, <1>3, <1>6, <1>7 DEF RingOK

LEMMA AddKeepsVisits ==
  ASSUME RingOK, VisitsOK, Add, UNCHANGED page
  PROVE  VisitsOK'
<1>1. log'.seq = log.seq + 1 /\ log.seq \in Nat
  BY AddKeepsRing DEF RingOK
<1>2. chan' = [p \in Subscribed |-> IF Full(p) THEN chan[p] ELSE Append(chan[p], log.seq + 1)]
  BY DEF Add, Broadcast
<1>3. Subscribed' = Subscribed
  BY <1>2 DEF Subscribed
<1>4. chan' \in [Subscribed -> Seq(Nat)]
  BY <1>1, <1>2 DEF VisitsOK
<1>5. \A p \in Pages : page[p].from \in Nat
  BY DEF VisitsOK, Visit
<1> QED BY <1>1, <1>3, <1>4, <1>5 DEF VisitsOK

-----------------------------------------------------------------------------
(* The history a page gets *)

\* It is the last entries, up to the newest, and none only if there are none.
LEMMA RecentIs ==
  ASSUME RingOK, NEW n \in Nat
  PROVE  Recent(n) \in Seq(Nat) /\ LastUpTo(Recent(n), log.seq)
<1> DEFINE k == IF n = 0 \/ n > log.size THEN log.size ELSE n
           start == (log.head + Size - k) % Size
<1>1. Size \in Nat \ {0} /\ log.head \in 0 .. Size - 1 /\ log.seq \in Nat
      /\ log.size = Least(log.seq, Size)
  BY ObserveAssumption DEF RingOK
<1>2. k \in 0 .. log.size /\ k \in 0 .. log.seq /\ k <= Size /\ (k = 0 => log.seq = 0)
  BY <1>1 DEF Least
<1>3. Recent(n) = [i \in 1 .. k |-> log.buf[(start + i - 1) % Size]]
  BY DEF Recent
<1> HIDE DEF k
<1>4. ASSUME NEW i \in 1 .. k
      PROVE  log.buf[(start + i - 1) % Size] = log.seq - k + i
  <2>1. k \in 1 .. Size /\ k - i + 1 \in 1 .. log.size
    BY <1>1, <1>2 DEF Least
  <2>2. (start + i - 1) % Size = Before(Size, log.head, k - i + 1)
    BY <1>1, <2>1, RingRead
  <2> HIDE DEF start
  <2>3. log.buf[Before(Size, log.head, k - i + 1)] = log.seq - (k - i + 1) + 1
    BY <2>1 DEF RingOK
  <2>4. log.seq - (k - i + 1) + 1 = log.seq - k + i
    BY <1>1, <2>1
  <2> QED BY <2>2, <2>3, <2>4
<1> HIDE DEF start
<1>5. Recent(n) = [i \in 1 .. k |-> log.seq - k + i]
  BY <1>3, <1>4
<1> DEFINE r == Recent(n)
<1> HIDE DEF r
<1>6. r = [i \in 1 .. k |-> log.seq - k + i]
  BY <1>5 DEF r
<1>7. \A i \in 1 .. k : r[i] = log.seq - k + i
  BY <1>6
<1>8. r \in Seq(Nat) /\ Len(r) = k /\ DOMAIN r = 1 .. k
  <2>1. k \in Nat /\ r \in [1 .. k -> Nat]
    BY <1>1, <1>2, <1>6
  <2> QED BY <2>1
<1>9. r = <<>> => k = 0
  BY <1>1, <1>2, <1>8
<1> QED BY <1>1, <1>2, <1>7, <1>8, <1>9 DEF r, LastUpTo

LEMMA HistoryAsked ==
  ASSUME HistoryInv, NEW p \in Pages, HandleLogs(p)
  PROVE  HistoryInv'
<1>1. PICK n \in Limits :
        page' = [page EXCEPT ![p].asked = "read", ![p].upto = log.seq, ![p].recent = Recent(n)]
  BY DEF HandleLogs
<1>2. UNCHANGED <<log, chan>> /\ n \in Nat /\ log.seq \in Nat
  BY ObserveAssumption DEF HandleLogs, HistoryInv, RingOK
<1> DEFINE r == Recent(n)
           w == [page[p] EXCEPT !.asked = "read", !.upto = log.seq, !.recent = r]
<1>3. r \in Seq(Nat) /\ LastUpTo(r, log.seq)
  BY <1>2, RecentIs DEF HistoryInv
<1>4. page' = [page EXCEPT ![p] = w]
  BY <1>1
<1> HIDE DEF r
<1>5. page \in [Pages -> Visit] /\ page[p] \in Visit /\ page[p].from <= log.seq
  BY DEF HistoryInv, VisitsOK
<1>6. /\ w \in Visit /\ w.stage = page[p].stage /\ w.from = page[p].from
      /\ w.recent = r /\ w.upto = log.seq /\ w.got = page[p].got /\ w.cut = page[p].cut
  BY <1>2, <1>3, <1>5 DEF Visit
<1> HIDE DEF w
<1>7. page' \in [Pages -> Visit] /\ page'[p] = w /\ \A q \in Pages \ {p} : page'[q] = page[q]
  BY <1>4, <1>5, <1>6
<1>8. RingOK'
  BY <1>2 DEF HistoryInv, RingOK
<1>9. VisitsOK'
  BY <1>2, <1>6, <1>7 DEF HistoryInv, VisitsOK, Subscribed
<1>10. AnswersOK'
  BY <1>2, <1>3, <1>6, <1>7 DEF HistoryInv, AnswersOK
<1> QED BY <1>8, <1>9, <1>10 DEF HistoryInv

-----------------------------------------------------------------------------
(* The other steps *)

\* Whoever is not asking keeps what he has got, and the log only grows.
LEMMA HistoryStays ==
  ASSUME HistoryInv, log'.seq \in Nat, log'.seq >= log.seq,
         \A p \in Pages : /\ page'[p].recent = page[p].recent /\ page'[p].upto = page[p].upto
                          /\ page'[p].cut <= Len(page'[p].got)
  PROVE  AnswersOK'
<1> SUFFICES ASSUME NEW p \in Pages
             PROVE  /\ LastUpTo(page'[p].recent, page'[p].upto) /\ page'[p].upto <= log'.seq
                    /\ page'[p].cut <= Len(page'[p].got)
  BY DEF AnswersOK
<1>1. page[p].upto \in Nat /\ log.seq \in Nat /\ page[p].upto <= log.seq
  BY DEF HistoryInv, RingOK, VisitsOK, Visit, AnswersOK
<1>2. page'[p].upto <= log'.seq
  BY <1>1
<1> QED BY <1>2 DEF HistoryInv, AnswersOK

LEMMA HistoryLogged ==
  ASSUME HistoryInv, NEW q \in Requests, LogAccess(q)
  PROVE  HistoryInv'
<1>1. Add /\ UNCHANGED page
  BY DEF LogAccess
<1>2. RingOK' /\ log'.seq = log.seq + 1 /\ log.seq \in Nat
  BY <1>1, AddKeepsRing DEF HistoryInv, RingOK
<1>3. VisitsOK'
  BY <1>1, AddKeepsVisits DEF HistoryInv
<1>4. AnswersOK'
  BY <1>1, <1>2, HistoryStays DEF HistoryInv, AnswersOK
<1> QED BY <1>2, <1>3, <1>4 DEF HistoryInv

LEMMA HistoryOfPages ==
  ASSUME HistoryInv, NEW p \in Pages,
         Begin(p) \/ Subscribe(p) \/ Deliver(p) \/ LoadHistory(p) \/ Cancel(p)
  PROVE  HistoryInv'
<1>1. UNCHANGED log /\ log.seq \in Nat /\ RingOK'
  BY DEF Begin, Subscribe, Deliver, LoadHistory, Cancel, HistoryInv, RingOK
<1>2. /\ page \in [Pages -> Visit] /\ chan \in [Subscribed -> Seq(Nat)]
      /\ Subscribed = {o \in Pages : page[o].stage = "open"} /\ Subscribed = DOMAIN chan
      /\ \A o \in Pages : page[o].from <= log.seq
  BY DEF HistoryInv, VisitsOK, Subscribed
<1>3. /\ page[p] \in Visit
      /\ \A o \in Pages : page[o].cut <= Len(page[o].got)
  BY <1>2 DEF HistoryInv, AnswersOK
<1>4. ASSUME NEW w, page' = [page EXCEPT ![p] = w], w \in Visit,
             w.recent = page[p].recent, w.upto = page[p].upto, w.cut <= Len(w.got)
      PROVE  /\ page' \in [Pages -> Visit] /\ page'[p] = w
             /\ \A o \in Pages \ {p} : page'[o] = page[o]
             /\ AnswersOK'
  <2>1. page' \in [Pages -> Visit] /\ page'[p] = w /\ \A o \in Pages \ {p} : page'[o] = page[o]
    BY <1>2, <1>4
  <2>2. \A o \in Pages : /\ page'[o].recent = page[o].recent /\ page'[o].upto = page[o].upto
                         /\ page'[o].cut <= Len(page'[o].got)
    BY <1>3, <1>4, <2>1
  <2> QED BY <1>1, <2>1, <2>2, HistoryStays
<1>5. CASE Begin(p)
  <2> DEFINE w == [page[p] EXCEPT !.stage = "begun"]
  <2>1. page' = [page EXCEPT ![p] = w] /\ page[p].stage = "off" /\ UNCHANGED chan
    BY <1>5 DEF Begin
  <2>2. /\ w \in Visit /\ w.recent = page[p].recent /\ w.upto = page[p].upto
        /\ w.cut <= Len(w.got) /\ w.stage = "begun" /\ w.from = page[p].from
    BY <1>3 DEF Visit
  <2> HIDE DEF w
  <2>3. VisitsOK' /\ AnswersOK'
    BY <1>1, <1>2, <1>4, <2>1, <2>2 DEF VisitsOK, Subscribed
  <2> QED BY <1>1, <2>3 DEF HistoryInv
<1>6. CASE Subscribe(p)
  <2> DEFINE w == [page[p] EXCEPT !.stage = "open", !.from = log.seq]
  <2>1. chan' = [o \in Subscribed \cup {p} |-> IF o = p THEN <<>> ELSE chan[o]]
        /\ page' = [page EXCEPT ![p] = w]
    BY <1>6 DEF Subscribe
  <2>2. /\ w \in Visit /\ w.recent = page[p].recent /\ w.upto = page[p].upto
        /\ w.cut <= Len(w.got) /\ w.stage = "open" /\ w.from = log.seq
    BY <1>1, <1>3 DEF Visit
  <2> HIDE DEF w
  <2>3. /\ page' \in [Pages -> Visit] /\ page'[p] = w /\ AnswersOK'
        /\ \A o \in Pages \ {p} : page'[o] = page[o]
    BY <1>4, <2>1, <2>2
  <2>4. chan' \in [Subscribed \cup {p} -> Seq(Nat)] /\ Subscribed' = Subscribed \cup {p}
    BY <1>2, <2>1 DEF Subscribed
  <2>5. Subscribed' = {o \in Pages : page'[o].stage = "open"}
    BY <1>2, <2>2, <2>3, <2>4
  <2>6. \A o \in Pages : page'[o].from <= log'.seq
    <3>1. page'[p].from <= log'.seq
      BY <1>1, <2>2, <2>3
    <3>2. \A o \in Pages \ {p} : page'[o].from <= log'.seq
      BY <1>1, <1>2, <2>3
    <3> QED BY <3>1, <3>2
  <2>7. VisitsOK'
    BY <2>3, <2>4, <2>5, <2>6 DEF VisitsOK
  <2> QED BY <1>1, <2>3, <2>7 DEF HistoryInv
<1>7. CASE Deliver(p)
  <2> DEFINE sent == Append(page[p].got, Head(chan[p]))
             w == [page[p] EXCEPT !.got = sent]
  <2>1. /\ page[p].stage = "open" /\ chan[p] # <<>> /\ chan' = [chan EXCEPT ![p] = Tail(@)]
        /\ page' = [page EXCEPT ![p] = w]
    BY <1>7 DEF Deliver
  <2>2. Head(chan[p]) \in Nat /\ Tail(chan[p]) \in Seq(Nat)
    BY <1>2, <2>1
  <2>3. chan' \in [Subscribed -> Seq(Nat)] /\ Subscribed' = Subscribed
    BY <1>2, <2>1, <2>2 DEF Subscribed
  <2>4. /\ sent \in Seq(Nat) /\ page[p].cut <= Len(sent)
    <3>1. page[p].got \in Seq(Nat) /\ page[p].cut \in Nat /\ page[p].cut <= Len(page[p].got)
      BY <1>2, <1>3 DEF Visit
    <3> QED BY <2>2, <3>1
  <2> HIDE DEF sent
  <2>5. /\ w \in Visit /\ w.recent = page[p].recent /\ w.upto = page[p].upto
        /\ w.cut <= Len(w.got) /\ w.stage = page[p].stage /\ w.from = page[p].from
    BY <1>3, <2>4 DEF Visit
  <2> HIDE DEF w
  <2>6. /\ page' \in [Pages -> Visit] /\ page'[p] = w /\ AnswersOK'
        /\ \A o \in Pages \ {p} : page'[o] = page[o]
    BY <1>4, <2>1, <2>5
  <2>7. VisitsOK'
    BY <1>1, <1>2, <2>3, <2>5, <2>6 DEF VisitsOK
  <2> QED BY <1>1, <2>6, <2>7 DEF HistoryInv
<1>8. CASE LoadHistory(p)
  <2> DEFINE w == [page[p] EXCEPT !.asked = "shown", !.cut = Len(page[p].got)]
  <2>1. page' = [page EXCEPT ![p] = w] /\ UNCHANGED chan
    BY <1>8 DEF LoadHistory
  <2>2. page[p].got \in Seq(Nat) /\ Len(page[p].got) \in Nat
    BY <1>3 DEF Visit
  <2>3. /\ w \in Visit /\ w.recent = page[p].recent /\ w.upto = page[p].upto
        /\ w.stage = page[p].stage /\ w.from = page[p].from /\ w.cut <= Len(w.got)
    <3>1. w.cut = Len(page[p].got) /\ w.got = page[p].got
      BY <1>3 DEF Visit
    <3>2. w \in Visit
      BY <1>3, <2>2 DEF Visit
    <3> QED BY <1>3, <2>2, <3>1, <3>2 DEF Visit
  <2> HIDE DEF w
  <2>4. /\ page' \in [Pages -> Visit] /\ page'[p] = w /\ AnswersOK'
        /\ \A o \in Pages \ {p} : page'[o] = page[o]
    BY <1>4, <2>1, <2>3
  <2>5. VisitsOK'
    BY <1>1, <1>2, <2>1, <2>3, <2>4 DEF VisitsOK, Subscribed
  <2> QED BY <1>1, <2>4, <2>5 DEF HistoryInv
<1>9. CASE Cancel(p)
  <2>1. chan' = [o \in Subscribed \ {p} |-> chan[o]] /\ page' = [page EXCEPT ![p] = Gone]
    BY <1>9 DEF Cancel
  <2>2. page' \in [Pages -> Visit] /\ page'[p] = Gone /\ \A o \in Pages \ {p} : page'[o] = page[o]
    BY <1>2, <2>1 DEF Visit, Gone
  <2>3. chan' \in [Subscribed \ {p} -> Seq(Nat)] /\ Subscribed' = Subscribed \ {p}
    BY <1>2, <2>1 DEF Subscribed
  <2>4. /\ Gone.stage = "off" /\ Gone.from = 0 /\ Gone.upto = 0 /\ Gone.cut <= Len(Gone.got)
        /\ LastUpTo(Gone.recent, Gone.upto)
    BY DEF Gone, LastUpTo
  <2>5. VisitsOK'
    <3>1. \A o \in Pages : page'[o].from <= log'.seq
      BY <1>1, <1>2, <2>2, <2>4
    <3>2. Subscribed' = {o \in Pages : page'[o].stage = "open"}
      BY <1>2, <2>2, <2>3, <2>4
    <3> QED BY <2>2, <2>3, <3>1, <3>2 DEF VisitsOK
  <2>6. AnswersOK'
    BY <1>1, <2>2, <2>4 DEF HistoryInv, AnswersOK
  <2> QED BY <1>1, <2>5, <2>6 DEF HistoryInv
<1> QED BY <1>5, <1>6, <1>7, <1>8, <1>9

LEMMA HistoryKept == HistoryInv /\ [Next]_vars => HistoryInv'
<1> SUFFICES ASSUME HistoryInv, [Next]_vars PROVE HistoryInv'
  OBVIOUS
<1>1. CASE UNCHANGED feeds
  BY <1>1 DEF feeds, HistoryInv, RingOK, VisitsOK, Subscribed, AnswersOK
<1>2. ASSUME NEW q \in Requests,
             \/ Arrive(q) \/ Reject(q) \/ Turn(q) \/ Challenge(q) \/ Forward(q)
             \/ Abort(q) \/ Answer(q) \/ ObserveDuration(q) \/ IncRequest(q)
      PROVE  UNCHANGED feeds
  BY <1>2 DEF Arrive, Reject, Turn, Challenge, Forward, Abort, Answer, ObserveDuration, IncRequest
<1>3. CASE Sample \/ UNCHANGED vars
  BY <1>1, <1>3 DEF Sample, vars, feeds
<1> QED BY <1>1, <1>2, <1>3, HistoryLogged, HistoryAsked, HistoryOfPages DEF Next

-----------------------------------------------------------------------------
(* Streams *)

\* What is appended to a sequence comes after what it has.
LEMMA ConcatAppend ==
  ASSUME NEW s \in Seq(Nat), NEW t \in Seq(Nat), NEW e \in Nat
  PROVE  s \o Append(t, e) = Append(s \o t, e)
<1>1. Append(t, e) = t \o <<e>> /\ <<e>> \in Seq(Nat)
  BY AppendIsConcat
<1>2. s \o t \in Seq(Nat)
  BY ConcatProperties
<1>3. Append(s \o t, e) = (s \o t) \o <<e>>
  BY <1>2, AppendIsConcat
<1>4. (s \o t) \o <<e>> = s \o (t \o <<e>>)
  BY <1>1, ConcatAssociative
<1> QED BY <1>1, <1>3, <1>4

\* Nothing is lost where the first of one goes to the end of the other.
LEMMA ConcatShift ==
  ASSUME NEW s \in Seq(Nat), NEW t \in Seq(Nat), t # <<>>
  PROVE  Append(s, Head(t)) \o Tail(t) = s \o t
<1>1. Head(t) \in Nat /\ Tail(t) \in Seq(Nat) /\ <<Head(t)>> \in Seq(Nat)
  BY HeadTailProperties
<1>2. Append(s, Head(t)) = s \o <<Head(t)>>
  BY <1>1, AppendIsConcat
<1>3. (s \o <<Head(t)>>) \o Tail(t) = s \o (<<Head(t)>> \o Tail(t))
  BY <1>1, ConcatAssociative
<1>4. <<Head(t)>> \o Tail(t) = t
  BY <1>1
<1> QED BY <1>2, <1>3, <1>4

LEMMA ToSetAppend ==
  ASSUME NEW s \in Seq(Nat), NEW e \in Nat
  PROVE  ToSet(Append(s, e)) = ToSet(s) \cup {e}
<1>1. Append(s, e) \in Seq(Nat) /\ DOMAIN Append(s, e) = 1 .. Len(s) + 1 /\ DOMAIN s = 1 .. Len(s)
      /\ Len(s) \in Nat
  OBVIOUS
<1>2. /\ \A i \in 1 .. Len(s) : Append(s, e)[i] = s[i]
      /\ Append(s, e)[Len(s) + 1] = e
  OBVIOUS
<1>3. ToSet(Append(s, e)) \subseteq ToSet(s) \cup {e}
  <2> SUFFICES ASSUME NEW i \in 1 .. Len(s) + 1 PROVE Append(s, e)[i] \in ToSet(s) \cup {e}
    BY <1>1 DEF ToSet
  <2>1. i \in 1 .. Len(s) \/ i = Len(s) + 1
    BY <1>1
  <2> QED BY <1>1, <1>2, <2>1 DEF ToSet
<1>4. e \in ToSet(Append(s, e))
  <2>1. Len(s) + 1 \in DOMAIN Append(s, e)
    BY <1>1
  <2> QED BY <1>2, <2>1 DEF ToSet
<1>5. ToSet(s) \subseteq ToSet(Append(s, e))
  <2> SUFFICES ASSUME NEW i \in 1 .. Len(s) PROVE s[i] \in ToSet(Append(s, e))
    BY <1>1 DEF ToSet
  <2>1. i \in DOMAIN Append(s, e)
    BY <1>1
  <2> QED BY <1>2, <2>1 DEF ToSet
<1> QED BY <1>3, <1>4, <1>5

\* The entries of f are later than from and no later than to, and f is in order.
InOrder(f, from, to) ==
  \A i \in DOMAIN f : f[i] \in from + 1 .. to /\ \A j \in 1 .. i - 1 : f[j] < f[i]

LEMMA InOrderAppend ==
  ASSUME NEW f \in Seq(Nat), NEW from \in Nat, NEW to \in Nat, from <= to, InOrder(f, from, to)
  PROVE  InOrder(Append(f, to + 1), from, to + 1)
<1>1. DOMAIN Append(f, to + 1) = 1 .. Len(f) + 1 /\ DOMAIN f = 1 .. Len(f) /\ Len(f) \in Nat
  OBVIOUS
<1>2. /\ \A i \in 1 .. Len(f) : Append(f, to + 1)[i] = f[i]
      /\ Append(f, to + 1)[Len(f) + 1] = to + 1
  OBVIOUS
<1> DEFINE a == Append(f, to + 1)
<1> HIDE DEF a
<1>3. /\ DOMAIN a = 1 .. Len(f) + 1 /\ a[Len(f) + 1] = to + 1
      /\ \A i \in 1 .. Len(f) : a[i] = f[i]
  BY <1>1, <1>2 DEF a
<1>4. ASSUME NEW i \in 1 .. Len(f) + 1
      PROVE  a[i] \in from + 1 .. to + 1 /\ \A j \in 1 .. i - 1 : a[j] < a[i]
  <2>1. CASE i = Len(f) + 1
    <3>1. a[i] = to + 1
      BY <1>3, <2>1
    <3>2. ASSUME NEW j \in 1 .. i - 1 PROVE a[j] < a[i]
      <4>1. j \in 1 .. Len(f)
        BY <1>1, <2>1
      <4>2. a[j] = f[j] /\ f[j] \in from + 1 .. to
        BY <1>1, <1>3, <4>1 DEF InOrder
      <4> QED BY <3>1, <4>2
    <3> QED BY <3>1, <3>2
  <2>2. CASE i # Len(f) + 1
    <3>1. i \in 1 .. Len(f)
      BY <1>1, <2>2
    <3>2. a[i] = f[i] /\ f[i] \in from + 1 .. to /\ \A j \in 1 .. i - 1 : f[j] < f[i]
      BY <1>1, <1>3, <3>1 DEF InOrder
    <3>3. ASSUME NEW j \in 1 .. i - 1 PROVE a[j] = f[j]
      <4>1. j \in 1 .. Len(f)
        BY <1>1, <3>1
      <4> QED BY <1>3, <4>1
    <3> QED BY <3>2, <3>3
  <2> QED BY <2>1, <2>2
<1> QED BY <1>3, <1>4 DEF InOrder, a

\* No stream has what is to be logged next.
LEMMA NotYet ==
  ASSUME NEW f \in Seq(Nat), NEW from \in Nat, NEW to \in Nat, InOrder(f, from, to)
  PROVE  to + 1 \notin ToSet(f)
<1> SUFFICES ASSUME NEW i \in DOMAIN f, f[i] = to + 1 PROVE FALSE
  BY DEF ToSet
<1>1. f[i] \in from + 1 .. to
  BY DEF InOrder
<1> QED BY <1>1

-----------------------------------------------------------------------------
(* What the streams lack *)

LEMMA FeedIs ==
  ASSUME RingOK, VisitsOK, NEW p \in Subscribed
  PROVE  /\ p \in Pages /\ page[p].stage = "open" /\ page[p] \in Visit
         /\ page[p].got \in Seq(Nat) /\ chan[p] \in Seq(Nat) /\ Feed(p) \in Seq(Nat)
         /\ page[p].from \in Nat /\ page[p].from <= log.seq /\ log.seq \in Nat
<1>1. /\ p \in Pages /\ page[p].stage = "open" /\ page[p] \in Visit /\ chan[p] \in Seq(Nat)
      /\ page[p].from <= log.seq /\ log.seq \in Nat
  BY DEF VisitsOK, RingOK
<1>2. page[p].got \in Seq(Nat) /\ page[p].from \in Nat
  BY <1>1 DEF Visit
<1> QED BY <1>1, <1>2, ConcatProperties DEF Feed

LEMMA FiniteMissing ==
  ASSUME RingOK, VisitsOK
  PROVE  /\ IsFiniteSet(Subscribed) /\ IsFiniteSet(Missing) /\ Cardinality(Missing) \in Nat
         /\ \A p \in Subscribed : /\ Lacks(p) \subseteq 1 .. log.seq
                                  /\ IsFiniteSet(Lacks(p)) /\ Cardinality(Lacks(p)) \in Nat
<1>1. log.seq \in Nat /\ IsFiniteSet(1 .. log.seq)
  <2>1. log.seq \in Int /\ log.seq \in Nat /\ 1 \in Int
    BY DEF RingOK
  <2> QED BY <2>1, FS_Interval
<1>2. IsFiniteSet(Subscribed)
  <2>1. Subscribed \in SUBSET Pages /\ IsFiniteSet(Pages)
    BY ObserveAssumption DEF VisitsOK
  <2> QED BY <2>1, FS_Subset
<1>3. IsFiniteSet(Subscribed \X (1 .. log.seq))
  BY <1>1, <1>2, FS_Product
<1>4. Missing \in SUBSET (Subscribed \X (1 .. log.seq))
  BY DEF Missing
<1>5. IsFiniteSet(Missing) /\ Cardinality(Missing) \in Nat
  BY <1>3, <1>4, FS_Subset, FS_CardinalityType
<1>6. ASSUME NEW p \in Subscribed
      PROVE  /\ Lacks(p) \subseteq 1 .. log.seq
             /\ IsFiniteSet(Lacks(p)) /\ Cardinality(Lacks(p)) \in Nat
  <2>1. page[p].from \in Nat
    BY FeedIs
  <2>2. page[p].from + 1 .. log.seq \subseteq 1 .. log.seq
    BY <1>1, <2>1
  <2>3. Lacks(p) \in SUBSET (1 .. log.seq)
    BY <2>2 DEF Lacks
  <2> QED BY <1>1, <2>3, FS_Subset, FS_CardinalityType
<1> QED BY <1>2, <1>5, <1>6

-----------------------------------------------------------------------------
(* Types of what is counted *)

Stages == {"idle", "gates", "forwarded", "back", "answered", "done"}
Totals == [Kinds -> Nat]
History == [uncounted : Nat, sent : Nat, aborted : Nat, lacked : Nat, marks : Seq(Totals)]

CountType ==
  /\ req \in [Requests -> [stage : Stages, status : Statuses]]
  /\ total \in Totals /\ inFly \in Int /\ count \in Nat
  /\ hist \in History

LEMMA CountTypeInit == Init => CountType
<1> SUFFICES ASSUME Init PROVE CountType
  OBVIOUS
<1>1. Zero \in Totals
  BY DEF Zero, Totals
<1>2. <<Zero>> \in Seq(Totals)
  BY <1>1
<1> QED BY <1>1, <1>2 DEF Init, CountType, Stages, Statuses, History

\* The counters a request moves, and what a page leaves behind.
LEMMA CountTypeKept ==
  ASSUME CountType, [Next]_vars, RingOK, VisitsOK
  PROVE  CountType'
<1>1. CASE UNCHANGED <<req, total, inFly, count, hist>>
  BY <1>1 DEF CountType
<1>2. CASE \E q \in Requests : Arrive(q) \/ Turn(q) \/ ObserveDuration(q)
  BY <1>2 DEF Arrive, Turn, ObserveDuration, To, CountType, Stages, counters
<1>3. CASE \E q \in Requests : Challenge(q) \/ Forward(q) \/ Abort(q)
  <2>1. hist \in History
    BY DEF CountType
  <2>2. hist' \in History
    <3>1. CASE \E q \in Requests : Challenge(q)
      BY <2>1, <3>1 DEF Challenge, History
    <3>2. CASE \E q \in Requests : Forward(q)
      BY <2>1, <3>2 DEF Forward, History
    <3>3. CASE \E q \in Requests : Abort(q)
      <4> DEFINE broken == [hist EXCEPT !.aborted = @ + 1]
      <4>1. broken \in History /\ hist' = [broken EXCEPT !.uncounted = @ + 1]
        BY <2>1, <3>3 DEF Abort, History
      <4> HIDE DEF broken
      <4> QED BY <4>1 DEF History
    <3> QED BY <1>3, <3>1, <3>2, <3>3
  <2> QED BY <1>3, <2>2 DEF Challenge, Forward, Abort, To, CountType, Stages, counters
<1>4. CASE \E q \in Requests : LogAccess(q)
  BY <1>4 DEF LogAccess, CountType, Stages, Statuses, counters
<1>5. CASE \E q \in Requests : Answer(q)
  BY <1>5 DEF Answer, CountType, Stages
<1>6. CASE \E q \in Requests : Reject(q)
  BY <1>6 DEF Reject, CountType, Stages, Totals, Kinds
<1>7. CASE \E q \in Requests : IncRequest(q)
  <2>1. PICK q \in Requests : IncRequest(q)
    BY <1>7
  <2> DEFINE n == IF req[q].status = "5xx" THEN 1 ELSE 0
  <2>2. n \in Nat
    OBVIOUS
  <2> HIDE DEF n
  <2>3. total \in Totals /\ total' = [total EXCEPT !.requests = @ + 1, !.errors = @ + n]
    BY <2>1 DEF IncRequest, CountType, n
  <2> DEFINE more == [total EXCEPT !.requests = @ + 1]
  <2>4. more \in Totals /\ total' = [more EXCEPT !.errors = @ + n]
    BY <2>3 DEF Totals, Kinds
  <2> HIDE DEF more
  <2>5. total' \in Totals
    BY <2>2, <2>4 DEF Totals, Kinds
  <2> QED BY <2>1, <2>5 DEF IncRequest, To, CountType, Stages
<1>8. CASE Sample
  <2>1. hist \in History /\ total \in Totals => Append(hist.marks, total) \in Seq(Totals)
    BY DEF History
  <2> DEFINE m == Append(hist.marks, total)
  <2>2. hist' = [hist EXCEPT !.marks = m] /\ UNCHANGED <<req, total, inFly, count>>
    BY <1>8 DEF Sample
  <2>3. m \in Seq(Totals) /\ hist \in History
    BY <2>1 DEF CountType
  <2> HIDE DEF m
  <2> QED BY <2>2, <2>3 DEF CountType, History
<1>9. ASSUME NEW p \in Pages, Cancel(p) PROVE CountType'
  <2>1. p \in Subscribed
    BY <1>9 DEF Cancel, VisitsOK
  <2>2. Cardinality(Lacks(p)) \in Nat
    BY <2>1, FiniteMissing
  <2> DEFINE n == Cardinality(Lacks(p))
  <2>3. n \in Nat /\ hist' = [hist EXCEPT !.lacked = @ + n] /\ UNCHANGED <<req, counters>>
    BY <1>9, <2>2 DEF Cancel
  <2> HIDE DEF n
  <2> QED BY <2>3 DEF CountType, History, counters
<1>10. ASSUME NEW p \in Pages,
              Begin(p) \/ Subscribe(p) \/ HandleLogs(p) \/ LoadHistory(p) \/ Deliver(p)
       PROVE  UNCHANGED <<req, total, inFly, count, hist>>
  BY <1>10 DEF Begin, Subscribe, HandleLogs, LoadHistory, Deliver, counters
<1> QED BY <1>1, <1>2, <1>3, <1>4, <1>5, <1>6, <1>7, <1>8, <1>9, <1>10 DEF Next, vars

-----------------------------------------------------------------------------
(* What is dropped *)

\* Only an open page has got anything.
GotOK == \A p \in Pages : page[p].stage # "open" => page[p].got = <<>>

FeedInv ==
  /\ HistoryInv /\ CountType /\ GotOK
  /\ log.dropped \in Nat /\ FeedsAccounted

LEMMA FeedInit == Init => FeedInv
<1> SUFFICES ASSUME Init PROVE FeedInv
  OBVIOUS
<1>1. HistoryInv /\ CountType /\ GotOK
  BY HistoryInit, CountTypeInit DEF Init, GotOK, Gone
<1>2. Subscribed = {} /\ log.dropped = 0 /\ hist.lacked = 0
  BY DEF Init, Subscribed
<1>3. Missing = {}
  BY <1>2 DEF Missing
<1>4. Cardinality(Missing) = 0
  BY <1>3, FS_EmptySet
<1> QED BY <1>1, <1>2, <1>4 DEF FeedInv, FeedsAccounted

LEMMA OneMore ==
  ASSUME NEW a \in Nat, NEW b \in Nat, a <= b
  PROVE  a + 1 .. b + 1 = (a + 1 .. b) \cup {b + 1} /\ b + 1 \notin a + 1 .. b
OBVIOUS

\* The first half of FeedsAccounted, and what it says of an Add.
StreamOK(p) == Len(chan[p]) <= Depth /\ InOrder(Feed(p), page[p].from, log.seq)

LEMMA StreamsOK == FeedsAccounted <=> /\ \A p \in Subscribed : StreamOK(p)
                                      /\ log.dropped = hist.lacked + Cardinality(Missing)
BY DEF FeedsAccounted, StreamOK, InOrder

\* With an entry, a stream gets it or lacks it, and then its page is slow.
LEMMA StreamAdd ==
  ASSUME RingOK, VisitsOK, Add, UNCHANGED page, NEW p \in Subscribed, StreamOK(p)
  PROVE  /\ StreamOK(p)'
         /\ Lacks(p)' = Lacks(p) \cup (IF Full(p) THEN {log.seq + 1} ELSE {})
<1> DEFINE e == log.seq + 1
<1>1. /\ page[p].got \in Seq(Nat) /\ chan[p] \in Seq(Nat) /\ Feed(p) \in Seq(Nat)
      /\ page[p].from \in Nat /\ page[p].from <= log.seq /\ log.seq \in Nat /\ e \in Nat
      /\ Depth \in Nat
  BY FeedIs, ObserveAssumption
<1>2. log'.seq = e /\ page' = page
      /\ chan'[p] = IF Full(p) THEN chan[p] ELSE Append(chan[p], e)
  BY DEF Add, Broadcast
<1>3. Len(chan[p]) <= Depth /\ InOrder(Feed(p), page[p].from, log.seq)
  BY DEF StreamOK
<1>4. e \notin ToSet(Feed(p))
  BY <1>1, <1>3, NotYet
<1>5. /\ page[p].from + 1 .. e = (page[p].from + 1 .. log.seq) \cup {e}
      /\ e \notin page[p].from + 1 .. log.seq
  BY <1>1, OneMore
<1>6. CASE Full(p)
  <2>1. Feed(p)' = Feed(p)
    BY <1>2, <1>6 DEF Feed
  <2>2. InOrder(Feed(p), page[p].from, e)
    <3>1. ASSUME NEW i \in DOMAIN Feed(p)
          PROVE  Feed(p)[i] \in page[p].from + 1 .. e /\ \A j \in 1 .. i - 1 : Feed(p)[j] < Feed(p)[i]
      BY <1>3, <1>5 DEF InOrder
    <3> QED BY <3>1 DEF InOrder
  <2>3. StreamOK(p)'
    BY <1>2, <1>3, <1>6, <2>1, <2>2 DEF StreamOK
  <2>4. Lacks(p)' = (page[p].from + 1 .. e) \ ToSet(Feed(p))
    BY <1>2, <2>1 DEF Lacks
  <2>5. (page[p].from + 1 .. e) \ ToSet(Feed(p)) = Lacks(p) \cup {e}
    BY <1>4, <1>5 DEF Lacks
  <2> QED BY <1>6, <2>3, <2>4, <2>5
<1>7. CASE ~Full(p)
  <2>1. Feed(p)' = page[p].got \o Append(chan[p], e)
    BY <1>2, <1>7 DEF Feed
  <2>2. Feed(p)' = Append(Feed(p), e)
    BY <1>1, <2>1, ConcatAppend DEF Feed
  <2>3. InOrder(Append(Feed(p), e), page[p].from, e)
    BY <1>1, <1>3, InOrderAppend
  <2>4. Len(Append(chan[p], e)) <= Depth
    <3>1. Len(chan[p]) # Depth /\ Len(chan[p]) \in Nat /\ Len(Append(chan[p], e)) = Len(chan[p]) + 1
      BY <1>1, <1>7 DEF Full
    <3> QED BY <1>1, <1>3, <3>1
  <2>5. StreamOK(p)'
    BY <1>2, <1>7, <2>2, <2>3, <2>4 DEF StreamOK
  <2>6. ToSet(Feed(p)') = ToSet(Feed(p)) \cup {e}
    BY <1>1, <2>2, ToSetAppend
  <2>7. Lacks(p)' = (page[p].from + 1 .. e) \ ToSet(Feed(p)')
    BY <1>2 DEF Lacks
  <2>8. Lacks(p)' = Lacks(p)
    BY <1>5, <2>6, <2>7 DEF Lacks
  <2> QED BY <1>7, <2>5, <2>8
<1> QED BY <1>6, <1>7

\* So dropped counts one for each page that is slow, and these are missing now.
LEMMA FeedLogged ==
  ASSUME FeedInv, Add, UNCHANGED <<page, hist>>
  PROVE  GotOK' /\ log'.dropped \in Nat /\ FeedsAccounted'
<1> DEFINE e == log.seq + 1
           slow == {p \in Subscribed : Full(p)}
<1>1. /\ RingOK /\ VisitsOK /\ log.seq \in Nat /\ e \in Nat /\ \A p \in Subscribed : StreamOK(p)
      /\ log.dropped = hist.lacked + Cardinality(Missing) /\ log.dropped \in Nat /\ hist.lacked \in Nat
  BY StreamsOK DEF FeedInv, HistoryInv, RingOK, CountType, History
<1>2. /\ Subscribed' = Subscribed /\ log'.seq = e
      /\ log'.dropped = log.dropped + Cardinality(slow) /\ UNCHANGED <<page, hist>>
  BY DEF Add, Broadcast, Subscribed
<1>3. \A p \in Subscribed : /\ StreamOK(p)'
                            /\ Lacks(p)' = Lacks(p) \cup (IF Full(p) THEN {e} ELSE {})
  BY <1>1, StreamAdd
<1>4. /\ IsFiniteSet(Subscribed) /\ IsFiniteSet(Missing) /\ Cardinality(Missing) \in Nat
      /\ \A p \in Subscribed : Lacks(p) \subseteq 1 .. log.seq
  BY <1>1, FiniteMissing
<1>5. IsFiniteSet(slow) /\ Cardinality(slow) \in Nat
  BY <1>4, FS_Subset, FS_CardinalityType
<1>6. Missing' = Missing \cup (slow \X {e})
  <2>1. 1 .. e = (1 .. log.seq) \cup {e}
    BY <1>1
  <2>2. Missing' = {m \in Subscribed \X (1 .. e) : m[2] \in Lacks(m[1])'}
    BY <1>2 DEF Missing
  <2> HIDE DEF e
  <2>3. ASSUME NEW m \in Subscribed \X (1 .. e)
        PROVE  m[2] \in Lacks(m[1])' <=> m \in Missing \/ m \in slow \X {e}
    <3>1. m[1] \in Subscribed /\ m[2] \in 1 .. e /\ m = <<m[1], m[2]>>
      OBVIOUS
    <3>2. Lacks(m[1])' = Lacks(m[1]) \cup (IF Full(m[1]) THEN {e} ELSE {})
      BY <1>3, <3>1
    <3>3. m \in slow \X {e} <=> Full(m[1]) /\ m[2] = e
      BY <3>1
    <3>4. m \in Missing <=> m[2] \in Lacks(m[1])
      BY <1>4, <3>1 DEF Missing
    <3> QED BY <3>2, <3>3, <3>4
  <2>4. Missing \subseteq Subscribed \X (1 .. e) /\ slow \X {e} \subseteq Subscribed \X (1 .. e)
    BY <2>1 DEF Missing
  <2> QED BY <2>2, <2>3, <2>4
<1>7. Missing \cap (slow \X {e}) = {}
  <2>1. e \notin 1 .. log.seq
    BY <1>1
  <2> HIDE DEF e
  <2> QED BY <2>1 DEF Missing
<1>8. IsFiniteSet(slow \X {e}) /\ Cardinality(slow \X {e}) = Cardinality(slow)
  <2>1. IsFiniteSet({e}) /\ Cardinality({e}) = 1
    BY FS_Singleton
  <2>2. IsFiniteSet(slow \X {e}) /\ Cardinality(slow \X {e}) = Cardinality(slow) * Cardinality({e})
    BY <1>5, <2>1, FS_Product
  <2> HIDE DEF slow, e
  <2>3. Cardinality(slow) * 1 = Cardinality(slow)
    BY <1>5
  <2> QED BY <2>1, <2>2, <2>3
<1> HIDE DEF slow, e
<1>9. Cardinality(Missing') = Cardinality(Missing) + Cardinality(slow)
  <2>1. Cardinality(Missing \cup (slow \X {e})) =
          Cardinality(Missing) + Cardinality(slow \X {e}) - Cardinality(Missing \cap (slow \X {e}))
    BY <1>4, <1>8, FS_Union
  <2>2. Cardinality(Missing \cap (slow \X {e})) = 0
    BY <1>7, FS_EmptySet
  <2> QED BY <1>4, <1>5, <1>6, <1>8, <2>1, <2>2
<1>10. log'.dropped = hist'.lacked + Cardinality(Missing') /\ log'.dropped \in Nat
  BY <1>1, <1>2, <1>4, <1>5, <1>9
<1>11. FeedsAccounted'
  BY <1>2, <1>3, <1>10 DEF FeedsAccounted, StreamOK, InOrder
<1> QED BY <1>2, <1>10, <1>11 DEF GotOK, FeedInv

\* A stream that begins lacks nothing, and the others are as they were.
LEMMA FeedSubscribed ==
  ASSUME FeedInv, HistoryInv', CountType', NEW p \in Pages, Subscribe(p)
  PROVE  FeedInv'
<1>1. /\ RingOK /\ VisitsOK /\ log.seq \in Nat /\ \A o \in Subscribed : StreamOK(o)
      /\ log.dropped = hist.lacked + Cardinality(Missing) /\ Depth \in Nat
      /\ page \in [Pages -> Visit] /\ Subscribed = {o \in Pages : page[o].stage = "open"}
  BY StreamsOK, ObserveAssumption DEF FeedInv, HistoryInv, RingOK, VisitsOK
<1>2. /\ page[p].stage = "begun" /\ UNCHANGED <<log, hist>>
      /\ chan' = [o \in Subscribed \cup {p} |-> IF o = p THEN <<>> ELSE chan[o]]
      /\ page' = [page EXCEPT ![p].stage = "open", ![p].from = log.seq]
  BY DEF Subscribe
<1>3. Subscribed' = Subscribed \cup {p} /\ p \notin Subscribed
  BY <1>1, <1>2 DEF Subscribed
<1> DEFINE w == [page[p] EXCEPT !.stage = "open", !.from = log.seq]
<1>4. page[p] \in Visit /\ page[p].got = <<>>
  BY <1>1, <1>2 DEF FeedInv, GotOK
<1>5. w.got = <<>> /\ w.from = log.seq /\ w.stage = "open"
  BY <1>4 DEF Visit
<1>6. page' = [page EXCEPT ![p] = w]
  BY <1>2
<1> HIDE DEF w
<1>7. page'[p] = w /\ \A o \in Pages \ {p} : page'[o] = page[o]
  BY <1>1, <1>6
<1>8. chan'[p] = <<>> /\ \A o \in Subscribed : chan'[o] = chan[o] /\ page'[o] = page[o]
  BY <1>1, <1>2, <1>3, <1>7
<1>9. \A o \in Subscribed : StreamOK(o)' /\ Lacks(o)' = Lacks(o)
  BY <1>1, <1>2, <1>8 DEF StreamOK, Feed, Lacks
<1>10. Feed(p)' = <<>>
  BY <1>5, <1>7, <1>8 DEF Feed
<1>11. StreamOK(p)' /\ Lacks(p)' = {}
  <2>1. page'[p].from = log.seq /\ log'.seq = log.seq
    BY <1>2, <1>5, <1>7
  <2>2. log.seq + 1 .. log.seq = {}
    BY <1>1
  <2> QED BY <1>1, <1>8, <1>10, <2>1, <2>2 DEF StreamOK, InOrder, Lacks
<1>12. Missing' = Missing
  BY <1>2, <1>3, <1>9, <1>11 DEF Missing
<1>13. FeedsAccounted'
  BY <1>1, <1>2, <1>3, <1>9, <1>11, <1>12 DEF FeedsAccounted, StreamOK, InOrder
<1>14. GotOK'
  BY <1>5, <1>7 DEF FeedInv, GotOK
<1> QED BY <1>2, <1>13, <1>14 DEF FeedInv

\* What is delivered stays in the stream.
LEMMA FeedDelivered ==
  ASSUME FeedInv, HistoryInv', CountType', NEW p \in Pages, Deliver(p)
  PROVE  FeedInv'
<1>1. /\ RingOK /\ VisitsOK /\ log.seq \in Nat /\ \A o \in Subscribed : StreamOK(o)
      /\ log.dropped = hist.lacked + Cardinality(Missing) /\ Depth \in Nat
      /\ page \in [Pages -> Visit] /\ Subscribed = {o \in Pages : page[o].stage = "open"}
  BY StreamsOK, ObserveAssumption DEF FeedInv, HistoryInv, RingOK, VisitsOK
<1>2. /\ p \in Subscribed /\ chan[p] # <<>> /\ UNCHANGED <<log, hist>>
      /\ chan' = [chan EXCEPT ![p] = Tail(@)]
      /\ page' = [page EXCEPT ![p].got = Append(@, Head(chan[p]))]
  BY <1>1 DEF Deliver
<1>3. page[p].got \in Seq(Nat) /\ chan[p] \in Seq(Nat) /\ page[p] \in Visit
  BY <1>1, <1>2, FeedIs
<1>4. Subscribed' = Subscribed
  BY <1>2 DEF Subscribed
<1> DEFINE sent == Append(page[p].got, Head(chan[p]))
           w == [page[p] EXCEPT !.got = sent]
<1>5. page' = [page EXCEPT ![p] = w]
  BY <1>2
<1>6. w.got = sent /\ w.from = page[p].from /\ w.stage = page[p].stage
  <2> HIDE DEF sent
  <2> QED BY <1>3 DEF Visit
<1> HIDE DEF w
<1>7. page'[p] = w /\ \A o \in Pages \ {p} : page'[o] = page[o]
  BY <1>1, <1>5
<1>8. chan'[p] = Tail(chan[p]) /\ \A o \in Subscribed \ {p} : chan'[o] = chan[o]
  BY <1>2 DEF Subscribed
<1>9. Feed(p)' = Feed(p)
  BY <1>2, <1>3, <1>6, <1>7, <1>8, ConcatShift DEF Feed
<1>10. \A o \in Subscribed \ {p} : Feed(o)' = Feed(o)
  BY <1>1, <1>7, <1>8 DEF Feed
<1>11. \A o \in Pages : page'[o].from = page[o].from /\ page'[o].stage = page[o].stage
  BY <1>6, <1>7
<1>12. \A o \in Subscribed : Feed(o)' = Feed(o) /\ Lacks(o)' = Lacks(o)
  BY <1>1, <1>2, <1>9, <1>10, <1>11 DEF Lacks
<1>13. \A o \in Subscribed : StreamOK(o)'
  <2>1. Len(Tail(chan[p])) <= Depth
    <3>1. Len(chan[p]) <= Depth
      BY <1>1, <1>2 DEF StreamOK
    <3>2. Len(Tail(chan[p])) = Len(chan[p]) - 1 /\ Len(chan[p]) \in Nat
      BY <1>2, <1>3, HeadTailProperties
    <3> QED BY <1>1, <3>1, <3>2
  <2>2. \A o \in Subscribed : Len(chan'[o]) <= Depth
    BY <1>1, <1>8, <2>1 DEF StreamOK
  <2> QED BY <1>1, <1>2, <1>11, <1>12, <2>2 DEF StreamOK
<1>14. Missing' = Missing
  BY <1>2, <1>4, <1>12 DEF Missing
<1>15. FeedsAccounted'
  BY <1>1, <1>2, <1>4, <1>13, <1>14 DEF FeedsAccounted, StreamOK, InOrder
<1>16. GotOK'
  BY <1>1, <1>2, <1>7, <1>11 DEF FeedInv, GotOK
<1> QED BY <1>2, <1>15, <1>16 DEF FeedInv

\* What the page that leaves lacks is not missing any more, and remembered.
LEMMA FeedCancelled ==
  ASSUME FeedInv, HistoryInv', CountType', NEW p \in Pages, Cancel(p)
  PROVE  FeedInv'
<1>1. /\ RingOK /\ VisitsOK /\ log.seq \in Nat /\ \A o \in Subscribed : StreamOK(o)
      /\ log.dropped = hist.lacked + Cardinality(Missing) /\ log.dropped \in Nat
      /\ page \in [Pages -> Visit] /\ Subscribed = {o \in Pages : page[o].stage = "open"}
  BY StreamsOK DEF FeedInv, HistoryInv, RingOK, VisitsOK
<1>2. /\ p \in Subscribed /\ UNCHANGED log
      /\ chan' = [o \in Subscribed \ {p} |-> chan[o]]
      /\ page' = [page EXCEPT ![p] = Gone]
      /\ hist' = [hist EXCEPT !.lacked = @ + Cardinality(Lacks(p))]
  BY <1>1 DEF Cancel
<1>3. Subscribed' = Subscribed \ {p}
  BY <1>2 DEF Subscribed
<1>4. page'[p] = Gone /\ \A o \in Pages \ {p} : page'[o] = page[o]
  BY <1>1, <1>2
<1>5. \A o \in Subscribed' : chan'[o] = chan[o] /\ page'[o] = page[o]
  BY <1>1, <1>2, <1>3, <1>4
<1>6. \A o \in Subscribed' : StreamOK(o)' /\ Lacks(o)' = Lacks(o)
  BY <1>1, <1>2, <1>3, <1>5 DEF StreamOK, Feed, Lacks
<1>7. IsFiniteSet(Missing) /\ Cardinality(Missing) \in Nat
      /\ Lacks(p) \subseteq 1 .. log.seq /\ IsFiniteSet(Lacks(p)) /\ Cardinality(Lacks(p)) \in Nat
  BY <1>1, <1>2, FiniteMissing
<1> DEFINE its == {p} \X Lacks(p)
<1>8. Missing' = Missing \ its
  BY <1>2, <1>3, <1>6 DEF Missing
<1>9. Missing \cap its = its
  BY <1>2, <1>7 DEF Missing
<1>10. Cardinality(its) = Cardinality(Lacks(p))
  <2>1. IsFiniteSet({p}) /\ Cardinality({p}) = 1
    BY FS_Singleton
  <2>2. Cardinality(its) = Cardinality({p}) * Cardinality(Lacks(p))
    BY <1>7, <2>1, FS_Product
  <2> QED BY <1>7, <2>1, <2>2
<1> HIDE DEF its
<1>11. Cardinality(Missing') = Cardinality(Missing) - Cardinality(Lacks(p))
  <2>1. Cardinality(Missing \ its) = Cardinality(Missing) - Cardinality(Missing \cap its)
    BY <1>7, FS_Difference
  <2> QED BY <1>8, <1>9, <1>10, <2>1
<1>12. hist'.lacked = hist.lacked + Cardinality(Lacks(p)) /\ hist'.lacked \in Nat
  BY <1>2, <1>7 DEF FeedInv, CountType, History
<1>13. FeedsAccounted'
  <2>1. log'.dropped = hist'.lacked + Cardinality(Missing')
    <3>1. hist.lacked \in Nat
      BY DEF FeedInv, CountType, History
    <3> QED BY <1>1, <1>2, <1>7, <1>11, <1>12, <3>1
  <2> QED BY <1>6, <2>1 DEF FeedsAccounted, StreamOK, InOrder
<1>14. GotOK'
  BY <1>4 DEF FeedInv, GotOK, Gone
<1> QED BY <1>2, <1>13, <1>14 DEF FeedInv

LEMMA FeedKept == FeedInv /\ [Next]_vars => FeedInv'
<1> SUFFICES ASSUME FeedInv, [Next]_vars PROVE FeedInv'
  OBVIOUS
<1>1. HistoryInv' /\ CountType'
  BY HistoryKept, CountTypeKept DEF FeedInv, HistoryInv
<1>2. ASSUME UNCHANGED <<log, chan>>, hist'.lacked = hist.lacked,
             \A p \in Pages : /\ page'[p].got = page[p].got /\ page'[p].from = page[p].from
                              /\ page'[p].stage = "open" => page[p].stage = "open"
                              /\ page[p].stage = "open" => page'[p].stage = "open"
      PROVE  FeedInv'
  <2>1. Subscribed' = Subscribed /\ Subscribed \subseteq Pages
    BY <1>2 DEF Subscribed, FeedInv, HistoryInv, VisitsOK
  <2>2. \A p \in Subscribed : StreamOK(p)' = StreamOK(p) /\ Lacks(p)' = Lacks(p)
    BY <1>2, <2>1 DEF StreamOK, Feed, Lacks
  <2>3. Missing' = Missing
    BY <1>2, <2>1, <2>2 DEF Missing
  <2>4. FeedsAccounted'
    BY <1>2, <2>1, <2>2, <2>3, StreamsOK DEF FeedInv, FeedsAccounted, StreamOK, InOrder
  <2>5. GotOK'
    BY <1>2 DEF FeedInv, GotOK
  <2> QED BY <1>1, <1>2, <2>4, <2>5 DEF FeedInv
<1>3. CASE UNCHANGED vars
  BY <1>2, <1>3 DEF vars
<1>4. ASSUME NEW q \in Requests,
             \/ Arrive(q) \/ Reject(q) \/ Turn(q) \/ Challenge(q) \/ Forward(q)
             \/ Abort(q) \/ Answer(q) \/ ObserveDuration(q) \/ IncRequest(q)
      PROVE  FeedInv'
  <2>1. UNCHANGED feeds
    BY <1>4 DEF Arrive, Reject, Turn, Challenge, Forward, Abort, Answer, ObserveDuration, IncRequest
  <2>2. hist'.lacked = hist.lacked
    BY <1>4 DEF Arrive, Reject, Turn, Challenge, Forward, Abort, Answer, ObserveDuration, IncRequest,
                FeedInv, CountType, History
  <2> QED BY <1>2, <2>1, <2>2 DEF feeds
<1>5. ASSUME NEW q \in Requests, LogAccess(q) PROVE FeedInv'
  <2>1. Add /\ UNCHANGED <<page, hist>>
    BY <1>5 DEF LogAccess
  <2> QED BY <1>1, <2>1, FeedLogged DEF FeedInv
<1>6. ASSUME NEW p \in Pages, Begin(p) \/ HandleLogs(p) \/ LoadHistory(p) PROVE FeedInv'
  <2>1. UNCHANGED <<log, chan, hist>> /\ page \in [Pages -> Visit]
    BY <1>6 DEF Begin, HandleLogs, LoadHistory, FeedInv, HistoryInv, VisitsOK
  <2>2. \A o \in Pages : /\ page'[o].got = page[o].got /\ page'[o].from = page[o].from
                         /\ page'[o].stage = "open" <=> page[o].stage = "open"
    <3>1. CASE Begin(p)
      BY <2>1, <3>1 DEF Begin, Visit
    <3>2. CASE HandleLogs(p)
      BY <2>1, <3>2 DEF HandleLogs, Visit
    <3>3. CASE LoadHistory(p)
      BY <2>1, <3>3 DEF LoadHistory, Visit
    <3> QED BY <1>6, <3>1, <3>2, <3>3
  <2> QED BY <1>2, <2>1, <2>2
<1>7. CASE Sample
  <2>1. UNCHANGED feeds /\ hist'.lacked = hist.lacked
    BY <1>7 DEF Sample, FeedInv, CountType, History
  <2> QED BY <1>2, <2>1 DEF feeds
<1> QED BY <1>1, <1>3, <1>4, <1>5, <1>6, <1>7, FeedSubscribed, FeedDelivered, FeedCancelled DEF Next

\* A stream is the log from its subscription on, in order and nothing twice, and the
\* entries that are missing from the streams are as many as dropped says, however
\* many pages are slow, come and go (logBuffer.broadcast, accesslog.go:94; cancel,
\* stats.go:100).
THEOREM FeedsAreAccounted == Spec => []FeedsAccounted
<1>1. FeedInv => FeedsAccounted
  BY DEF FeedInv
<1> QED BY <1>1, FeedInit, FeedKept, PTL DEF Spec

-----------------------------------------------------------------------------
(* What a page shows *)

\* What is in r up to u, and what is in got and in the channel after it.
LEMMA Together ==
  ASSUME NEW r \in Seq(Nat), NEW got \in Seq(Nat), NEW c \in Nat, c <= Len(got)
  PROVE  LET t == r \o SubSeq(got, c + 1, Len(got))
         IN /\ t \in Seq(Nat) /\ Len(t) = Len(r) + Len(got) - c
            /\ \A i \in 1 .. Len(r) : t[i] = r[i]
            /\ \A i \in c + 1 .. Len(got) : t[Len(r) + i - c] = got[i]
<1> DEFINE s == SubSeq(got, c + 1, Len(got))
<1>1. Len(got) \in Nat /\ Len(r) \in Nat
  OBVIOUS
<1>2. s \in Seq(Nat) /\ Len(s) = Len(got) - c /\ \A i \in 1 .. Len(got) - c : s[i] = got[c + i]
  <2>1. c + 1 \in Int /\ Len(got) \in Int /\ \A i \in c + 1 .. Len(got) : got[i] \in Nat
    BY <1>1
  <2>2. /\ s \in Seq(Nat)
        /\ Len(s) = IF c + 1 <= Len(got) THEN Len(got) - (c + 1) + 1 ELSE 0
        /\ \A i \in 1 .. Len(got) - (c + 1) + 1 : s[i] = got[c + 1 + i - 1]
    BY <2>1, SubSeqProperties
  <2> HIDE DEF s
  <2>3. Len(s) = Len(got) - c
    BY <1>1, <2>2
  <2>4. ASSUME NEW i \in 1 .. Len(got) - c PROVE s[i] = got[c + i]
    <3>1. i \in 1 .. Len(got) - (c + 1) + 1 /\ c + 1 + i - 1 = c + i
      BY <1>1
    <3> QED BY <2>2, <3>1
  <2> QED BY <2>2, <2>3, <2>4
<1> HIDE DEF s
<1> DEFINE t == r \o s
<1>3. /\ t \in Seq(Nat) /\ Len(t) = Len(r) + Len(got) - c
      /\ \A i \in 1 .. Len(t) : t[i] = IF i <= Len(r) THEN r[i] ELSE s[i - Len(r)]
  <2>1. /\ t \in Seq(Nat) /\ Len(t) = Len(r) + Len(s)
        /\ \A i \in 1 .. Len(r) + Len(s) : t[i] = IF i <= Len(r) THEN r[i] ELSE s[i - Len(r)]
    BY <1>2, ConcatProperties
  <2> HIDE DEF t
  <2>2. Len(t) = Len(r) + Len(got) - c
    BY <1>1, <1>2, <2>1
  <2> QED BY <2>1, <2>2
<1> HIDE DEF t
<1>4. \A i \in 1 .. Len(r) : t[i] = r[i]
  BY <1>1, <1>3
<1>5. ASSUME NEW i \in c + 1 .. Len(got) PROVE t[Len(r) + i - c] = got[i]
  <2> DEFINE k == Len(r) + i - c
  <2>1. k \in 1 .. Len(t) /\ ~(k <= Len(r)) /\ k - Len(r) = i - c /\ i - c \in 1 .. Len(got) - c
        /\ c + (i - c) = i
    BY <1>1, <1>3
  <2> HIDE DEF k
  <2>2. t[k] = got[i]
    BY <1>2, <1>3, <2>1
  <2> QED BY <2>2 DEF k
<1> QED BY <1>3, <1>4, <1>5 DEF s, t

LEMMA ShownWhole ==
  ASSUME FeedInv, NEW p \in Subscribed
  PROVE  LET v == page[p]
         IN /\ \A e \in v.upto - Len(v.recent) + 1 .. log.seq :
                 \/ e \in ToSet(Shown(p)) \cup ToSet(chan[p]) \cup Lacks(p)
                 \/ e > v.upto /\ (e <= v.from \/ e \in ToSet(Cut(p)))
            /\ \A j \in DOMAIN Shown(p) : \A i \in 1 .. j - 1 :
                 Shown(p)[i] >= Shown(p)[j] => Shown(p)[j] \in v.from + 1 .. v.upto
<1> DEFINE got == page[p].got
           r == page[p].recent
           c == page[p].cut
           u == page[p].upto
           f == page[p].from
           ch == chan[p]
           t == Shown(p)
<1>1. /\ got \in Seq(Nat) /\ ch \in Seq(Nat) /\ f \in Nat /\ log.seq \in Nat
      /\ r \in Seq(Nat) /\ c \in Nat /\ u \in Nat /\ c <= Len(got)
  <2>1. RingOK /\ VisitsOK /\ AnswersOK
    BY DEF FeedInv, HistoryInv
  <2>2. p \in Pages /\ page[p] \in Visit /\ got \in Seq(Nat) /\ ch \in Seq(Nat) /\ log.seq \in Nat
    BY <2>1, FeedIs
  <2> QED BY <2>1, <2>2 DEF AnswersOK, Visit
<1>2. Len(r) <= u /\ \A i \in 1 .. Len(r) : r[i] = u - Len(r) + i
  BY <1>1, FeedIs DEF FeedInv, HistoryInv, AnswersOK, LastUpTo
<1>3. /\ t \in Seq(Nat) /\ Len(t) = Len(r) + Len(got) - c
      /\ \A i \in 1 .. Len(r) : t[i] = r[i]
      /\ \A i \in c + 1 .. Len(got) : t[Len(r) + i - c] = got[i]
  BY <1>1, Together DEF Shown
<1>4. /\ Len(Feed(p)) = Len(got) + Len(ch) /\ DOMAIN Feed(p) = 1 .. Len(got) + Len(ch)
      /\ \A i \in 1 .. Len(got) : Feed(p)[i] = got[i]
      /\ \A i \in Len(got) + 1 .. Len(got) + Len(ch) : Feed(p)[i] = ch[i - Len(got)]
  <2>1. Feed(p) = got \o ch
    BY DEF Feed
  <2> HIDE DEF got, ch
  <2> QED BY <1>1, <2>1
<1>5. \A i \in 1 .. Len(got) : got[i] \in f + 1 .. log.seq /\ \A j \in 1 .. i - 1 : got[j] < got[i]
  <2>1. InOrder(Feed(p), f, log.seq)
    BY StreamsOK DEF FeedInv, StreamOK
  <2> SUFFICES ASSUME NEW i \in 1 .. Len(got)
               PROVE  got[i] \in f + 1 .. log.seq /\ \A j \in 1 .. i - 1 : got[j] < got[i]
    OBVIOUS
  <2> HIDE DEF got, f, ch
  <2>2. Len(got) \in Nat /\ Len(ch) \in Nat
    BY <1>1
  <2>3. i \in 1 .. Len(got) + Len(ch) /\ \A j \in 1 .. i - 1 : j \in 1 .. Len(got)
    BY <2>2
  <2>4. /\ i \in DOMAIN Feed(p) /\ Feed(p)[i] = got[i]
        /\ \A j \in 1 .. i - 1 : Feed(p)[j] = got[j]
    BY <1>4, <2>3
  <2>5. Feed(p)[i] \in f + 1 .. log.seq /\ \A j \in 1 .. i - 1 : Feed(p)[j] < Feed(p)[i]
    BY <2>1, <2>4 DEF InOrder
  <2> QED BY <2>4, <2>5
<1>6. Cut(p) \in Seq(Nat) /\ Len(Cut(p)) = c /\ \A i \in 1 .. c : Cut(p)[i] = got[i]
  <2>1. Cut(p) = SubSeq(got, 1, c)
    BY DEF Cut
  <2> HIDE DEF got, c
  <2> QED BY <1>1, <2>1
<1>7. Lacks(p) = (f + 1 .. log.seq) \ ToSet(Feed(p))
  BY DEF Lacks
<1> HIDE DEF got, r, c, u, f, ch, t
<1>0. Len(r) \in Nat /\ Len(got) \in Nat /\ Len(ch) \in Nat /\ c \in Nat /\ c <= Len(got)
      /\ Len(t) = Len(r) + Len(got) - c /\ DOMAIN t = 1 .. Len(t)
      /\ DOMAIN ch = 1 .. Len(ch) /\ DOMAIN Cut(p) = 1 .. c
  BY <1>1, <1>3, <1>6
<1>8. ASSUME NEW e \in u - Len(r) + 1 .. log.seq
      PROVE  \/ e \in ToSet(t) \cup ToSet(ch) \cup Lacks(p)
             \/ e > u /\ (e <= f \/ e \in ToSet(Cut(p)))
  <2>1. CASE e <= u
    <3> DEFINE i == e - u + Len(r)
    <3>1. i \in 1 .. Len(r) /\ u - Len(r) + i = e
      BY <1>0, <1>1, <2>1
    <3> HIDE DEF i
    <3>2. i \in DOMAIN t
      BY <1>0, <1>1, <1>3, <3>1
    <3>3. t[i] = e
      BY <1>2, <1>3, <3>1
    <3> QED BY <3>2, <3>3 DEF ToSet
  <2>2. CASE e > u /\ e > f /\ e \in ToSet(Feed(p))
    <3>1. PICK i \in 1 .. Len(got) + Len(ch) : Feed(p)[i] = e
      BY <1>4, <2>2 DEF ToSet
    <3>2. CASE i \in 1 .. c
      <4>1. i \in DOMAIN Cut(p) /\ i \in 1 .. Len(got)
        BY <1>0, <1>1, <1>6, <3>2
      <4>2. Cut(p)[i] = e
        BY <1>4, <1>6, <3>1, <3>2, <4>1
      <4> QED BY <2>2, <4>1, <4>2 DEF ToSet
    <3>3. CASE i \in c + 1 .. Len(got)
      <4>1. Len(r) + i - c \in DOMAIN t /\ i \in 1 .. Len(got)
        BY <1>0, <3>3
      <4>2. t[Len(r) + i - c] = e
        BY <1>3, <1>4, <3>1, <3>3, <4>1
      <4> QED BY <4>1, <4>2 DEF ToSet
    <3>4. CASE i \in Len(got) + 1 .. Len(got) + Len(ch)
      <4>1. i - Len(got) \in DOMAIN ch /\ ch[i - Len(got)] = e
        BY <1>0, <1>1, <1>4, <3>1, <3>4
      <4> QED BY <4>1 DEF ToSet
    <3> QED BY <1>0, <1>1, <3>2, <3>3, <3>4
  <2>3. CASE e > u /\ e > f /\ e \notin ToSet(Feed(p))
    BY <1>0, <1>1, <1>7, <2>3
  <2>4. CASE e > u /\ e <= f
    BY <2>4
  <2> QED BY <1>0, <1>1, <2>1, <2>2, <2>3, <2>4
<1>9. ASSUME NEW j \in DOMAIN t, NEW i \in 1 .. j - 1, t[i] >= t[j]
      PROVE  t[j] \in f + 1 .. u
  <2>1. j \in 1 .. Len(t) /\ i \in 1 .. Len(t) /\ i < j
    BY <1>0, <1>1, <1>3, <1>9
  <2>2. CASE j <= Len(r)
    <3>1. i \in 1 .. Len(r) /\ j \in 1 .. Len(r)
      BY <1>0, <1>1, <2>1, <2>2
    <3>2. t[i] = u - Len(r) + i /\ t[j] = u - Len(r) + j
      BY <1>2, <1>3, <3>1
    <3> QED BY <1>0, <1>1, <1>9, <2>1, <3>2
  <2>3. CASE ~(j <= Len(r))
    <3> DEFINE b == j - Len(r) + c
    <3>1. b \in c + 1 .. Len(got) /\ Len(r) + b - c = j
      BY <1>0, <2>1, <2>3
    <3> HIDE DEF b
    <3>2. t[j] = got[b] /\ got[b] \in f + 1 .. log.seq
      <4>1. b \in 1 .. Len(got)
        BY <1>0, <1>1, <3>1
      <4> QED BY <1>3, <1>5, <3>1, <4>1
    <3>3. CASE i <= Len(r)
      <4>1. i \in 1 .. Len(r)
        BY <1>0, <1>1, <2>1, <3>3
      <4>2. t[i] = u - Len(r) + i
        BY <1>2, <1>3, <4>1
      <4>3. u \in Nat /\ f \in Nat /\ log.seq \in Nat /\ t[j] \in f + 1 .. log.seq
        BY <1>1, <3>2
      <4>4. t[i] <= u
        BY <1>0, <4>1, <4>2, <4>3
      <4>5. t[i] \in Int
        BY <1>0, <4>1, <4>2, <4>3
      <4> QED BY <1>9, <4>3, <4>4, <4>5
    <3>4. CASE ~(i <= Len(r))
      <4> DEFINE a == i - Len(r) + c
      <4>1. a \in c + 1 .. Len(got) /\ Len(r) + a - c = i /\ a < b
        BY <1>0, <2>1, <3>1, <3>4
      <4> HIDE DEF a
      <4>2. t[i] = got[a] /\ got[a] < got[b] /\ got[a] \in Nat /\ got[b] \in Nat
        <5>1. a \in 1 .. b - 1 /\ a \in 1 .. Len(got) /\ b \in 1 .. Len(got)
          BY <1>0, <3>1, <4>1
        <5>2. t[i] = got[a]
          BY <1>3, <4>1
        <5>3. got[a] < got[b] /\ got[a] \in f + 1 .. log.seq
          BY <1>5, <5>1
        <5> QED BY <1>1, <3>2, <5>2, <5>3
      <4> QED BY <1>9, <3>2, <4>2
    <3> QED BY <3>3, <3>4
  <2> QED BY <2>2, <2>3
<1> QED BY <1>8, <1>9 DEF got, r, c, u, f, ch, t

\* A page that shows its history and its stream has the log from the first entry on,
\* but for what was logged between the reading of the history and the subscription or
\* came before the answer that replaced it; it has twice only what was logged between
\* the subscription and the reading; all this for any ring and in whichever order the
\* two are asked for (handleLogs, stats.go:126; LogsPage.tsx:122).
THEOREM HistoryIsWhole == Spec => []HistoryMeetsStream
<1>1. FeedInv => HistoryMeetsStream
  <2> SUFFICES ASSUME FeedInv, NEW p \in Subscribed PROVE
         LET v == page[p]
         IN /\ \A i \in DOMAIN v.recent : v.recent[i] = v.upto - Len(v.recent) + i
            /\ v.recent = <<>> => v.upto = 0
            /\ \A e \in v.upto - Len(v.recent) + 1 .. log.seq :
                 \/ e \in ToSet(Shown(p)) \cup ToSet(chan[p]) \cup Lacks(p)
                 \/ e > v.upto /\ (e <= v.from \/ e \in ToSet(Cut(p)))
            /\ \A j \in DOMAIN Shown(p) : \A i \in 1 .. j - 1 :
                 Shown(p)[i] >= Shown(p)[j] => Shown(p)[j] \in v.from + 1 .. v.upto
    BY DEF HistoryMeetsStream
  <2>1. p \in Pages
    BY FeedIs DEF FeedInv, HistoryInv
  <2>2. LastUpTo(page[p].recent, page[p].upto)
    BY <2>1 DEF FeedInv, HistoryInv, AnswersOK
  <2> QED BY <2>2, ShownWhole DEF LastUpTo
<1> QED BY <1>1, FeedInit, FeedKept, PTL DEF Spec

-----------------------------------------------------------------------------
(* What is counted of the requests *)

InStage(s) == Cardinality(At(s))

LEMMA InStageType ==
  \A s \in Stages : IsFiniteSet(At(s)) /\ InStage(s) \in Nat
<1> SUFFICES ASSUME NEW s \in Stages PROVE IsFiniteSet(At(s)) /\ InStage(s) \in Nat
  OBVIOUS
<1>1. At(s) \in SUBSET Requests /\ IsFiniteSet(Requests)
  BY ObserveAssumption DEF At
<1> QED BY <1>1, FS_Subset, FS_CardinalityType DEF InStage

\* One request goes from a stage to another.
LEMMA Moves ==
  ASSUME NEW q \in Requests, NEW a \in Stages, NEW b \in Stages, a # b,
         req[q].stage = a, req'[q].stage = b, \A o \in Requests \ {q} : req'[o] = req[o]
  PROVE  /\ InStage(a)' = InStage(a) - 1 /\ InStage(b)' = InStage(b) + 1
         /\ \A s \in Stages \ {a, b} : InStage(s)' = InStage(s)
<1>1. At(a)' = At(a) \ {q} /\ q \in At(a)
  BY DEF At
<1>2. At(b)' = At(b) \cup {q} /\ q \notin At(b)
  BY DEF At
<1>3. \A s \in Stages \ {a, b} : At(s)' = At(s)
  BY DEF At
<1>4. IsFiniteSet(At(a)) /\ IsFiniteSet(At(b))
  BY InStageType
<1>5. Cardinality(At(a) \ {q}) = Cardinality(At(a)) - 1
  BY <1>1, <1>4, FS_RemoveElement
<1>6. Cardinality(At(b) \cup {q}) = Cardinality(At(b)) + 1
  BY <1>2, <1>4, FS_AddElement
<1> QED BY <1>1, <1>2, <1>3, <1>5, <1>6 DEF InStage

\* The same, as the actions say it.
LEMMA MovesTo ==
  ASSUME CountType, NEW q \in Requests, NEW a \in Stages, NEW b \in Stages, a # b,
         req[q].stage = a, To(q, b)
  PROVE  /\ InStage(a)' = InStage(a) - 1 /\ InStage(b)' = InStage(b) + 1
         /\ \A s \in Stages \ {a, b} : InStage(s)' = InStage(s)
<1>1. req'[q].stage = b /\ \A o \in Requests \ {q} : req'[o] = req[o]
  BY DEF To, CountType
<1> QED BY <1>1, Moves

LEMMA MovesWith ==
  ASSUME CountType, NEW q \in Requests, NEW a \in Stages, NEW b \in Stages, a # b, NEW s0,
         req[q].stage = a, req' = [req EXCEPT ![q] = [stage |-> b, status |-> s0]]
  PROVE  /\ InStage(a)' = InStage(a) - 1 /\ InStage(b)' = InStage(b) + 1
         /\ \A s \in Stages \ {a, b} : InStage(s)' = InStage(s)
<1>1. req'[q].stage = b /\ \A o \in Requests \ {q} : req'[o] = req[o]
  BY DEF CountType
<1> QED BY <1>1, Moves

\* The equations of CountsAddUp, with the stages added up.
TallyOK ==
  /\ total.requests + hist.uncounted = log.seq + InStage("done")
  /\ inFly = InStage("forwarded") + hist.aborted
  /\ count = hist.sent - hist.aborted - (InStage("forwarded") + InStage("back"))

LEMMA OnTheirWay ==
  Cardinality(At("forwarded") \cup At("back")) = InStage("forwarded") + InStage("back")
<1>1. /\ IsFiniteSet(At("forwarded")) /\ IsFiniteSet(At("back"))
      /\ InStage("forwarded") \in Nat /\ InStage("back") \in Nat
  BY InStageType DEF Stages
<1>2. At("forwarded") \cap At("back") = {}
  BY DEF At
<1>3. Cardinality(At("forwarded") \cap At("back")) = 0
  BY <1>2, FS_EmptySet
<1>4. Cardinality(At("forwarded") \cup At("back")) =
        Cardinality(At("forwarded")) + Cardinality(At("back")) - Cardinality(At("forwarded") \cap At("back"))
  BY <1>1, FS_Union
<1>5. Cardinality(At("forwarded")) \in Nat /\ Cardinality(At("back")) \in Nat
  BY <1>1 DEF InStage
<1> QED BY <1>3, <1>4, <1>5 DEF InStage

\* What the equations are about.
LEMMA TallyType ==
  ASSUME CountType, RingOK
  PROVE  /\ total.requests \in Nat /\ log.seq \in Nat /\ inFly \in Int /\ count \in Nat
         /\ hist.uncounted \in Nat /\ hist.sent \in Nat /\ hist.aborted \in Nat
         /\ InStage("done") \in Nat /\ InStage("forwarded") \in Nat /\ InStage("back") \in Nat
<1>1. total.requests \in Nat
  BY DEF CountType, Totals, Kinds
<1>2. hist.uncounted \in Nat /\ hist.sent \in Nat /\ hist.aborted \in Nat
  BY DEF CountType, History
<1>3. InStage("done") \in Nat /\ InStage("forwarded") \in Nat /\ InStage("back") \in Nat
  BY InStageType DEF Stages
<1> QED BY <1>1, <1>2, <1>3 DEF CountType, RingOK

LEMMA TallyInit == Init => TallyOK
<1> SUFFICES ASSUME Init PROVE TallyOK
  OBVIOUS
<1>1. /\ total.requests = 0 /\ hist.uncounted = 0 /\ log.seq = 0 /\ inFly = 0 /\ count = 0
      /\ hist.aborted = 0 /\ hist.sent = 0
  BY DEF Init, Zero, Kinds
<1>2. \A s \in {"done", "forwarded", "back"} : At(s) = {}
  BY DEF Init, At
<1>3. \A s \in {"done", "forwarded", "back"} : InStage(s) = 0
  BY <1>2, FS_EmptySet DEF InStage
<1> QED BY <1>1, <1>3 DEF TallyOK

LEMMA TallyKept ==
  ASSUME CountType, RingOK, TallyOK, [Next]_vars
  PROVE  TallyOK'
<1>0. /\ total.requests \in Nat /\ log.seq \in Nat /\ inFly \in Int /\ count \in Nat
      /\ hist.uncounted \in Nat /\ hist.sent \in Nat /\ hist.aborted \in Nat
      /\ InStage("done") \in Nat /\ InStage("forwarded") \in Nat /\ InStage("back") \in Nat
  BY TallyType
<1> DEFINE same == /\ total'.requests = total.requests /\ log'.seq = log.seq /\ inFly' = inFly
                   /\ count' = count /\ hist'.uncounted = hist.uncounted
                   /\ hist'.sent = hist.sent /\ hist'.aborted = hist.aborted
           still == /\ InStage("done")' = InStage("done")
                    /\ InStage("forwarded")' = InStage("forwarded")
                    /\ InStage("back")' = InStage("back")
<1>1. same /\ still => TallyOK'
  BY <1>0 DEF TallyOK
<1>2. req' = req => still
  BY DEF InStage, At
<1>3. CASE UNCHANGED vars
  BY <1>1, <1>2, <1>3 DEF vars
<1>4. ASSUME NEW q \in Requests, Arrive(q) PROVE TallyOK'
  <2>1. same /\ req[q].stage = "idle" /\ To(q, "gates")
    BY <1>4 DEF Arrive, feeds, counters
  <2>2. still
    BY <2>1, MovesTo DEF Stages
  <2> QED BY <1>1, <2>1, <2>2
<1>5. ASSUME NEW q \in Requests, Reject(q) PROVE TallyOK'
  <2>1. PICK s \in Statuses : req' = [req EXCEPT ![q] = [stage |-> "answered", status |-> s]]
    BY <1>5 DEF Reject
  <2>2. same /\ req[q].stage = "gates"
    BY <1>5 DEF Reject, feeds, CountType, Totals, Kinds
  <2>3. still
    BY <2>1, <2>2, MovesWith DEF Stages
  <2> QED BY <1>1, <2>2, <2>3
<1>6. ASSUME NEW q \in Requests, Turn(q) PROVE TallyOK'
  <2>1. same /\ req[q].stage = "gates" /\ To(q, "answered")
    BY <1>6 DEF Turn, feeds, counters
  <2>2. still
    BY <2>1, MovesTo DEF Stages
  <2> QED BY <1>1, <2>1, <2>2
<1>7. ASSUME NEW q \in Requests, Challenge(q) PROVE TallyOK'
  <2>1. /\ req[q].stage = "gates" /\ To(q, "done") /\ UNCHANGED <<feeds, counters>>
        /\ hist' = [hist EXCEPT !.uncounted = @ + 1]
    BY <1>7 DEF Challenge
  <2>2. /\ InStage("done")' = InStage("done") + 1
        /\ InStage("forwarded")' = InStage("forwarded") /\ InStage("back")' = InStage("back")
    BY <2>1, MovesTo DEF Stages
  <2>3. hist'.uncounted = hist.uncounted + 1 /\ hist'.sent = hist.sent /\ hist'.aborted = hist.aborted
    BY <2>1 DEF CountType, History
  <2>4. total' = total /\ log' = log /\ inFly' = inFly /\ count' = count
    BY <2>1 DEF feeds, counters
  <2>5. total'.requests + hist'.uncounted = log'.seq + InStage("done")'
    <3>1. total.requests + hist.uncounted = log.seq + InStage("done")
      BY DEF TallyOK
    <3> QED BY <1>0, <2>2, <2>3, <2>4, <3>1
  <2>6. /\ inFly' = InStage("forwarded")' + hist'.aborted
        /\ count' = hist'.sent - hist'.aborted - (InStage("forwarded")' + InStage("back")')
    BY <2>2, <2>3, <2>4 DEF TallyOK
  <2> QED BY <2>5, <2>6 DEF TallyOK
<1>8. ASSUME NEW q \in Requests, Forward(q) PROVE TallyOK'
  <2>1. /\ req[q].stage = "gates" /\ To(q, "forwarded") /\ UNCHANGED <<feeds, total, count, series>>
        /\ inFly' = inFly + 1 /\ hist' = [hist EXCEPT !.sent = @ + 1]
    BY <1>8 DEF Forward
  <2>2. /\ InStage("forwarded")' = InStage("forwarded") + 1
        /\ InStage("done")' = InStage("done") /\ InStage("back")' = InStage("back")
    BY <2>1, MovesTo DEF Stages
  <2>3. hist'.uncounted = hist.uncounted /\ hist'.sent = hist.sent + 1 /\ hist'.aborted = hist.aborted
    BY <2>1 DEF CountType, History
  <2>4. total' = total /\ log' = log /\ inFly' = inFly + 1 /\ count' = count
    BY <2>1 DEF feeds
  <2> QED BY <1>0, <2>2, <2>3, <2>4 DEF TallyOK
<1>9. ASSUME NEW q \in Requests, Abort(q) PROVE TallyOK'
  <2>1. /\ req[q].stage = "forwarded" /\ To(q, "done") /\ UNCHANGED <<feeds, counters>>
        /\ hist' = [hist EXCEPT !.aborted = @ + 1, !.uncounted = @ + 1]
    BY <1>9 DEF Abort
  <2>2. /\ InStage("forwarded")' = InStage("forwarded") - 1
        /\ InStage("done")' = InStage("done") + 1 /\ InStage("back")' = InStage("back")
    BY <2>1, MovesTo DEF Stages
  <2>3. /\ hist'.uncounted = hist.uncounted + 1 /\ hist'.sent = hist.sent
        /\ hist'.aborted = hist.aborted + 1
    BY <2>1 DEF CountType, History
  <2> QED BY <1>0, <2>1, <2>2, <2>3 DEF TallyOK, feeds, counters
<1>10. ASSUME NEW q \in Requests, Answer(q) PROVE TallyOK'
  <2>1. PICK s \in Statuses : req' = [req EXCEPT ![q] = [stage |-> "back", status |-> s]]
    BY <1>10 DEF Answer
  <2>2. /\ req[q].stage = "forwarded" /\ inFly' = inFly - 1
        /\ UNCHANGED <<feeds, total, count, series, hist>>
    BY <1>10 DEF Answer
  <2>0. req'[q].stage = "back" /\ \A o \in Requests \ {q} : req'[o] = req[o]
    BY <2>1 DEF CountType
  <2>3. /\ InStage("forwarded")' = InStage("forwarded") - 1
        /\ InStage("back")' = InStage("back") + 1 /\ InStage("done")' = InStage("done")
    BY <2>0, <2>2, Moves DEF Stages
  <2> QED BY <1>0, <2>2, <2>3 DEF TallyOK, feeds
<1>11. ASSUME NEW q \in Requests, ObserveDuration(q) PROVE TallyOK'
  <2>1. /\ req[q].stage = "back" /\ To(q, "answered") /\ count' = count + 1
        /\ UNCHANGED <<feeds, total, inFly, series, hist>>
    BY <1>11 DEF ObserveDuration
  <2>2. /\ InStage("back")' = InStage("back") - 1
        /\ InStage("done")' = InStage("done") /\ InStage("forwarded")' = InStage("forwarded")
    BY <2>1, MovesTo DEF Stages
  <2> QED BY <1>0, <2>1, <2>2 DEF TallyOK, feeds
<1>12. ASSUME NEW q \in Requests, IncRequest(q) PROVE TallyOK'
  <2>1. /\ req[q].stage = "answered" /\ To(q, "done") /\ UNCHANGED <<feeds, inFly, count, series, hist>>
    BY <1>12 DEF IncRequest
  <2>2. /\ InStage("done")' = InStage("done") + 1
        /\ InStage("forwarded")' = InStage("forwarded") /\ InStage("back")' = InStage("back")
    BY <2>1, MovesTo DEF Stages
  <2>3. total'.requests = total.requests + 1
    BY <1>12 DEF IncRequest, CountType, Totals, Kinds
  <2> QED BY <1>0, <2>1, <2>2, <2>3 DEF TallyOK, feeds
<1>13. ASSUME NEW q \in Requests, LogAccess(q) PROVE TallyOK'
  <2>1. /\ req[q].stage = "done" /\ Add /\ UNCHANGED <<page, counters, hist>>
        /\ req' = [req EXCEPT ![q] = [stage |-> "idle", status |-> "less"]]
    BY <1>13 DEF LogAccess
  <2>2. /\ InStage("done")' = InStage("done") - 1
        /\ InStage("forwarded")' = InStage("forwarded") /\ InStage("back")' = InStage("back")
    BY <2>1, MovesWith DEF Stages
  <2>3. log'.seq = log.seq + 1
    BY <2>1, AddKeepsRing
  <2> QED BY <1>0, <2>1, <2>2, <2>3 DEF TallyOK, counters
<1>14. CASE Sample
  <2>1. same /\ req' = req
    BY <1>14 DEF Sample, feeds, CountType, History
  <2> QED BY <1>1, <1>2, <2>1
<1>15. ASSUME NEW p \in Pages,
              \/ Begin(p) \/ Subscribe(p) \/ HandleLogs(p) \/ LoadHistory(p)
              \/ Deliver(p) \/ Cancel(p)
       PROVE  TallyOK'
  <2>1. same /\ req' = req
    BY <1>15 DEF Begin, Subscribe, HandleLogs, LoadHistory, Deliver, Cancel, counters,
                      CountType, History
  <2> QED BY <1>1, <1>2, <2>1
<1> QED BY <1>3, <1>4, <1>5, <1>6, <1>7, <1>8, <1>9, <1>10, <1>11, <1>12, <1>13, <1>14, <1>15 DEF Next

-----------------------------------------------------------------------------
(* The curve *)

\* The ring has the last points, the newest before at, and each is what was counted
\* between two marks.
SeriesOK ==
  LET m == hist.marks
  IN /\ DOMAIN series.buf = 0 .. Points - 1 /\ series.at \in 0 .. Points - 1
     /\ m # <<>> /\ series.last = m[Len(m)] /\ series.n = Least(Len(m) - 1, Points)
     /\ \A j \in 1 .. series.n :
          series.buf[Before(Points, series.at, j)] = Minus(m[Len(m) - j + 1], m[Len(m) - j])

NotAhead == \A k \in Kinds : series.last[k] <= total[k]

LEMMA SeriesInit == Init => SeriesOK /\ NotAhead
<1> SUFFICES ASSUME Init PROVE SeriesOK /\ NotAhead
  OBVIOUS
<1>1. Points \in Nat \ {0}
  BY ObserveAssumption
<1>2. /\ DOMAIN series.buf = 0 .. Points - 1 /\ series.at = 0 /\ series.n = 0
      /\ series.last = Zero /\ hist.marks = <<Zero>> /\ total = Zero
  BY DEF Init
<1>3. Len(<<Zero>>) = 1 /\ <<Zero>> # <<>> /\ <<Zero>>[1] = Zero
  OBVIOUS
<1>4. SeriesOK
  BY <1>1, <1>2, <1>3 DEF SeriesOK, Least
<1>5. \A k \in Kinds : Zero[k] <= Zero[k]
  BY DEF Zero
<1> QED BY <1>2, <1>4, <1>5 DEF NotAhead

LEMMA SeriesSampled ==
  ASSUME CountType, SeriesOK, Sample
  PROVE  SeriesOK' /\ NotAhead'
<1> DEFINE m == hist.marks
           o == Append(m, total)
           d == Minus(total, series.last)
           new == [series.buf EXCEPT ![series.at] = d]
           g == (series.at + 1) % Points
<1>1. /\ Points \in Nat \ {0} /\ m \in Seq(Totals) /\ total \in Totals
      /\ DOMAIN series.buf = 0 .. Points - 1 /\ series.at \in 0 .. Points - 1
      /\ m # <<>> /\ series.last = m[Len(m)] /\ series.n = Least(Len(m) - 1, Points)
  BY ObserveAssumption DEF SeriesOK, CountType, History
<1>2. /\ series'.buf = new /\ series'.at = g /\ series'.last = total /\ total' = total
      /\ series'.n = Least(series.n + 1, Points)
  BY DEF Sample
<1>3. hist'.marks = o
  BY DEF Sample, CountType, History
<1>4. /\ g = After(Points, series.at) /\ g \in 0 .. Points - 1
  <2> DEFINE h == series.at
  <2>1. h \in 0 .. Points - 1
    BY <1>1
  <2> HIDE DEF h
  <2>2. (h + 1) % Points = After(Points, h) /\ After(Points, h) \in 0 .. Points - 1
    BY <1>1, <2>1, AfterIs DEF After
  <2> QED BY <2>2 DEF h
<1>5. Pushed(Points, series.at, series.buf, d, new)
  <2> DEFINE b == series.buf
             h == series.at
  <2>1. DOMAIN b = 0 .. Points - 1 /\ h \in 0 .. Points - 1
    BY <1>1
  <2> HIDE DEF b, h, d
  <2>2. Pushed(Points, h, b, d, [b EXCEPT ![h] = d])
    BY <1>1, <2>1, RingPush
  <2> QED BY <2>2 DEF b, h
<1>6. DOMAIN new = 0 .. Points - 1
  BY <1>1
<1>7. /\ Len(m) \in Nat /\ Len(m) >= 1 /\ Len(o) = Len(m) + 1 /\ o # <<>>
      /\ o[Len(m) + 1] = total /\ \A i \in 1 .. Len(m) : o[i] = m[i]
  <2> HIDE DEF m
  <2>1. Len(m) \in Nat /\ Len(m) >= 1
    BY <1>1
  <2>2. Len(o) = Len(m) + 1 /\ o[Len(m) + 1] = total /\ \A i \in 1 .. Len(m) : o[i] = m[i]
    BY <1>1, AppendProperties
  <2>3. o # <<>>
    BY <1>1, AppendProperties
  <2> QED BY <2>1, <2>2, <2>3
<1>8. new[Before(Points, g, 1)] = d
      /\ \A j \in 1 .. Points - 1 : new[Before(Points, g, j + 1)] = series.buf[Before(Points, series.at, j)]
  BY <1>4, <1>5 DEF Pushed
<1>9. \A j \in 1 .. series.n :
        series.buf[Before(Points, series.at, j)] = Minus(m[Len(m) - j + 1], m[Len(m) - j])
  BY DEF SeriesOK
<1> HIDE DEF o, d, new, g, m
<1>10. Least(series.n + 1, Points) = Least(Len(o) - 1, Points)
  BY <1>1, <1>7 DEF Least
<1>11. ASSUME NEW j \in 1 .. Least(series.n + 1, Points)
       PROVE  new[Before(Points, g, j)] = Minus(o[Len(o) - j + 1], o[Len(o) - j])
  <2>1. CASE j = 1
    <3>1. Len(o) - j + 1 = Len(m) + 1 /\ Len(o) - j = Len(m) /\ Len(m) \in 1 .. Len(m)
      BY <1>7, <2>1
    <3>2. d = Minus(o[Len(m) + 1], o[Len(m)])
      BY <1>1, <1>7, <3>1 DEF d
    <3> QED BY <1>8, <2>1, <3>1, <3>2
  <2>2. CASE j # 1
    <3> DEFINE i == j - 1
    <3>1. i \in 1 .. series.n /\ i \in 1 .. Points - 1 /\ j = i + 1 /\ i \in Nat /\ i < Len(m)
      BY <1>1, <1>7, <2>2 DEF Least
    <3> HIDE DEF i
    <3>2. new[Before(Points, g, i + 1)] = Minus(m[Len(m) - i + 1], m[Len(m) - i])
      BY <1>8, <1>9, <3>1
    <3>3. Len(o) - j + 1 = Len(m) - i + 1 /\ Len(o) - j = Len(m) - i
      BY <1>7, <3>1
    <3>4. Len(m) - i + 1 \in 1 .. Len(m) /\ Len(m) - i \in 1 .. Len(m)
      BY <1>7, <3>1
    <3>5. o[Len(m) - i + 1] = m[Len(m) - i + 1] /\ o[Len(m) - i] = m[Len(m) - i]
      BY <1>7, <3>4
    <3> QED BY <3>1, <3>2, <3>3, <3>5
  <2> QED BY <2>1, <2>2
<1>12. \A j \in 1 .. series'.n :
         series'.buf[Before(Points, series'.at, j)] = Minus(o[Len(o) - j + 1], o[Len(o) - j])
  BY <1>2, <1>11
<1>13. series'.last = o[Len(o)]
  BY <1>2, <1>7
<1>14. SeriesOK'
  BY <1>1, <1>2, <1>3, <1>4, <1>6, <1>7, <1>10, <1>12, <1>13 DEF SeriesOK
<1>15. \A k \in Kinds : total[k] <= total[k]
  BY <1>1 DEF Totals
<1> QED BY <1>2, <1>14, <1>15 DEF NotAhead

\* What the console reads of it.
LEMMA SeriesPointsAre ==
  ASSUME CountType, SeriesOK
  PROVE  LET m == hist.marks
             first == Len(m) - series.n
         IN /\ series.last = Last(m) /\ series.n = Least(Len(m) - 1, Points)
            /\ \A i \in 1 .. series.n :
                 SeriesPoints[i] = Minus(m[first + i], m[first + i - 1])
<1> DEFINE m == hist.marks
           n == series.n
           h == series.at
<1>1. /\ Points \in Nat \ {0} /\ m \in Seq(Totals) /\ h \in 0 .. Points - 1
      /\ m # <<>> /\ series.last = m[Len(m)] /\ n = Least(Len(m) - 1, Points)
      /\ \A j \in 1 .. n :
           series.buf[Before(Points, h, j)] = Minus(m[Len(m) - j + 1], m[Len(m) - j])
  BY ObserveAssumption DEF SeriesOK, CountType, History
<1>2. Len(m) \in Nat /\ Len(m) >= 1
  BY <1>1
<1>3. ASSUME NEW i \in 1 .. n
      PROVE  SeriesPoints[i] = Minus(m[Len(m) - n + i], m[Len(m) - n + i - 1])
  <2>1. SeriesPoints[i] = series.buf[(((h - n + Points) % Points) + i - 1) % Points]
    BY DEF SeriesPoints
  <2> HIDE DEF m, n, h
  <2>2. n \in 1 .. Points /\ n \in Nat /\ i \in Nat /\ h \in Nat
    BY <1>1, <1>2 DEF Least
  <2>3. h - n + Points = h + Points - n
    BY <1>1, <2>2
  <2>4. (((h + Points - n) % Points) + i - 1) % Points = Before(Points, h, n - i + 1)
    BY <1>1, <2>2, RingRead
  <2> DEFINE j == n - i + 1
  <2>5. j \in 1 .. n /\ Len(m) - j + 1 = Len(m) - n + i /\ Len(m) - j = Len(m) - n + i - 1
    BY <1>2, <2>2
  <2>6. series.buf[Before(Points, h, j)] = Minus(m[Len(m) - j + 1], m[Len(m) - j])
    BY <1>1, <2>5
  <2> QED BY <2>1, <2>3, <2>4, <2>5, <2>6
<1> QED BY <1>1, <1>3 DEF Last

CountInv == FeedInv /\ TallyOK /\ SeriesOK /\ NotAhead

LEMMA CountKept == CountInv /\ [Next]_vars => CountInv'
<1> SUFFICES ASSUME CountInv, [Next]_vars PROVE CountInv'
  OBVIOUS
<1>1. FeedInv' /\ TallyOK' /\ CountType /\ CountType' /\ total \in Totals
  BY FeedKept, TallyKept DEF CountInv, FeedInv, HistoryInv, CountType
<1>2. ASSUME series' = series, hist'.marks = hist.marks, \A k \in Kinds : total'[k] >= total[k]
      PROVE  SeriesOK' /\ NotAhead'
  <2>1. SeriesOK'
    BY <1>2 DEF CountInv, SeriesOK
  <2>2. \A k \in Kinds : series.last[k] <= total[k] /\ total[k] \in Nat /\ total'[k] \in Nat
                         /\ series.last[k] \in Nat
    <3>1. hist.marks \in Seq(Totals) /\ hist.marks # <<>> /\ series.last = hist.marks[Len(hist.marks)]
      BY <1>1 DEF CountInv, SeriesOK, CountType, History
    <3>2. series.last \in Totals
      BY <3>1
    <3> QED BY <1>1, <3>2 DEF CountInv, NotAhead, Totals, CountType
  <2>3. NotAhead'
    BY <1>2, <2>2 DEF NotAhead
  <2> QED BY <2>1, <2>3
<1>3. ASSUME series' = series, hist'.marks = hist.marks, total' = total
      PROVE  SeriesOK' /\ NotAhead'
  BY <1>1, <1>2, <1>3 DEF Totals
<1>4. CASE UNCHANGED vars
  BY <1>1, <1>3, <1>4 DEF vars, CountInv
<1>5. ASSUME NEW q \in Requests,
             \/ Arrive(q) \/ Turn(q) \/ Challenge(q) \/ Forward(q)
             \/ Abort(q) \/ Answer(q) \/ ObserveDuration(q) \/ LogAccess(q)
      PROVE  CountInv'
  <2>1. series' = series /\ hist'.marks = hist.marks /\ total' = total
    BY <1>1, <1>5 DEF Arrive, Turn, Challenge, Forward, Abort, Answer, ObserveDuration, LogAccess,
                      counters, CountType, History
  <2> QED BY <1>1, <1>3, <2>1 DEF CountInv
<1>6. ASSUME NEW q \in Requests, Reject(q) \/ IncRequest(q) PROVE CountInv'
  <2>1. series' = series /\ hist'.marks = hist.marks
    BY <1>6 DEF Reject, IncRequest
  <2>2. \A k \in Kinds : total'[k] >= total[k]
    <3>1. CASE Reject(q)
      BY <1>1, <3>1 DEF Reject, Totals, Kinds
    <3>2. CASE IncRequest(q)
      <4> DEFINE n == IF req[q].status = "5xx" THEN 1 ELSE 0
      <4>1. n \in Nat /\ total' = [total EXCEPT !.requests = @ + 1, !.errors = @ + n]
        BY <3>2 DEF IncRequest
      <4> HIDE DEF n
      <4>2. /\ total'["requests"] = total["requests"] + 1
            /\ total'["errors"] = total["errors"] + n
            /\ total'["blocked"] = total["blocked"]
        BY <1>1, <4>1 DEF Totals, Kinds
      <4>3. \A k \in Kinds : total[k] \in Nat
        BY <1>1 DEF Totals
      <4>4. /\ total["requests"] \in Nat /\ total["errors"] \in Nat /\ total["blocked"] \in Nat
        BY <4>3 DEF Kinds
      <4>5. /\ total'["requests"] >= total["requests"] /\ total'["errors"] >= total["errors"]
            /\ total'["blocked"] >= total["blocked"]
        BY <4>1, <4>2, <4>4
      <4> QED BY <4>5 DEF Kinds
    <3> QED BY <1>6, <3>1, <3>2
  <2> QED BY <1>1, <1>2, <2>1, <2>2 DEF CountInv
<1>7. ASSUME NEW p \in Pages,
             \/ Begin(p) \/ Subscribe(p) \/ HandleLogs(p) \/ LoadHistory(p)
             \/ Deliver(p) \/ Cancel(p)
      PROVE  CountInv'
  <2>1. series' = series /\ hist'.marks = hist.marks /\ total' = total
    BY <1>1, <1>7 DEF Begin, Subscribe, HandleLogs, LoadHistory, Deliver, Cancel, counters,
                      CountType, History
  <2> QED BY <1>1, <1>3, <2>1 DEF CountInv
<1>8. CASE Sample
  BY <1>1, <1>8, SeriesSampled DEF CountInv
<1> QED BY <1>4, <1>5, <1>6, <1>7, <1>8 DEF Next

\* Between the calls that count a request nothing is counted twice or forgotten, for
\* any number of requests that are on their way and those that break off, and the
\* points of the curve are the differences of what was counted, in order and however
\* often its ring has gone round (IncRequest, main.go:539; Sample, metrics.go:320).
THEOREM CountsAreExact == Spec => []CountsAddUp
<1>1. CountInv => CountsAddUp
  BY OnTheirWay, SeriesPointsAre
     DEF CountInv, FeedInv, TallyOK, NotAhead, CountsAddUp, InStage
<1>2. Init => CountInv
  BY FeedInit, TallyInit, SeriesInit DEF CountInv
<1> QED BY <1>1, <1>2, CountKept, PTL DEF Spec

=============================================================================
