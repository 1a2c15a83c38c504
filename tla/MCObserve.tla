----------------------------- MODULE MCObserve -----------------------------
(* The counters and the access log on small instances. *)
EXTENDS Observe, TLC

Symmetric == Permutations(Requests) \cup Permutations(Pages)

(* Bound: no page is there once a point has been taken or a request has    *)
(* failed, and one page at a time asks for the history.  The streams share *)
(* nothing with the curve but the requests, an entry is its number         *)
(* whatever became of its request, and reading the ring changes nothing.   *)
Apart ==
  /\ \/ \A p \in Pages : page[p] = Gone
     \/ Len(hist.marks) = 1 /\ total.errors = 0
  /\ Cardinality({p \in Pages : page[p].asked # "no"}) <= 1
=============================================================================
