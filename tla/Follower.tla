------------------------------ MODULE Follower ------------------------------
(***************************************************************************)
(* What a process that works with a copy of a source promises: it takes    *)
(* what the source has, and some time later puts it in place or drops it.  *)
(* So the copy is always one the source had while the process ran, whole,  *)
(* and the copies follow one another as the source did: nothing that was   *)
(* taken earlier replaces what was taken later.                            *)
(***************************************************************************)
CONSTANTS Values, None

VARIABLES
  source,
  taken,   \* what has been taken and is not in place yet, or None
  copy     \* None while the process does not run

vars == <<source, taken, copy>>

Init == source \in Values /\ taken = None /\ copy = source

Change == source' \in Values /\ UNCHANGED <<taken, copy>>

Take == taken = None /\ taken' = source /\ UNCHANGED <<source, copy>>

Put == taken # None /\ copy' = taken /\ taken' = None /\ UNCHANGED source

Drop == taken # None /\ taken' = None /\ UNCHANGED <<source, copy>>

Start == copy = None /\ taken = None /\ copy' = source /\ UNCHANGED <<source, taken>>

Stop == copy' = None /\ taken' = None /\ UNCHANGED source

Next == Change \/ Take \/ Put \/ Drop \/ Start \/ Stop

Spec == Init /\ [][Next]_vars
=============================================================================
