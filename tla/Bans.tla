-------------------------------- MODULE Bans --------------------------------
(***************************************************************************)
(* What a list of bans promises, however many copies of it there are: an   *)
(* address is refused by a ban that was given to that very address, for as *)
(* long as it was given and no longer; a ban is in force as soon as it is  *)
(* given; a hit during a ban leaves its end alone, and only a request of a *)
(* clerk at the desk sets it anew; and one of which no copy is left does   *)
(* not come back.                                                          *)
(***************************************************************************)
EXTENDS Naturals

CONSTANTS Addresses, Clerks, Durations

VARIABLES
  now,
  desk,      \* the clerks whose requests are being served
  known,     \* the bans of each address that are written down somewhere
  inForce    \* the ban of each address that is gone by, or Nothing

vars == <<now, desk, known, inForce>>

Nothing == [last |-> 0, until |-> 0]

Init ==
  /\ now = 0 /\ desk = {}
  /\ known = [a \in Addresses |-> {}] /\ inForce = [a \in Addresses |-> Nothing]

Forget(others) == \A a \in others : known'[a] \subseteq known[a]

\* The address a is banned until the given time, and no other is.
Give(a, until) ==
  /\ now' = now + 1
  /\ inForce'[a] = [last |-> now', until |-> until]
  /\ known'[a] \subseteq known[a] \cup {inForce'[a]}
  /\ Forget(Addresses \ {a})
  /\ \A b \in Addresses \ {a} : inForce'[b] \in {inForce[b], Nothing}

\* A hit during a ban leaves the end of it; a ban that is over is given anew.
Hit(a) ==
  /\ desk' = desk
  /\ \E d \in Durations : Give(a, IF now' < inForce[a].until THEN inForce[a].until ELSE now' + d)

\* A clerk bans for as long as the request says, whatever there was before.
Order(c, a) ==
  /\ c \notin desk /\ desk' = desk \cup {c}
  /\ \E d \in Durations : Give(a, now' + d)

\* Any number of bans are lifted, or found again where they are written down;
\* requests of clerks come and end.
Review ==
  /\ now' = now /\ desk' \in SUBSET Clerks /\ Forget(Addresses)
  /\ \A a \in Addresses :
       inForce'[a] \in {inForce[a], Nothing} \cup {ban \in known[a] : ban.last > inForce[a].last}

Pass == now' = now + 1 /\ UNCHANGED <<desk, known, inForce>>

Next == Review \/ Pass \/ \E a \in Addresses : Hit(a) \/ \E c \in Clerks : Order(c, a)

Spec == Init /\ [][Next]_vars
=============================================================================
