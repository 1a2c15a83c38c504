----------------------------- MODULE MCSessions -----------------------------
(* The console's sessions on small instances. *)
EXTENDS Sessions
=============================================================================
