------------------------------ MODULE MCConfigTx ------------------------------
(* The configuration's transactions on small instances. *)
EXTENDS ConfigTx
=============================================================================
