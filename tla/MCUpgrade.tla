----------------------------- MODULE MCUpgrade -----------------------------
(* Upgrades on small instances. *)
EXTENDS Upgrade
=============================================================================
