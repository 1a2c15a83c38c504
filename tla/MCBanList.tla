------------------------------ MODULE MCBanList ------------------------------
(* The list of bans on small instances. *)
EXTENDS BanList, TLC

Interchangeable == Permutations(IPs)
=============================================================================
