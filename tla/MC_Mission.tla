----------------------------- MODULE MC_Mission -----------------------------
(***************************************************************************)
(* MissionItems for TLC: two ground stations (MC_Mission*.cfg).            *)
(***************************************************************************)
EXTENDS MissionItems

=============================================================================
