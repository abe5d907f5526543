------------------------------ MODULE MC_HqcLink ------------------------------
(***************************************************************************)
(* HqcLink for TLC: the controller, an honest ground station and a link,   *)
(* small enough for one or two sessions (MC_HqcLink*.cfg).                 *)
(***************************************************************************)
EXTENDS HqcLink

=============================================================================
