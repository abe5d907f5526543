---------------------------- MODULE MC_HqcSession ----------------------------
(***************************************************************************)
(* HqcSession with an open peer, for TLC.                                  *)
(***************************************************************************)
EXTENDS HqcSession

=============================================================================
