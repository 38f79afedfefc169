--------------------------- MODULE MCShareLifecycle ---------------------------
(***************************************************************************)
(* Two server processes one after the other or at once, two stops and two  *)
(* edits: an instance of ShareLifecycle for TLC.                           *)
(***************************************************************************)
EXTENDS ShareLifecycle

CONSTANTS s1, s2, none

=============================================================================
