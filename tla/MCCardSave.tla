---------------------------- MODULE MCCardSave ------------------------------
(* The save screen on one card, two saves deep.                               *)
EXTENDS CardSaveProperties
=============================================================================
