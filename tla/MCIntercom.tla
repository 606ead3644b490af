----------------------------- MODULE MCIntercom -----------------------------
(***************************************************************************)
(* Intercom for TLC.  The configurations differ in the mode of the         *)
(* handlers and in what the environment may do: reorganisations (Finality, *)
(* 0 for none), kills (MaxCrashes) and cut writes (TornWrites).  The       *)
(* confirmations are 1 or 2 instead of 6, the reorganisations as much      *)
(* shorter.                                                                *)
(***************************************************************************)
EXTENDS Intercom
=============================================================================
