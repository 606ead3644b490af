---------------------------- MODULE MCEventQueue ----------------------------
(***************************************************************************)
(* EventQueue for TLC.  An object is created for every announcement that   *)
(* finds none in the queue, so Handlers bounds these announcements.        *)
(***************************************************************************)
EXTENDS EventQueue
=============================================================================
