---------------------------- MODULE MCWebScreens ----------------------------
(***************************************************************************)
(* Instances of WebScreens for TLC.  Screens of equal description are one. *)
(***************************************************************************)
EXTENDS WebScreens

=============================================================================
