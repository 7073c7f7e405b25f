------------------------------ MODULE MCSessions ------------------------------
(***************************************************************************)
(* Instances of Sessions for TLC.  Browsers differ in nothing, nor do the  *)
(* users, who begin as administrators, nor the slots.                      *)
(***************************************************************************)
EXTENDS Sessions, TLC

Alike == Permutations(Browsers) \cup Permutations(Users) \cup Permutations(Slots)

=============================================================================
