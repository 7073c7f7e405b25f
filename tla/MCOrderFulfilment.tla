-------------------------- MODULE MCOrderFulfilment --------------------------
(***************************************************************************)
(* Instances of OrderFulfilment for TLC.                                   *)
(***************************************************************************)
EXTENDS OrderFulfilment

CONSTANTS goods, tabA

UpToTwo == 0..2

=============================================================================
