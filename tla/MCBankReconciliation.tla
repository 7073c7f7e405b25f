------------------------- MODULE MCBankReconciliation -------------------------
(***************************************************************************)
(* Instances of BankReconciliation for TLC.  Cash accounts are alike.      *)
(***************************************************************************)
EXTENDS BankReconciliation, TLC

CONSTANTS current, savings

AccountSymmetry == Permutations(Accounts)

=============================================================================
