---------------------------- MODULE MCFiscalYears ----------------------------
(***************************************************************************)
(* Instances of FiscalYears for TLC.                                       *)
(***************************************************************************)
EXTENDS FiscalYears, TLC

\* A document that posts revenue.
OneSale == {"revenue" :> -2}

=============================================================================
