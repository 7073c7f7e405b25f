------------------------- MODULE MCConcurrentPosting -------------------------
(***************************************************************************)
(* Instances of ConcurrentPosting for TLC: sessions are interchangeable.   *)
(***************************************************************************)
EXTENDS ConcurrentPosting, TLC

SessionSymmetry == Permutations(Sessions)

\* An invoice with two totals to edit between, and payments that differ from it.
MixedTotals == [d \in Docs |-> IF d \in Invoices THEN {2, 3} ELSE {2}]

\* Two payments that each cover the invoice.
FullTotals == [d \in Docs |-> {2}]

=============================================================================
