----------------------------- MODULE MCSubledger -----------------------------
(***************************************************************************)
(* Instances of Subledger for TLC.  Documents are numbered; each family of *)
(* tables below gives every document its kind and what may be written into *)
(* it.                                                                     *)
(***************************************************************************)
EXTENDS Subledger, TLC

In(date, net, tax) == [date |-> date, net |-> net, tax |-> tax]

OneParty == [d \in Docs |-> "party"]

\* The requests on documents alone, the administrator's tables left as they are.
Request == \E d \in Docs : DraftStep(d) \/ PostStep(d) \/ ApplyStep(d) \/ UnpostStep(d)
RequestSpec == Init /\ [][Request]_vars

\* The same with the rate table edited at any time.
ChangeRate == \E t \in Dates, r \in Rates \cup {0} : SetExchangeRate(t, r)
RateSpec == Init /\ [][Request \/ ChangeRate]_vars

\* A credit note and a payment for three bills, one of another supplier, beside
\* stock moving in and out; either settler can exceed a bill, and the bills of
\* their supplier exceed each of them.
SettlementKind == [d \in Docs |-> <<"purchase_credit_note", "supplier_payment",
                                    "purchase_bill", "purchase_bill", "purchase_bill",
                                    "receipt", "issue">>[d]]
SettlementParty == [d \in Docs |-> IF d = 5 THEN "other" ELSE "party"]
SettlementInputs == [d \in Docs |-> <<{In(1, 7, -1)}, {In(1, 5, 0)}, {In(2, 4, 1)}, {In(1, 6, 0)},
                                      {In(1, 3, 0)}, {In(1, 3, 0)}, {In(1, 2, 0)}>>[d]]

\* A foreign invoice, payment and credit note whose amounts do not convert
\* evenly.
FxSalesKind == [d \in Docs |-> <<"sales_invoice", "customer_payment", "sales_credit_note">>[d]]
FxInputs == [d \in Docs |-> <<{In(1, 5, 2)}, {In(1, 3, 0), In(2, 5, 0)}, {In(2, 5, -2)}>>[d]]

\* A bill settled in the month after its own.
CrossMonthKind == [d \in Docs |-> <<"purchase_bill", "supplier_payment">>[d]]
CrossMonthInputs == [d \in Docs |-> <<{In(1, 5, 2)}, {In(2, 5, 0)}>>[d]]

=============================================================================
