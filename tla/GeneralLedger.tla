---------------------------- MODULE GeneralLedger ----------------------------
(***************************************************************************)
(* What the general ledger promises whoever reads it, in terms of nothing  *)
(* but the entries: the book only grows; a transaction either records new  *)
(* facts, each in balance, or corrects recorded ones, each by its exact    *)
(* negation and each at most once, a correction never.                     *)
(***************************************************************************)
EXTENDS Integers, Sequences

CONSTANT BalancedLines \* the lines an entry may have

VARIABLE book          \* date, rate, lines of each entry, and what it reverses

Entries == 1..Len(book)
Added == (Len(book) + 1)..Len(book')

Corrected(e) == \E f \in Entries : book[f].reverses = e
Negated(lines) == [a \in DOMAIN lines |-> [amount |-> -lines[a].amount, base |-> -lines[a].base]]

Grows ==
    /\ Len(book') >= Len(book)
    /\ \A e \in Entries : book'[e] = book[e]

Record ==
    /\ Grows
    /\ \A f \in Added : book'[f].reverses = 0 /\ book'[f].lines \in BalancedLines

Correct ==
    /\ Grows
    /\ \A f \in Added : LET e == book'[f].reverses IN
          /\ e \in Entries /\ book[e].reverses = 0 /\ ~Corrected(e)
          /\ book'[f] = [book[e] EXCEPT !.lines = Negated(@), !.reverses = e]
          /\ \A g \in Added : book'[g].reverses = e => g = f

Init == book = <<>>
Next == Record \/ Correct
Spec == Init /\ [][Next]_book

==============================================================================
