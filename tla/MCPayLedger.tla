---------------------------- MODULE MCPayLedger -----------------------------
(***************************************************************************)
(* PayLedger for TLC: which request goes to which connection, for which    *)
(* invoice.                                                                *)
(***************************************************************************)
EXTENDS PayLedger

CONSTANTS e1, e2, e3, c1, c2, h1, h2, h3

\* Two requests for one invoice, and a third for another.
OneConn   == [e \in Events |-> c1]
TwinFirst == [e \in Events |-> IF e = e3 THEN h2 ELSE h1]
UnitPrice == [x \in Hashes |-> 1]

\* Two sub-dust invoices on one connection, a larger one on another.
ThirdApart == [e \in Events |-> IF e = e3 THEN c2 ELSE c1]
OwnHash    == [e \in Events |-> IF e = e1 THEN h1 ELSE IF e = e2 THEN h2 ELSE h3]

BudgetOne == [conn \in Conns |-> 1]
=============================================================================
