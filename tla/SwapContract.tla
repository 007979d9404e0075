---------------------------- MODULE SwapContract ----------------------------
(***************************************************************************)
(* What an atomic send promises the wallet, whoever drives it and whatever *)
(* happens in between: the money is locked, then either taken by a         *)
(* counterparty that has paid or returned; the books are closed only over  *)
(* money that is not locked any more, and never say "paid" of a payment    *)
(* that was not made or "unpaid" of one that was, or later is, made.       *)
(***************************************************************************)
VARIABLES
    lock,   \* "none", "locked", "taken" or "returned"
    paid,   \* the invoice has been paid
    book    \* "open", or closed as "paid", "unpaid" or "returned"

Init == lock = "none" /\ paid = FALSE /\ book = "open"

Lock == lock = "none" /\ book = "open" /\ lock' = "locked" /\ UNCHANGED <<paid, book>>

Pay == lock # "none" /\ book # "unpaid" /\ paid' = TRUE /\ UNCHANGED <<lock, book>>

Take == lock = "locked" /\ paid /\ lock' = "taken" /\ UNCHANGED <<paid, book>>

Return == lock = "locked" /\ lock' = "returned" /\ UNCHANGED <<paid, book>>

Close ==
    /\ book = "open" /\ lock # "locked"
    /\ \/ paid /\ book' = "paid"
       \/ ~paid /\ book' = "unpaid"
       \/ lock # "none" /\ book' = "returned"
    /\ UNCHANGED <<lock, paid>>

Next == Lock \/ Pay \/ Take \/ Return \/ Close

Spec == Init /\ [][Next]_<<lock, paid, book>>
=============================================================================
