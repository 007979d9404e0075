-------------------------- MODULE PayLedgerProofs ---------------------------
(***************************************************************************)
(* Proofs about PayLedger for any set of requests, connections, invoices,  *)
(* amounts and budgets.                                                    *)
(***************************************************************************)
EXTENDS PayLedger, FiniteSetTheorems, TLAPS

\* Each rail has its own invoices: a submarine swap is never for a sub-dust
\* one, an atomic swap always is.
RailInv ==
    /\ \A e \in Events : swap[e] # "none" => HashOf[e] \notin SubDust
    /\ \A x \in Hashes : book[x] # "none" => x \in SubDust

\* Whatever says "paid" is about an invoice Lightning has paid.
PaidInv ==
    /\ \A e \in Events : swap[e] = "paid" => paid[HashOf[e]]
    /\ \A x \in Hashes : book[x] = "claimed" => paid[x]
    /\ SettledWasPaid

\* A request without a row has no handler and no swap, and a handler that is
\* about to create its swap has none yet.
HandlerInv ==
    \A e \in Events :
        /\ row[e].state = "none" => pc[e] = "idle" /\ swap[e] = "none"
        /\ pc[e] = "sending" => swap[e] = "none"

\* Of the requests of one connection for one invoice one at most is pending.
OnePending ==
    \A e, f \in Events :
        (/\ e # f /\ ConnOf[e] = ConnOf[f] /\ HashOf[e] = HashOf[f]
         /\ row[e].state = "pending")
            => row[f].state # "pending"

\* A submarine swap that is, or may still get, funded has a pending row, if no
\* send throws while its swap lives on.
FlightInv ==
    "error" \notin Faults =>
        \A e \in Events :
            (/\ HashOf[e] \notin SubDust
             /\ \/ pc[e] = "sending"
                \/ pc[e] = "waiting" /\ swap[e] = "created"
                \/ swap[e] = "funded")
                => row[e].state = "pending"

IInv == TypeOK /\ RailInv /\ PaidInv /\ HandlerInv /\ OnePending /\ FlightInv

-----------------------------------------------------------------------------
\* The requests name connections and invoices of the ledger.
LEMMA Names ==
    ASSUME NEW e \in Events
    PROVE  ConnOf[e] \in Conns /\ HashOf[e] \in Hashes /\ Nominal(e) \in Nat
BY RequestsAssumption DEF Nominal

\* A row is replaced by r, the others stay.
LEMMA RowPut ==
    ASSUME row \in [Events -> RowType], NEW e \in Events, NEW r \in RowType,
           row' = [row EXCEPT ![e] = r]
    PROVE  /\ row' \in [Events -> RowType]
           /\ \A f \in Events : row'[f] = IF f = e THEN r ELSE row[f]
OBVIOUS

\* A request arrives: only Insert touches the ledger, and only if no request
\* for the same invoice is in flight.
LEMMA RequestKeeps ==
    ASSUME IInv, NEW e \in Events, Replay(e) \/ Refuse(e) \/ Insert(e)
    PROVE  IInv'
<1>1. CASE Replay(e)
  <2>1. paid[HashOf[e]]
    BY <1>1 DEF Replay, Replayable, SettledRows, IInv, PaidInv, SettledWasPaid
  <2> QED
    BY <1>1, <2>1 DEF Replay, Tell, IInv, TypeOK, RailInv, PaidInv, SettledWasPaid, HandlerInv,
                      OnePending, FlightInv, ledgerVars, swapVars
<1>2. CASE Refuse(e)
  BY <1>2 DEF Refuse, Tell, IInv, TypeOK, RailInv, PaidInv, SettledWasPaid, HandlerInv,
              OnePending, FlightInv, ledgerVars, swapVars
<1>3. CASE Insert(e)
  <2>1. \A f \in Events : (ConnOf[f] = ConnOf[e] /\ HashOf[f] = HashOf[e]) => row[f].state # "pending"
    BY <1>3 DEF Insert, Refused, InFlight, RowsOf
  <2>2. /\ row' \in [Events -> RowType]
        /\ \A f \in Events : row'[f].state = IF f = e THEN "pending" ELSE row[f].state
    <3> DEFINE r == [row[e] EXCEPT !.state = "pending", !.day = day]
    <3>1. row \in [Events -> RowType] /\ row[e] \in RowType /\ day \in 0..MaxDay
      BY DEF IInv, TypeOK
    <3>2. r \in RowType /\ r.state = "pending"
      BY <3>1 DEF RowType
    <3>3. row' = [row EXCEPT ![e] = r]
      BY <1>3 DEF Insert
    <3> HIDE DEF r
    <3> QED
      BY <3>1, <3>2, <3>3, RowPut
  <2>3. /\ pc' \in [Events -> {"idle", "sending", "waiting", "answering"}]
        /\ \A f \in Events : pc'[f] = IF f = e THEN "sending" ELSE pc[f]
    BY <1>3 DEF Insert, IInv, TypeOK
  <2>4. row[e].state = "none" /\ UNCHANGED <<spent, processed, told, swapVars, day>>
    BY <1>3 DEF Insert
  <2>5. TypeOK' /\ RailInv'
    BY <2>2, <2>3, <2>4 DEF IInv, TypeOK, RailInv, swapVars
  <2>6. PaidInv'
    BY <2>2, <2>4 DEF IInv, PaidInv, SettledWasPaid, swapVars
  <2>7. HandlerInv'
    BY <2>2, <2>3, <2>4 DEF IInv, HandlerInv, swapVars
  <2>8. OnePending'
    BY <2>1, <2>2 DEF IInv, OnePending
  <2>9. FlightInv'
    BY <2>2, <2>3, <2>4 DEF IInv, FlightInv, swapVars
  <2> QED
    BY <2>5, <2>6, <2>7, <2>8, <2>9 DEF IInv
<1> QED
  BY <1>1, <1>2, <1>3

-----------------------------------------------------------------------------
\* A block that closes the row of e, or leaves its state alone, keeps the
\* invariant if what it calls settled was paid, and if it does not close a row
\* over a submarine swap that is or may still get funded.
LEMMA CloseKeeps ==
    ASSUME IInv, TypeOK', NEW e \in Events,
           \A f \in Events : f # e => row'[f].state = row[f].state /\ pc'[f] = pc[f],
           row'[e].state \in {row[e].state, "settled", "failed"},
           row'[e].state = "settled" => row[e].state = "settled" \/ paid[HashOf[e]],
           \A f \in Events : "preimage" \in told'[f] =>
               "preimage" \in told[f] \/ (f = e /\ paid[HashOf[e]]),
           pc'[e] \in {pc[e], "answering"}, pc'[e] # pc[e] => row'[e].state # "none",
           swap' = swap, paid' = paid,
           \A x \in Hashes : /\ book'[x] = "claimed" => book[x] = "claimed" \/ paid[x]
                             /\ book'[x] # "none" => x \in SubDust,
           \/ "error" \in Faults \/ HashOf[e] \in SubDust \/ row'[e].state = row[e].state
           \/ swap[e] # "funded" /\ pc'[e] # "sending" /\ (pc'[e] = "waiting" => swap[e] # "created")
    PROVE  IInv'
<1>1. RailInv'
  BY DEF IInv, RailInv
<1>2. PaidInv'
  BY DEF IInv, PaidInv, SettledWasPaid
<1>3. HandlerInv'
  BY DEF IInv, HandlerInv
<1>4. OnePending'
  BY DEF IInv, OnePending
<1>5. FlightInv'
  BY DEF IInv, FlightInv
<1> QED
  BY <1>1, <1>2, <1>3, <1>4, <1>5 DEF IInv

\* The settle transaction of the handler, for an invoice that was paid.
LEMMA SettleKeeps ==
    ASSUME IInv, NEW e \in Events, NEW fee \in 0..MaxFee, Settle(e, fee),
           pc[e] = "waiting", paid[HashOf[e]],
           swap[e] = "paid" \/ HashOf[e] \in SubDust,
           bookPre' \in [Hashes -> BOOLEAN],
           book' \in [Hashes -> {"none", "open", "doomed", "claimed", "unpaid", "returned"}],
           \A x \in Hashes : /\ book'[x] = "claimed" => book[x] = "claimed" \/ paid[x]
                             /\ book'[x] # "none" => x \in SubDust
    PROVE  IInv'
<1> DEFINE r == [row[e] EXCEPT !.state = "settled", !.linked = TRUE, !.fees = fee, !.preimage = TRUE]
<1>1. row \in [Events -> RowType] /\ row[e] \in RowType
  BY DEF IInv, TypeOK
<1>2. r \in RowType /\ r.state = "settled"
  BY <1>1 DEF RowType
<1>3. row' = [row EXCEPT ![e] = r]
  BY DEF Settle
<1> HIDE DEF r
<1>4. row' \in [Events -> RowType] /\ \A f \in Events : row'[f] = IF f = e THEN r ELSE row[f]
  BY <1>1, <1>2, <1>3, RowPut
<1>5. /\ told' \in [Events -> SUBSET {"preimage", "error"}]
      /\ \A f \in Events : f # e => told'[f] = told[f]
  BY DEF Settle, Tell, IInv, TypeOK
<1>6. /\ pc' \in [Events -> {"idle", "sending", "waiting", "answering"}]
      /\ \A f \in Events : pc'[f] = IF f = e THEN "answering" ELSE pc[f]
  BY DEF Settle, IInv, TypeOK
<1>7. spent' \in [Conns -> Nat]
  <2>1. ConnOf[e] \in Conns /\ Nominal(e) \in Nat /\ fee \in Nat
    BY Names, LimitsAssumption
  <2> QED
    BY <2>1 DEF Settle, IInv, TypeOK
<1>8. UNCHANGED <<processed, swap, synced, paid, day>>
  BY DEF Settle
<1>9. TypeOK'
  BY <1>4, <1>5, <1>6, <1>7, <1>8 DEF IInv, TypeOK
<1> QED
  BY <1>2, <1>4, <1>5, <1>6, <1>8, <1>9, CloseKeeps

\* The catch of the handler. Without throws of live sends there is no funded
\* submarine swap behind it.
LEMMA FailKeeps ==
    ASSUME IInv, NEW e \in Events, Fail(e),
           pc[e] \in {"sending", "waiting"},
           "error" \in Faults \/ HashOf[e] \in SubDust \/ swap[e] # "funded",
           book' \in [Hashes -> {"none", "open", "doomed", "claimed", "unpaid", "returned"}],
           \A x \in Hashes : /\ book'[x] = "claimed" => book[x] = "claimed"
                             /\ book'[x] # "none" => x \in SubDust
    PROVE  IInv'
<1> DEFINE r == [row[e] EXCEPT !.state = "failed"]
<1>1. row \in [Events -> RowType] /\ row[e] \in RowType
  BY DEF IInv, TypeOK
<1>2. r \in RowType /\ r.state = "failed"
  BY <1>1 DEF RowType
<1>3. row' = [row EXCEPT ![e] = r]
  BY DEF Fail
<1> HIDE DEF r
<1>4. row' \in [Events -> RowType] /\ \A f \in Events : row'[f] = IF f = e THEN r ELSE row[f]
  BY <1>1, <1>2, <1>3, RowPut
<1>5. /\ told' \in [Events -> SUBSET {"preimage", "error"}]
      /\ \A f \in Events : "preimage" \in told'[f] => "preimage" \in told[f]
  BY DEF Fail, Tell, IInv, TypeOK
<1>6. /\ pc' \in [Events -> {"idle", "sending", "waiting", "answering"}]
      /\ \A f \in Events : pc'[f] = IF f = e THEN "answering" ELSE pc[f]
  BY DEF Fail, IInv, TypeOK
<1>8. UNCHANGED <<spent, processed, swap, synced, bookPre, paid, day>>
  BY DEF Fail
<1>9. TypeOK'
  BY <1>4, <1>5, <1>6, <1>8 DEF IInv, TypeOK
<1> QED
  BY <1>2, <1>4, <1>5, <1>6, <1>8, <1>9, CloseKeeps

-----------------------------------------------------------------------------
\* The handler creates and funds its swap, and answers.
LEMMA HandlerKeeps ==
    ASSUME IInv, NEW e \in Events, Handler(e)
    PROVE  IInv'
<1> USE DEF IInv
<1>n. ConnOf[e] \in Conns /\ HashOf[e] \in Hashes
  BY Names
<1>1. CASE SubmarineCreate(e)
  <2> DEFINE r == [row[e] EXCEPT !.linked = @ \/ row[e].state = "pending"]
  <2>1. row \in [Events -> RowType] /\ row[e] \in RowType
    BY DEF TypeOK
  <2>2. r \in RowType /\ r.state = row[e].state
    BY <2>1 DEF RowType
  <2>3. row' = [row EXCEPT ![e] = r]
    BY <1>1 DEF SubmarineCreate
  <2> HIDE DEF r
  <2>4. /\ row' \in [Events -> RowType]
        /\ \A f \in Events : row'[f].state = row[f].state
    BY <2>1, <2>2, <2>3, RowPut
  <2>5. /\ swap' \in [Events -> {"none", "created", "funded", "paid", "failed"}]
        /\ \A f \in Events : swap'[f] = IF f = e THEN "created" ELSE swap[f]
    BY <1>1 DEF SubmarineCreate, TypeOK
  <2>6. /\ pc' \in [Events -> {"idle", "sending", "waiting", "answering"}]
        /\ \A f \in Events : pc'[f] = IF f = e THEN "waiting" ELSE pc[f]
    BY <1>1 DEF SubmarineCreate, TypeOK
  <2>7. /\ pc[e] = "sending" /\ HashOf[e] \notin SubDust
        /\ UNCHANGED <<spent, processed, told, synced, book, bookPre, paid, day>>
    BY <1>1 DEF SubmarineCreate
  <2>8. TypeOK' /\ RailInv'
    BY <2>4, <2>5, <2>6, <2>7 DEF TypeOK, RailInv
  <2>9. PaidInv'
    BY <2>4, <2>5, <2>7 DEF PaidInv, SettledWasPaid
  <2>10. HandlerInv' /\ OnePending'
    BY <2>4, <2>5, <2>6, <2>7 DEF HandlerInv, OnePending
  <2>11. FlightInv'
    BY <2>4, <2>5, <2>6, <2>7 DEF FlightInv
  <2> QED
    BY <2>8, <2>9, <2>10, <2>11
<1>2. CASE SubmarineFund(e)
  <2>1. /\ swap' \in [Events -> {"none", "created", "funded", "paid", "failed"}]
        /\ \A f \in Events : swap'[f] = IF f = e THEN "funded" ELSE swap[f]
    BY <1>2 DEF SubmarineFund, TypeOK
  <2>2. /\ pc[e] = "waiting" /\ swap[e] = "created"
        /\ UNCHANGED <<ledgerVars, reqVars, synced, book, bookPre, paid, day>>
    BY <1>2 DEF SubmarineFund
  <2>3. TypeOK' /\ RailInv'
    BY <2>1, <2>2 DEF TypeOK, RailInv, ledgerVars, reqVars
  <2>4. PaidInv' /\ HandlerInv' /\ OnePending'
    BY <2>1, <2>2 DEF PaidInv, SettledWasPaid, HandlerInv, OnePending, ledgerVars, reqVars
  <2>5. FlightInv'
    BY <2>1, <2>2 DEF FlightInv, ledgerVars, reqVars, RailInv
  <2> QED
    BY <2>3, <2>4, <2>5
<1>3. CASE AtomicCreate(e)
  <2>1. /\ book' \in [Hashes -> {"none", "open", "doomed", "claimed", "unpaid", "returned"}]
        /\ \A x \in Hashes : book'[x] = IF x = HashOf[e] THEN "open" ELSE book[x]
    BY <1>3, <1>n DEF AtomicCreate, TypeOK
  <2>2. /\ pc' \in [Events -> {"idle", "sending", "waiting", "answering"}]
        /\ \A f \in Events : pc'[f] = IF f = e THEN "waiting" ELSE pc[f]
    BY <1>3 DEF AtomicCreate, TypeOK
  <2>3. /\ pc[e] = "sending" /\ HashOf[e] \in SubDust
        /\ UNCHANGED <<ledgerVars, processed, told, swap, synced, bookPre, paid, day>>
    BY <1>3 DEF AtomicCreate
  <2>4. TypeOK' /\ RailInv'
    BY <2>1, <2>2, <2>3 DEF TypeOK, RailInv, ledgerVars
  <2>5. PaidInv' /\ HandlerInv' /\ OnePending'
    BY <2>1, <2>2, <2>3 DEF PaidInv, SettledWasPaid, HandlerInv, OnePending, ledgerVars
  <2>6. FlightInv'
    BY <2>2, <2>3 DEF FlightInv, ledgerVars
  <2> QED
    BY <2>4, <2>5, <2>6
<1>4. CASE SubmarineReturns(e)
  <2>1. PICK fee \in 0..MaxFee : Settle(e, fee)
    BY <1>4 DEF SubmarineReturns
  <2>2. pc[e] = "waiting" /\ swap[e] = "paid" /\ UNCHANGED <<book, bookPre>>
    BY <1>4 DEF SubmarineReturns
  <2>3. paid[HashOf[e]]
    BY <2>2 DEF PaidInv
  <2>4. /\ bookPre' \in [Hashes -> BOOLEAN]
        /\ book' \in [Hashes -> {"none", "open", "doomed", "claimed", "unpaid", "returned"}]
        /\ \A x \in Hashes : /\ book'[x] = "claimed" => book[x] = "claimed" \/ paid[x]
                             /\ book'[x] # "none" => x \in SubDust
    BY <2>2 DEF TypeOK, RailInv
  <2> HIDE DEF IInv
  <2> QED
    BY <2>1, <2>2, <2>3, <2>4, SettleKeeps
<1>5. CASE AtomicReturns(e)
  <2>1. PICK fee \in 0..MaxFee : Settle(e, fee)
    BY <1>5 DEF AtomicReturns
  <2>2. pc[e] = "waiting" /\ HashOf[e] \in SubDust /\ paid[HashOf[e]]
    BY <1>5 DEF AtomicReturns
  <2>3. bookPre' \in [Hashes -> BOOLEAN]
    BY <1>5, <1>n DEF AtomicReturns, TypeOK
  <2>4. /\ book' \in [Hashes -> {"none", "open", "doomed", "claimed", "unpaid", "returned"}]
        /\ \A x \in Hashes : /\ book'[x] = "claimed" => book[x] = "claimed" \/ paid[x]
                             /\ book'[x] # "none" => x \in SubDust
    BY <1>5, <1>n, <2>2 DEF AtomicReturns, TypeOK, RailInv
  <2> HIDE DEF IInv
  <2> QED
    BY <2>1, <2>2, <2>3, <2>4, SettleKeeps
<1>6. CASE SendRejected(e)
  <2>1. Fail(e) /\ pc[e] = "sending" /\ book' = book /\ swap[e] = "none"
    BY <1>6 DEF SendRejected, HandlerInv
  <2>2. /\ book' \in [Hashes -> {"none", "open", "doomed", "claimed", "unpaid", "returned"}]
        /\ \A x \in Hashes : /\ book'[x] = "claimed" => book[x] = "claimed"
                             /\ book'[x] # "none" => x \in SubDust
    BY <2>1 DEF TypeOK, RailInv
  <2> HIDE DEF IInv
  <2> QED
    BY <2>1, <2>2, FailKeeps
<1>7. CASE SubmarineThrows(e)
  <2>1. /\ Fail(e) /\ pc[e] = "waiting" /\ book' = book
        /\ "error" \in Faults \/ swap[e] # "funded"
    BY <1>7 DEF SubmarineThrows
  <2>2. /\ book' \in [Hashes -> {"none", "open", "doomed", "claimed", "unpaid", "returned"}]
        /\ \A x \in Hashes : /\ book'[x] = "claimed" => book[x] = "claimed"
                             /\ book'[x] # "none" => x \in SubDust
    BY <2>1 DEF TypeOK, RailInv
  <2> HIDE DEF IInv
  <2> QED
    BY <2>1, <2>2, FailKeeps
<1>8. CASE AtomicThrows(e)
  <2>1. Fail(e) /\ pc[e] = "waiting" /\ HashOf[e] \in SubDust
    BY <1>8 DEF AtomicThrows
  <2>2. /\ book' \in [Hashes -> {"none", "open", "doomed", "claimed", "unpaid", "returned"}]
        /\ \A x \in Hashes : /\ book'[x] = "claimed" => book[x] = "claimed"
                             /\ book'[x] # "none" => x \in SubDust
    BY <1>8, <1>n, <2>1 DEF AtomicThrows, TypeOK, RailInv
  <2> HIDE DEF IInv
  <2> QED
    BY <2>1, <2>2, FailKeeps
<1>9. CASE Answer(e)
  <2>1. /\ pc' \in [Events -> {"idle", "sending", "waiting", "answering"}]
        /\ \A f \in Events : pc'[f] = IF f = e THEN "idle" ELSE pc[f]
        /\ processed' \subseteq Events
    BY <1>9 DEF Answer, TypeOK
  <2>2. UNCHANGED <<ledgerVars, told, swapVars, day>>
    BY <1>9 DEF Answer
  <2>3. TypeOK' /\ RailInv'
    BY <2>1, <2>2 DEF TypeOK, RailInv, ledgerVars, swapVars
  <2>4. PaidInv' /\ HandlerInv' /\ OnePending' /\ FlightInv'
    BY <2>1, <2>2 DEF PaidInv, SettledWasPaid, HandlerInv, OnePending, FlightInv, ledgerVars, swapVars
  <2> QED
    BY <2>3, <2>4
<1> QED
  BY <1>1, <1>2, <1>3, <1>4, <1>5, <1>6, <1>7, <1>8, <1>9 DEF Handler

-----------------------------------------------------------------------------
\* The listener and the reconcile pass settle only what was paid, and close no
\* row over a live swap.
LEMMA WritersKeep ==
    ASSUME IInv, NEW e \in Events, SdkSaves(e) \/ SwapTerminal(e) \/ ReconcileOutgoing(e)
    PROVE  IInv'
<1>n. ConnOf[e] \in Conns /\ HashOf[e] \in Hashes /\ Nominal(e) \in Nat
  BY Names
<1>0. row \in [Events -> RowType] /\ row[e] \in RowType
  BY DEF IInv, TypeOK
<1>s. CASE SdkSaves(e)
  <2>1. /\ synced' \in [Events -> {"no", "saved", "told", "bare", "lost"}]
        /\ UNCHANGED <<ledgerVars, reqVars, swap, book, bookPre, paid, day>>
    BY <1>s DEF SdkSaves, IInv, TypeOK
  <2> QED
    BY <2>1 DEF IInv, TypeOK, RailInv, PaidInv, SettledWasPaid, HandlerInv, OnePending, FlightInv,
                ledgerVars, reqVars
<1>1. CASE SwapTerminal(e)
  <2>p. PICK pre \in BOOLEAN :
            syncSwapToDb(e, IF swap[e] = "paid" THEN "settled" ELSE "failed", pre)
    BY <1>1 DEF SwapTerminal
  <2> DEFINE to == IF swap[e] = "paid" THEN "settled" ELSE "failed"
             hit == row[e].linked /\ row[e].state = "pending"
             r == [row[e] EXCEPT !.state = IF hit THEN to ELSE @,
                                 !.preimage = @ \/ (hit /\ pre)]
  <2>1. r \in RowType /\ r.state \in {row[e].state, to}
    BY <1>0 DEF RowType
  <2>2. row' = [row EXCEPT ![e] = r]
    BY <2>p DEF syncSwapToDb
  <2> HIDE DEF r
  <2>3. row' \in [Events -> RowType] /\ \A f \in Events : row'[f] = IF f = e THEN r ELSE row[f]
    BY <1>0, <2>1, <2>2, RowPut
  <2>4. /\ swap[e] \in {"paid", "failed"} /\ synced' \in [Events -> {"no", "saved", "told", "bare", "lost"}]
        /\ UNCHANGED <<spent, reqVars, swap, book, bookPre, paid, day>>
    BY <1>1 DEF SwapTerminal, IInv, TypeOK
  <2>5. TypeOK'
    BY <2>3, <2>4 DEF IInv, TypeOK, reqVars
  <2>6. swap[e] = "paid" => paid[HashOf[e]]
    BY DEF IInv, PaidInv
  <2>7. pc[e] # "sending"
    BY <2>4 DEF IInv, HandlerInv
  <2>8. \A x \in Hashes : book[x] # "none" => x \in SubDust
    BY DEF IInv, RailInv
  <2> QED
    BY <2>1, <2>3, <2>4, <2>5, <2>6, <2>7, <2>8, CloseKeeps DEF reqVars
<1>2. CASE ReconcileOutgoing(e)
  <2>1. /\ book[HashOf[e]] \in {"claimed", "unpaid", "returned"}
        /\ UNCHANGED <<reqVars, swapVars, day>>
    BY <1>2 DEF ReconcileOutgoing
  <2>2. HashOf[e] \in SubDust /\ \A x \in Hashes : book[x] # "none" => x \in SubDust
    BY <1>n, <2>1 DEF IInv, RailInv
  <2>3. spent' \in [Conns -> Nat]
    BY <1>2, <1>n DEF ReconcileOutgoing, IInv, TypeOK
  <2>4. /\ row' \in [Events -> RowType]
        /\ \A f \in Events : f # e => row'[f] = row[f]
        /\ \/ row'[e].state = "settled" /\ book[HashOf[e]] = "claimed"
           \/ row'[e].state = "failed"
    <3>1. CASE book[HashOf[e]] = "claimed"
      <4> DEFINE r == [row[e] EXCEPT !.state = "settled", !.preimage = @ \/ bookPre[HashOf[e]]]
      <4>1. r \in RowType /\ r.state = "settled"
        BY <1>0 DEF RowType
      <4>2. row' = [row EXCEPT ![e] = r]
        BY <1>2, <3>1 DEF ReconcileOutgoing
      <4> HIDE DEF r
      <4> QED
        BY <1>0, <3>1, <4>1, <4>2, RowPut
    <3>2. CASE book[HashOf[e]] # "claimed"
      <4> DEFINE r == [row[e] EXCEPT !.state = "failed"]
      <4>1. r \in RowType /\ r.state = "failed"
        BY <1>0 DEF RowType
      <4>2. row' = [row EXCEPT ![e] = r]
        BY <1>2, <3>2 DEF ReconcileOutgoing
      <4> HIDE DEF r
      <4> QED
        BY <1>0, <4>1, <4>2, RowPut
    <3> QED
      BY <3>1, <3>2
  <2>5. book[HashOf[e]] = "claimed" => paid[HashOf[e]]
    BY <1>n DEF IInv, PaidInv
  <2>6. TypeOK'
    BY <2>1, <2>3, <2>4 DEF IInv, TypeOK, reqVars, swapVars
  <2> QED
    BY <2>1, <2>2, <2>4, <2>5, <2>6, CloseKeeps DEF reqVars, swapVars
<1> QED
  BY <1>s, <1>1, <1>2

\* What happens outside the bridge, the clock, and a crash.
LEMMA OutsideKeeps ==
    ASSUME IInv,
           \/ \E e \in Events : SwapFails(e)
           \/ \E x \in Hashes : Pays(x) \/ BookCloses(x)
           \/ NewDay \/ Crash
    PROVE  IInv'
<1> USE DEF IInv
<1>1. CASE \E e \in Events : SwapFails(e)
  <2>1. PICK e \in Events : SwapFails(e)
    BY <1>1
  <2>2. /\ swap' \in [Events -> {"none", "created", "funded", "paid", "failed"}]
        /\ \A f \in Events : swap'[f] = IF f = e THEN "failed" ELSE swap[f]
        /\ swap[e] \in {"created", "funded"}
    BY <2>1 DEF SwapFails, TypeOK
  <2>3. UNCHANGED <<ledgerVars, reqVars, synced, book, bookPre, paid, day>>
    BY <2>1 DEF SwapFails
  <2>4. TypeOK' /\ RailInv'
    BY <2>2, <2>3 DEF TypeOK, RailInv, ledgerVars, reqVars
  <2>5. PaidInv' /\ HandlerInv' /\ OnePending' /\ FlightInv'
    BY <2>2, <2>3 DEF PaidInv, SettledWasPaid, HandlerInv, OnePending, FlightInv, ledgerVars, reqVars
  <2> QED
    BY <2>4, <2>5
<1>2. CASE \E x \in Hashes : Pays(x)
  <2>1. PICK x \in Hashes : Pays(x)
    BY <1>2
  <2>2. paid' \in [Hashes -> BOOLEAN]
    BY <2>1 DEF Pays, TypeOK
  <2>3. paid'[x] /\ \A y \in Hashes : paid[y] => paid'[y]
    BY <2>1 DEF Pays, TypeOK
  <2>4. /\ swap' \in [Events -> {"none", "created", "funded", "paid", "failed"}]
        /\ \A f \in Events : \/ swap'[f] = swap[f]
                             \/ HashOf[f] = x /\ swap[f] = "funded" /\ swap'[f] = "paid"
    BY <2>1 DEF Pays, TypeOK
  <2>5. UNCHANGED <<ledgerVars, reqVars, synced, book, bookPre, day>>
    BY <2>1 DEF Pays
  <2>6. TypeOK' /\ RailInv'
    BY <2>2, <2>4, <2>5 DEF TypeOK, RailInv, ledgerVars, reqVars
  <2>7. PaidInv'
    BY <2>3, <2>4, <2>5, Names DEF PaidInv, SettledWasPaid, ledgerVars, reqVars
  <2>8. HandlerInv' /\ OnePending' /\ FlightInv'
    BY <2>4, <2>5 DEF HandlerInv, OnePending, FlightInv, ledgerVars, reqVars
  <2> QED
    BY <2>6, <2>7, <2>8
<1>3. CASE \E x \in Hashes : BookCloses(x)
  <2>1. PICK x \in Hashes : BookCloses(x)
    BY <1>3
  <2>2. /\ book' \in [Hashes -> {"none", "open", "doomed", "claimed", "unpaid", "returned"}]
        /\ \A y \in Hashes : \/ book'[y] = book[y]
                             \/ /\ y = x /\ book[x] # "none"
                                /\ book'[x] = "claimed" => paid[x]
    BY <2>1 DEF BookCloses, TypeOK
  <2>3. bookPre' \in [Hashes -> BOOLEAN]
    BY <2>1 DEF BookCloses, TypeOK
  <2>4. UNCHANGED <<ledgerVars, reqVars, swap, synced, paid, day>>
    BY <2>1 DEF BookCloses
  <2>5. TypeOK' /\ RailInv'
    BY <2>2, <2>3, <2>4 DEF TypeOK, RailInv, ledgerVars, reqVars
  <2>6. PaidInv' /\ HandlerInv' /\ OnePending' /\ FlightInv'
    BY <2>2, <2>4 DEF PaidInv, SettledWasPaid, HandlerInv, OnePending, FlightInv, ledgerVars, reqVars
  <2> QED
    BY <2>5, <2>6
<1>4. CASE NewDay
  <2>1. day' \in 0..MaxDay
    BY <1>4, LimitsAssumption DEF NewDay, TypeOK
  <2>2. UNCHANGED <<ledgerVars, reqVars, swapVars>>
    BY <1>4 DEF NewDay
  <2> QED
    BY <2>1, <2>2 DEF TypeOK, RailInv, PaidInv, SettledWasPaid, HandlerInv, OnePending, FlightInv,
                      ledgerVars, reqVars, swapVars
<1>5. CASE Crash
  <2>1. /\ pc' = [e \in Events |-> "idle"]
        /\ synced' \in [Events -> {"no", "saved", "told", "bare", "lost"}]
        /\ UNCHANGED <<ledgerVars, processed, told, swap, bookPre, paid, day>>
    BY <1>5 DEF Crash, TypeOK
  <2>2. /\ book' \in [Hashes -> {"none", "open", "doomed", "claimed", "unpaid", "returned"}]
        /\ \A y \in Hashes : \/ book'[y] = book[y]
                             \/ y \in SubDust /\ paid[y]
    BY <1>5, Names DEF Crash, TypeOK
  <2>3. TypeOK' /\ RailInv'
    BY <2>1, <2>2 DEF TypeOK, RailInv, ledgerVars
  <2>4. PaidInv' /\ HandlerInv' /\ OnePending' /\ FlightInv'
    BY <2>1, <2>2 DEF PaidInv, SettledWasPaid, HandlerInv, OnePending, FlightInv, ledgerVars
  <2> QED
    BY <2>3, <2>4
<1> QED
  BY <1>1, <1>2, <1>3, <1>4, <1>5

-----------------------------------------------------------------------------
\* The inductive invariant, for any requests, budgets and faults.
THEOREM PayLedgerInvariance == Spec => []IInv
<1>1. Init => IInv
  <2> SUFFICES ASSUME Init PROVE IInv
    OBVIOUS
  <2>1. MaxFee \in Nat /\ MaxDay \in Nat
    BY LimitsAssumption
  <2>2. NoRow \in RowType
    BY <2>1 DEF NoRow, RowType
  <2>3. row \in [Events -> RowType] /\ day \in 0..MaxDay
    BY <2>1, <2>2 DEF Init
  <2> QED
    BY <2>3 DEF Init, NoRow, IInv, TypeOK, RailInv, PaidInv, SettledWasPaid, HandlerInv,
                      OnePending, FlightInv
<1>2. IInv /\ [Next]_vars => IInv'
  <2> SUFFICES ASSUME IInv, [Next]_vars PROVE IInv'
    OBVIOUS
  <2>1. CASE Next
    BY <2>1, RequestKeeps, HandlerKeeps, WritersKeep, OutsideKeeps DEF Next
  <2>2. CASE UNCHANGED vars
    BY <2>2 DEF vars, ledgerVars, reqVars, swapVars, IInv, TypeOK, RailInv, PaidInv,
                SettledWasPaid, HandlerInv, OnePending, FlightInv
  <2> QED
    BY <2>1, <2>2
<1> QED
  BY <1>1, <1>2, PTL DEF Spec

\* Every variable of the ledger keeps its type.
THEOREM PayLedgerTypeCorrect == Spec => []TypeOK
BY PayLedgerInvariance, PTL DEF IInv

\* Whichever of the three writers settles a row, and whatever preimage a client
\* is handed, the invoice is paid.
THEOREM SettledIsPaid == Spec => []SettledWasPaid
BY PayLedgerInvariance, PTL DEF IInv, PaidInv

\* If no send throws while its swap lives on, a connection never has two funded
\* swaps for one invoice, with any number of redeliveries and crashes.
THEOREM OneSwapAtATime ==
    ASSUME "error" \notin Faults
    PROVE  Spec => []OneFundedSwap
<1>1. IInv => OneFundedSwap
  BY DEF IInv, RailInv, FlightInv, OnePending, OneFundedSwap
<1> QED
  BY <1>1, PayLedgerInvariance, PTL

-----------------------------------------------------------------------------
(* What the handlers know of their rows, and what a step does to a row.    *)

\* A row without a settlement has no fee.
FeesInv == \A e \in Events : row[e].state \in {"none", "pending"} => row[e].fees = 0

\* The row of a handler that is about to create its swap is pending, unless
\* another request has opened the atomic swap of the invoice.
SendingInv ==
    \A e \in Events :
        (/\ pc[e] = "sending"
         /\ HashOf[e] \in SubDust => book[HashOf[e]] = "none")
            => row[e].state = "pending"

\* The row of a handler that waits for its swap is pending, unless the listener
\* was there first; an atomic swap is open and has one waiting handler.
WaitingInv ==
    \A e \in Events : pc[e] = "waiting" =>
        IF HashOf[e] \in SubDust
        THEN /\ book[HashOf[e]] = "open" /\ row[e].state = "pending"
             /\ \A f \in Events : (f # e /\ HashOf[f] = HashOf[e]) => pc[f] # "waiting"
        ELSE row[e].state \in {"pending", "settled"} \/ swap[e] = "failed"

\* The rows the submarine rail settles can be replayed, unless the listener was
\* told of the payment without its preimage.
ReplayInv ==
    \A e \in Events : (row[e].state = "settled" /\ HashOf[e] \notin SubDust)
                          => row[e].preimage \/ synced[e] = "bare"

SendInv == FeesInv /\ SendingInv /\ WaitingInv /\ ReplayInv

\* Only the row and the handler of e may change.
OthersStay(e) == \A f \in Events : f # e => row'[f] = row[f] /\ pc'[f] = pc[f]

\* The block that inserts the row of e.
LEMMA InsertRow ==
    ASSUME TypeOK, NEW e \in Events, Insert(e)
    PROVE  /\ OthersStay(e) /\ pc'[e] = "sending"
           /\ row'[e].state = "pending" /\ row'[e].day = day
           /\ row'[e].fees = row[e].fees
<1>1. row[e] \in RowType
  BY DEF TypeOK
<1>2. row' = [row EXCEPT ![e] = [row[e] EXCEPT !.state = "pending", !.day = day]]
  BY DEF Insert
<1> QED
  BY <1>1, <1>2 DEF Insert, OthersStay, TypeOK, RowType

\* onSwapCreated writes the swap id only.
LEMMA CreateRow ==
    ASSUME TypeOK, NEW e \in Events, SubmarineCreate(e)
    PROVE  /\ OthersStay(e) /\ pc'[e] = "waiting"
           /\ row'[e].state = row[e].state /\ row'[e].fees = row[e].fees
           /\ row'[e].preimage = row[e].preimage /\ row'[e].day = row[e].day
<1>1. row[e] \in RowType
  BY DEF TypeOK
<1>2. row' = [row EXCEPT ![e] = [row[e] EXCEPT !.linked = row[e].linked \/ row[e].state = "pending"]]
  BY DEF SubmarineCreate
<1> QED
  BY <1>1, <1>2 DEF SubmarineCreate, OthersStay, TypeOK, RowType

\* The settle transaction.
LEMMA SettleRow ==
    ASSUME TypeOK, NEW e \in Events, NEW fee \in 0..MaxFee, Settle(e, fee)
    PROVE  /\ OthersStay(e) /\ pc'[e] = "answering"
           /\ row'[e].state = "settled" /\ row'[e].fees = fee
           /\ row'[e].preimage /\ row'[e].day = row[e].day
<1>1. row[e] \in RowType
  BY DEF TypeOK
<1>2. row' = [row EXCEPT ![e] = [row[e] EXCEPT !.state = "settled", !.linked = TRUE,
                                               !.fees = fee, !.preimage = TRUE]]
  BY DEF Settle
<1> QED
  BY <1>1, <1>2 DEF Settle, OthersStay, TypeOK, RowType

\* The catch.
LEMMA FailRow ==
    ASSUME TypeOK, NEW e \in Events, Fail(e)
    PROVE  /\ OthersStay(e) /\ pc'[e] = "answering"
           /\ row'[e].state = "failed"
<1>1. row[e] \in RowType
  BY DEF TypeOK
<1>2. row' = [row EXCEPT ![e] = [row[e] EXCEPT !.state = "failed"]]
  BY DEF Fail
<1> QED
  BY <1>1, <1>2 DEF Fail, OthersStay, TypeOK, RowType

\* A report without a preimage is not taken back.
BareKept == \A e \in Events : synced[e] = "bare" => synced'[e] = "bare"

LEMMA BareStays ==
    ASSUME TypeOK, [Next]_vars
    PROVE  BareKept
<1>1. ASSUME NEW e \in Events, SdkSaves(e) \/ SwapTerminal(e) PROVE BareKept
  BY <1>1 DEF BareKept, SdkSaves, SwapTerminal, TypeOK
<1>2. CASE Crash
  BY <1>2 DEF BareKept, Crash
<1>3. CASE UNCHANGED synced
  BY <1>3 DEF BareKept
<1> QED
  BY <1>1, <1>2, <1>3 DEF Next, Handler, Replay, Refuse, Insert, SubmarineCreate, SubmarineFund,
     AtomicCreate, SubmarineReturns, AtomicReturns, Settle, SendRejected, SubmarineThrows,
     AtomicThrows, Fail, Answer, ReconcileOutgoing, SwapFails, Pays, BookCloses, NewDay, vars, swapVars

\* The listener closes a pending row or leaves the row as it is.
LEMMA TerminalRow ==
    ASSUME TypeOK, NEW e \in Events, SwapTerminal(e)
    PROVE  /\ OthersStay(e) /\ pc' = pc
           /\ row'[e].fees = row[e].fees /\ row'[e].day = row[e].day
           /\ \/ row'[e].state = row[e].state /\ row'[e].preimage = row[e].preimage
              \/ /\ row[e].state = "pending" /\ swap[e] = "paid"
                 /\ row'[e].state = "settled"
                 /\ row'[e].preimage \/ synced'[e] = "bare"
              \/ /\ row[e].state = "pending" /\ swap[e] = "failed"
                 /\ row'[e].state = "failed"
<1> DEFINE to == IF swap[e] = "paid" THEN "settled" ELSE "failed"
           hit == row[e].linked /\ row[e].state = "pending"
<1>1. row[e] \in RowType /\ synced \in [Events -> {"no", "saved", "told", "bare", "lost"}]
  BY DEF TypeOK
<1>p. PICK pre \in BOOLEAN :
         /\ syncSwapToDb(e, to, pre)
         /\ synced' = [synced EXCEPT ![e] = IF swap[e] = "paid" /\ ~pre THEN "bare" ELSE "told"]
  BY DEF SwapTerminal
<1>2. row' = [row EXCEPT ![e] = [row[e] EXCEPT
                 !.state = IF hit THEN to ELSE row[e].state,
                 !.preimage = row[e].preimage \/ (hit /\ pre)]]
  BY <1>p DEF syncSwapToDb
<1>b. swap[e] = "paid" => pre \/ synced'[e] = "bare"
  BY <1>1, <1>p
<1>3. pc' = pc /\ swap[e] \in {"paid", "failed"} /\ row \in [Events -> RowType]
  BY DEF SwapTerminal, reqVars, TypeOK
<1>4. OthersStay(e)
  BY <1>2, <1>3 DEF OthersStay
<1>5. /\ row'[e].state = IF hit THEN to ELSE row[e].state
      /\ row'[e].preimage = (row[e].preimage \/ (hit /\ pre))
      /\ row'[e].fees = row[e].fees /\ row'[e].day = row[e].day
  BY <1>1, <1>2, <1>3 DEF RowType
<1>6. CASE hit
  BY <1>3, <1>4, <1>5, <1>6, <1>b
<1>7. CASE ~hit
  <2>1. row'[e].preimage = row[e].preimage
    BY <1>1, <1>5, <1>7 DEF RowType
  <2> QED
    BY <1>3, <1>4, <1>5, <1>7, <2>1
<1> QED
  BY <1>6, <1>7

\* The reconcile pass settles and charges a pending row, or fails it.
LEMMA ReconcileRow ==
    ASSUME TypeOK, NEW e \in Events, ReconcileOutgoing(e)
    PROVE  /\ OthersStay(e) /\ pc' = pc /\ row[e].state = "pending"
           /\ row'[e].fees = row[e].fees /\ row'[e].day = row[e].day
           /\ \/ /\ row'[e].state = "settled" /\ book[HashOf[e]] = "claimed"
                 /\ spent' = [spent EXCEPT ![ConnOf[e]] = @ + Nominal(e)]
              \/ /\ row'[e].state = "failed" /\ book[HashOf[e]] \in {"unpaid", "returned"}
                 /\ spent' = spent
<1>1. row[e] \in RowType
  BY DEF TypeOK
<1>2. pc' = pc /\ row[e].state = "pending" /\ row \in [Events -> RowType]
  BY DEF ReconcileOutgoing, reqVars, TypeOK
<1>3. CASE /\ book[HashOf[e]] = "claimed"
           /\ row' = [row EXCEPT ![e] = [row[e] EXCEPT !.state = "settled",
                                            !.preimage = row[e].preimage \/ bookPre[HashOf[e]]]]
           /\ spent' = [spent EXCEPT ![ConnOf[e]] = @ + Nominal(e)]
  BY <1>1, <1>2, <1>3 DEF OthersStay, RowType
<1>4. CASE /\ book[HashOf[e]] \in {"unpaid", "returned"}
           /\ row' = [row EXCEPT ![e] = [row[e] EXCEPT !.state = "failed"]]
           /\ spent' = spent
  BY <1>1, <1>2, <1>4 DEF OthersStay, RowType
<1> QED
  BY <1>3, <1>4 DEF ReconcileOutgoing

-----------------------------------------------------------------------------
\* A step that leaves the rows alone.
LEMMA SendInvQuiet ==
    ASSUME SendInv, row' = row, BareKept,
           \A e \in Events : pc'[e] # pc[e] => pc'[e] \in {"idle", "answering"},
           \A e \in Events : swap[e] = "failed" => swap'[e] = "failed",
           \A x \in Hashes : book'[x] = "none" => book[x] = "none",
           \A e \in Events : pc'[e] = "waiting" => book'[HashOf[e]] = book[HashOf[e]]
    PROVE  SendInv'
<1>1. FeesInv' /\ ReplayInv'
  BY DEF SendInv, FeesInv, ReplayInv, BareKept
<1>2. SendingInv'
  BY Names DEF SendInv, SendingInv
<1>3. WaitingInv'
  BY DEF SendInv, WaitingInv
<1> QED
  BY <1>1, <1>2, <1>3 DEF SendInv

\* A step that closes the row of e, and lets no other handler of an atomic swap
\* wait for what it changes.
LEMMA SendInvClose ==
    ASSUME SendInv, NEW e \in Events, OthersStay(e), swap' = swap, BareKept,
           pc'[e] \in {pc[e], "answering"}, pc'[e] # "sending",
           row'[e].state \in {"settled", "failed"},
           row'[e].state = "settled" /\ HashOf[e] \notin SubDust
               => row'[e].preimage \/ synced'[e] = "bare",
           pc'[e] = "waiting" => /\ HashOf[e] \notin SubDust
                                 /\ row'[e].state = "settled" \/ swap[e] = "failed",
           \A x \in Hashes : x # HashOf[e] => book'[x] = book[x],
           book'[HashOf[e]] = "none" => book[HashOf[e]] = "none",
           book' = book \/ pc[e] = "waiting"
    PROVE  SendInv'
<1>0. \A f \in Events : HashOf[f] \in Hashes
  BY Names
<1>1. FeesInv' /\ ReplayInv'
  BY DEF SendInv, FeesInv, ReplayInv, OthersStay, BareKept
<1>2. SendingInv'
  BY <1>0 DEF SendInv, SendingInv, OthersStay
<1>3. WaitingInv'
  <2> SUFFICES ASSUME NEW g \in Events, pc'[g] = "waiting"
               PROVE  IF HashOf[g] \in SubDust
                      THEN /\ book'[HashOf[g]] = "open" /\ row'[g].state = "pending"
                           /\ \A f \in Events :
                                 (f # g /\ HashOf[f] = HashOf[g]) => pc'[f] # "waiting"
                      ELSE row'[g].state \in {"pending", "settled"} \/ swap'[g] = "failed"
    BY DEF WaitingInv
  <2>1. CASE g = e
    BY <2>1
  <2>2. CASE g # e
    <3>1. pc[g] = "waiting" /\ row'[g] = row[g]
      BY <2>2 DEF OthersStay
    <3>2. CASE HashOf[g] \in SubDust
      <4>1. /\ book[HashOf[g]] = "open" /\ row[g].state = "pending"
            /\ \A f \in Events : (f # g /\ HashOf[f] = HashOf[g]) => pc[f] # "waiting"
        BY <3>1, <3>2 DEF SendInv, WaitingInv
      <4>2. book'[HashOf[g]] = book[HashOf[g]]
        BY <1>0, <2>2, <4>1
      <4>3. \A f \in Events : (f # g /\ HashOf[f] = HashOf[g]) => pc'[f] # "waiting"
        BY <4>1, <3>2 DEF OthersStay
      <4> QED
        BY <3>1, <3>2, <4>1, <4>2, <4>3
    <3>3. CASE HashOf[g] \notin SubDust
      BY <3>1, <3>3 DEF SendInv, WaitingInv
    <3> QED
      BY <3>2, <3>3
  <2> QED
    BY <2>1, <2>2
<1> QED
  BY <1>1, <1>2, <1>3 DEF SendInv

\* A request and a handler that creates, funds or answers.
LEMMA SendInvHandler ==
    ASSUME IInv, SendInv, NEW e \in Events,
           Replay(e) \/ Refuse(e) \/ Insert(e) \/ Handler(e)
    PROVE  SendInv'
<1>t. TypeOK
  BY DEF IInv
<1>b. BareKept
  BY <1>t, BareStays DEF Next
<1>n. HashOf[e] \in Hashes
  BY Names
<1>1. CASE Replay(e) \/ Refuse(e)
  BY <1>1, <1>b, SendInvQuiet DEF Replay, Refuse, ledgerVars, swapVars
<1>2. CASE Insert(e)
  <2>1. row[e].state = "none" /\ pc[e] = "idle" /\ swap' = swap /\ book' = book
    BY <1>2 DEF Insert, swapVars, IInv, HandlerInv
  <2>2. /\ OthersStay(e) /\ pc'[e] = "sending" /\ row'[e].state = "pending"
        /\ row'[e].fees = row[e].fees
    BY <1>2, <1>t, InsertRow
  <2>3. FeesInv' /\ ReplayInv'
    BY <2>1, <2>2, <1>b DEF SendInv, FeesInv, ReplayInv, BareKept, OthersStay
  <2>4. SendingInv'
    BY <2>1, <2>2 DEF SendInv, SendingInv, OthersStay
  <2>5. WaitingInv'
    BY <2>1, <2>2 DEF SendInv, WaitingInv, OthersStay
  <2> QED
    BY <2>3, <2>4, <2>5 DEF SendInv
<1>3. CASE SubmarineCreate(e)
  <2>1. /\ pc[e] = "sending" /\ HashOf[e] \notin SubDust /\ book' = book
        /\ \A f \in Events : f # e => swap'[f] = swap[f]
    BY <1>3, <1>t DEF SubmarineCreate, TypeOK
  <2>2. /\ OthersStay(e) /\ pc'[e] = "waiting"
        /\ row'[e].state = row[e].state /\ row'[e].fees = row[e].fees
        /\ row'[e].preimage = row[e].preimage
    BY <1>3, <1>t, CreateRow
  <2>3. row[e].state = "pending"
    BY <2>1 DEF SendInv, SendingInv
  <2>4. FeesInv' /\ ReplayInv'
    BY <2>2, <2>3, <1>b DEF SendInv, FeesInv, ReplayInv, BareKept, OthersStay
  <2>5. SendingInv'
    BY <2>1, <2>2 DEF SendInv, SendingInv, OthersStay
  <2>6. WaitingInv'
    BY <2>1, <2>2, <2>3 DEF SendInv, WaitingInv, OthersStay
  <2> QED
    BY <2>4, <2>5, <2>6 DEF SendInv
<1>4. CASE SubmarineFund(e)
  <2>1. /\ row' = row /\ pc' = pc /\ book' = book
        /\ \A f \in Events : swap[f] = "failed" => swap'[f] = "failed"
    BY <1>4, <1>t DEF SubmarineFund, ledgerVars, reqVars, TypeOK
  <2> QED
    BY <2>1, <1>b, SendInvQuiet
<1>5. CASE AtomicCreate(e)
  <2>1. /\ pc[e] = "sending" /\ HashOf[e] \in SubDust /\ book[HashOf[e]] = "none"
        /\ row' = row /\ swap' = swap
        /\ \A x \in Hashes : book'[x] = IF x = HashOf[e] THEN "open" ELSE book[x]
        /\ \A f \in Events : pc'[f] = IF f = e THEN "waiting" ELSE pc[f]
    BY <1>5, <1>t, <1>n DEF AtomicCreate, ledgerVars, TypeOK
  <2>2. row[e].state = "pending"
    BY <2>1 DEF SendInv, SendingInv
  <2>3. \A f \in Events : HashOf[f] = HashOf[e] => pc[f] # "waiting"
    BY <2>1 DEF SendInv, WaitingInv
  <2>4. FeesInv' /\ ReplayInv'
    BY <2>1, <1>b DEF SendInv, FeesInv, ReplayInv, BareKept
  <2>5. SendingInv'
    BY <2>1, Names DEF SendInv, SendingInv
  <2>6. WaitingInv'
    BY <2>1, <2>2, <2>3, Names DEF SendInv, WaitingInv
  <2> QED
    BY <2>4, <2>5, <2>6 DEF SendInv
<1>6. CASE SubmarineReturns(e) \/ AtomicReturns(e)
  <2>1. PICK fee \in 0..MaxFee : Settle(e, fee)
    BY <1>6 DEF SubmarineReturns, AtomicReturns
  <2>2. /\ pc[e] = "waiting" /\ swap' = swap
        /\ \A x \in Hashes : x # HashOf[e] => book'[x] = book[x]
        /\ book'[HashOf[e]] = "none" => book[HashOf[e]] = "none"
    BY <1>6, <2>1, <1>t, <1>n DEF SubmarineReturns, AtomicReturns, Settle, TypeOK
  <2>3. /\ OthersStay(e) /\ pc'[e] = "answering" /\ row'[e].state = "settled" /\ row'[e].preimage
    BY <2>1, <1>t, SettleRow
  <2> QED
    BY <2>2, <2>3, <1>b, SendInvClose
<1>7. CASE SendRejected(e) \/ SubmarineThrows(e) \/ AtomicThrows(e)
  <2>1. /\ Fail(e) /\ swap' = swap
        /\ \A x \in Hashes : x # HashOf[e] => book'[x] = book[x]
        /\ book'[HashOf[e]] = "none" => book[HashOf[e]] = "none"
        /\ book' = book \/ pc[e] = "waiting"
    BY <1>7, <1>t, <1>n DEF SendRejected, SubmarineThrows, AtomicThrows, Fail, TypeOK
  <2>2. OthersStay(e) /\ pc'[e] = "answering" /\ row'[e].state = "failed"
    BY <2>1, <1>t, FailRow
  <2> QED
    BY <2>1, <2>2, <1>b, SendInvClose
<1>8. CASE Answer(e)
  <2>1. /\ row' = row /\ swap' = swap /\ book' = book
        /\ \A f \in Events : pc'[f] # pc[f] => pc'[f] = "idle"
    BY <1>8, <1>t DEF Answer, ledgerVars, swapVars, TypeOK
  <2> QED
    BY <2>1, <1>b, SendInvQuiet
<1> QED
  BY <1>1, <1>2, <1>3, <1>4, <1>5, <1>6, <1>7, <1>8 DEF Handler

\* The other writers, what happens outside the bridge, and a crash.
LEMMA SendInvOthers ==
    ASSUME IInv, SendInv,
           \/ \E e \in Events : SdkSaves(e) \/ SwapTerminal(e) \/ ReconcileOutgoing(e)
                                 \/ SwapFails(e)
           \/ \E x \in Hashes : Pays(x) \/ BookCloses(x)
           \/ NewDay \/ Crash
    PROVE  SendInv'
<1>t. TypeOK
  BY DEF IInv
<1>b. BareKept
  BY <1>t, BareStays DEF Next
<1>1. ASSUME NEW e \in Events, SwapTerminal(e) PROVE SendInv'
  <2>1. /\ OthersStay(e) /\ pc' = pc /\ row'[e].fees = row[e].fees
        /\ \/ row'[e].state = row[e].state /\ row'[e].preimage = row[e].preimage
           \/ /\ row[e].state = "pending" /\ swap[e] = "paid"
              /\ row'[e].state = "settled" /\ (row'[e].preimage \/ synced'[e] = "bare")
           \/ /\ row[e].state = "pending" /\ swap[e] = "failed"
              /\ row'[e].state = "failed"
    BY <1>1, <1>t, TerminalRow
  <2>2. /\ swap' = swap /\ book' = book /\ swap[e] \in {"paid", "failed"}
    BY <1>1 DEF SwapTerminal
  <2>3. HashOf[e] \notin SubDust /\ pc[e] # "sending"
    BY <2>2 DEF IInv, RailInv, HandlerInv
  <2>4. CASE row'[e].state = row[e].state /\ row'[e].preimage = row[e].preimage
    <3>1. FeesInv' /\ ReplayInv'
      BY <2>1, <2>4, <1>b DEF SendInv, FeesInv, ReplayInv, BareKept, OthersStay
    <3>2. SendingInv'
      BY <2>1, <2>2, <2>4 DEF SendInv, SendingInv, OthersStay
    <3>3. \A f \in Events : row'[f].state = row[f].state
      BY <2>1, <2>4 DEF OthersStay
    <3>4. WaitingInv'
      BY <2>1, <2>2, <3>3 DEF SendInv, WaitingInv
    <3> QED
      BY <3>1, <3>2, <3>4 DEF SendInv
  <2>5. CASE ~(row'[e].state = row[e].state /\ row'[e].preimage = row[e].preimage)
    BY <2>1, <2>2, <2>3, <2>5, <1>b, SendInvClose
  <2> QED
    BY <2>4, <2>5
<1>s. ASSUME NEW e \in Events, SdkSaves(e) PROVE SendInv'
  BY <1>s, <1>b, SendInvQuiet DEF SdkSaves, ledgerVars, reqVars
<1>2. ASSUME NEW e \in Events, ReconcileOutgoing(e) PROVE SendInv'
  <2>1. /\ OthersStay(e) /\ pc' = pc /\ row[e].state = "pending"
        /\ row'[e].state \in {"settled", "failed"}
        /\ book[HashOf[e]] \in {"claimed", "unpaid", "returned"}
    BY <1>2, <1>t, ReconcileRow
  <2>2. swap' = swap /\ book' = book
    BY <1>2 DEF ReconcileOutgoing, swapVars
  <2>3. HashOf[e] \in SubDust /\ pc[e] # "waiting"
    BY <2>1, Names DEF IInv, RailInv, SendInv, WaitingInv
  <2>4. FeesInv' /\ ReplayInv'
    BY <2>1, <2>3, <1>b DEF SendInv, FeesInv, ReplayInv, BareKept, OthersStay
  <2>5. SendingInv'
    BY <2>1, <2>2, <2>3 DEF SendInv, SendingInv, OthersStay
  <2>6. WaitingInv'
    BY <2>1, <2>2, <2>3 DEF SendInv, WaitingInv, OthersStay
  <2> QED
    BY <2>4, <2>5, <2>6 DEF SendInv
<1>3. ASSUME NEW e \in Events, SwapFails(e) PROVE SendInv'
  <2>1. /\ row' = row /\ pc' = pc /\ book' = book
        /\ \A f \in Events : swap[f] = "failed" => swap'[f] = "failed"
    BY <1>3, <1>t DEF SwapFails, ledgerVars, reqVars, TypeOK
  <2> QED
    BY <2>1, <1>b, SendInvQuiet
<1>4. ASSUME NEW x \in Hashes, Pays(x) PROVE SendInv'
  <2>1. /\ row' = row /\ pc' = pc /\ book' = book
        /\ \A f \in Events : swap[f] = "failed" => swap'[f] = "failed"
    BY <1>4, <1>t DEF Pays, ledgerVars, reqVars, TypeOK
  <2> QED
    BY <2>1, <1>b, SendInvQuiet
<1>5. ASSUME NEW x \in Hashes, BookCloses(x) PROVE SendInv'
  <2>1. /\ row' = row /\ pc' = pc /\ swap' = swap
        /\ \A e \in Events : HashOf[e] = x => pc[e] # "waiting"
        /\ \A y \in Hashes : y # x => book'[y] = book[y]
        /\ book'[x] # "none"
    BY <1>5, <1>t DEF BookCloses, ledgerVars, reqVars, TypeOK
  <2> QED
    BY <2>1, <1>b, SendInvQuiet, Names
<1>6. CASE NewDay
  BY <1>6, <1>b, SendInvQuiet DEF NewDay, ledgerVars, reqVars, swapVars
<1>7. CASE Crash
  <2>1. /\ row' = row /\ swap' = swap
        /\ \A e \in Events : pc'[e] = "idle"
        /\ \A y \in Hashes : book'[y] = "none" => book[y] = "none"
    BY <1>7, <1>t, Names DEF Crash, ledgerVars, TypeOK
  <2> QED
    BY <2>1, <1>b, SendInvQuiet
<1> QED
  BY <1>s, <1>1, <1>2, <1>3, <1>4, <1>5, <1>6, <1>7

\* The second layer of the invariant: what the handlers know of their rows.
THEOREM PayLedgerSends == Spec => [](IInv /\ SendInv)
<1>1. Init => SendInv
  BY DEF Init, NoRow, SendInv, FeesInv, SendingInv, WaitingInv, ReplayInv
<1>2. IInv /\ SendInv /\ [Next]_vars => SendInv'
  <2> SUFFICES ASSUME IInv, SendInv, [Next]_vars PROVE SendInv'
    OBVIOUS
  <2>1. CASE Next
    BY <2>1, SendInvHandler, SendInvOthers DEF Next
  <2>2. CASE UNCHANGED vars
    BY <2>2, SendInvQuiet DEF vars, ledgerVars, reqVars, swapVars, BareKept
  <2> QED
    BY <2>1, <2>2
<1> QED
  BY <1>1, <1>2, PayLedgerInvariance, PTL DEF Spec

-----------------------------------------------------------------------------
(* Sums over rows.                                                         *)

\* The units that make up a sum.
Units(amount, rows) == UNION {{e} \X (1..amount[e]) : e \in rows}

\* A unit belongs to one of the rows.
LEMMA UnitsMember ==
    ASSUME NEW w, NEW rows, NEW u
    PROVE  u \in Units(w, rows) <=> \E e \in rows : u \in {e} \X (1..w[e])
BY DEF Units

\* The units of an event: as many as its amount.
LEMMA UnitsOfOne ==
    ASSUME NEW e, NEW n \in Nat
    PROVE  IsFiniteSet({e} \X (1..n)) /\ Cardinality({e} \X (1..n)) = n
<1>1. IsFiniteSet({e}) /\ Cardinality({e}) = 1
  BY FS_Singleton
<1>2. IsFiniteSet(1..n) /\ Cardinality(1..n) = n
  BY FS_Interval
<1>3. /\ IsFiniteSet({e} \X (1..n))
      /\ Cardinality({e} \X (1..n)) = Cardinality({e}) * Cardinality(1..n)
  BY <1>1, <1>2, FS_Product
<1> QED
  BY <1>1, <1>2, <1>3

\* A sum over finitely many rows has finitely many units.
LEMMA UnitsFinite ==
    ASSUME NEW w, NEW rows, IsFiniteSet(rows), \A e \in rows : w[e] \in Nat
    PROVE  IsFiniteSet(Units(w, rows))
<1> DEFINE f == [e \in rows |-> {e} \X (1..w[e])]
           T == {{e} \X (1..w[e]) : e \in rows}
<1>1. f \in Surjection(rows, T)
  BY DEF Surjection
<1>2. IsFiniteSet(T)
  <2> HIDE DEF f, T
  <2> QED
    BY <1>1, FS_Surjection
<1>3. \A t \in T : IsFiniteSet(t)
  <2> SUFFICES ASSUME NEW e \in rows PROVE IsFiniteSet({e} \X (1..w[e]))
    OBVIOUS
  <2> QED
    BY UnitsOfOne
<1>4. IsFiniteSet(UNION T)
  <2> HIDE DEF T
  <2> QED
    BY <1>2, <1>3, FS_UNION
<1> QED
  BY <1>4 DEF Units

\* A sum counts its units.
LEMMA TotalIsUnits ==
    ASSUME NEW w, NEW rows
    PROVE  Total(w, rows) = Cardinality(Units(w, rows))
BY DEF Total, Units

\* More rows, or larger amounts, make no smaller sum.
LEMMA TotalMonotone ==
    ASSUME NEW w, NEW v, NEW T, IsFiniteSet(T), NEW S \in SUBSET T,
           \A e \in T : v[e] \in Nat, \A e \in S : w[e] \in Nat /\ w[e] <= v[e]
    PROVE  /\ Total(w, S) \in Nat /\ Total(v, T) \in Nat
           /\ Total(w, S) <= Total(v, T)
<1>1. IsFiniteSet(Units(v, T))
  BY UnitsFinite
<1>2. Units(w, S) \in SUBSET Units(v, T)
  <2> SUFFICES ASSUME NEW e \in S PROVE {e} \X (1..w[e]) \subseteq {e} \X (1..v[e])
    BY DEF Units
  <2> QED
    OBVIOUS
<1> QED
  BY <1>1, <1>2, FS_Subset, FS_CardinalityType, TotalIsUnits

\* A sum depends on the amounts of its rows only.
LEMMA TotalSame ==
    ASSUME NEW w, NEW v, NEW S, IsFiniteSet(S),
           \A e \in S : w[e] \in Nat /\ w[e] = v[e]
    PROVE  Total(w, S) = Total(v, S)
<1>1. S \in SUBSET S
  OBVIOUS
<1>2. Total(w, S) \in Nat /\ Total(v, S) \in Nat /\ Total(w, S) <= Total(v, S)
  BY <1>1, TotalMonotone
<1>3. Total(v, S) <= Total(w, S)
  BY <1>1, TotalMonotone
<1> QED
  BY <1>2, <1>3

\* The sum over two sets of rows that share none.
LEMMA TotalSplit ==
    ASSUME NEW w, NEW S, IsFiniteSet(S), NEW T, IsFiniteSet(T), S \cap T = {},
           \A f \in S \union T : w[f] \in Nat
    PROVE  Total(w, S \union T) = Total(w, S) + Total(w, T)
<1> DEFINE U == Units(w, S)
           V == Units(w, T)
<1>1. Units(w, S \union T) = U \union V
  BY DEF Units
<1>2. U \cap V = {}
  <2> SUFFICES ASSUME NEW u, u \in U, u \in V PROVE FALSE
    OBVIOUS
  <2>1. PICK f \in S : u \in {f} \X (1..w[f])
    BY UnitsMember
  <2>2. PICK g \in T : u \in {g} \X (1..w[g])
    BY UnitsMember
  <2>3. f = g
    BY <2>1, <2>2
  <2> QED
    BY <2>3
<1>3. IsFiniteSet(U) /\ IsFiniteSet(V)
  BY UnitsFinite
<1>4. Total(w, S) = Cardinality(U) /\ Total(w, T) = Cardinality(V)
  BY TotalIsUnits
<1>5. Total(w, S \union T) = Cardinality(U \union V)
  BY <1>1, TotalIsUnits
<1> HIDE DEF U, V
<1>6. Cardinality(U) \in Nat /\ Cardinality(V) \in Nat
  BY <1>3, FS_CardinalityType
<1>7. Cardinality(U \union V) = Cardinality(U) + Cardinality(V) - Cardinality(U \cap V)
  BY <1>3, FS_Union
<1>8. Cardinality(U \cap V) = 0
  BY <1>2, FS_EmptySet
<1> QED
  BY <1>4, <1>5, <1>6, <1>7, <1>8

\* One more row.
LEMMA TotalAdd ==
    ASSUME NEW w, NEW S, IsFiniteSet(S), NEW e, e \notin S,
           w[e] \in Nat, \A f \in S : w[f] \in Nat
    PROVE  Total(w, S \union {e}) = Total(w, S) + w[e]
<1>1. Units(w, {e}) = {e} \X (1..w[e])
  BY DEF Units
<1>2. Total(w, {e}) = w[e]
  BY <1>1, UnitsOfOne, TotalIsUnits
<1>3. IsFiniteSet({e}) /\ S \cap {e} = {}
  BY FS_Singleton
<1> QED
  BY <1>2, <1>3, TotalSplit

-----------------------------------------------------------------------------
(* The budget.                                                             *)

\* The amounts of the rows are natural numbers.
LEMMA Amounts ==
    ASSUME TypeOK
    PROVE  /\ \A e \in Events : Nominals[e] \in Nat /\ Costs[e] \in Nat /\ Nominals[e] <= Costs[e]
           /\ \A e \in Events : Nominals[e] = Nominal(e) /\ Costs[e] = Nominal(e) + row[e].fees
<1>1. \A e \in Events : Nominal(e) \in Nat
  BY Names
<1>2. \A e \in Events : row[e].fees \in Nat
  BY LimitsAssumption DEF TypeOK, RowType
<1> QED
  BY <1>1, <1>2 DEF Nominals, Costs

\* A set of requests is finite, and so is what is summed over it.
LEMMA RowsFinite ==
    ASSUME NEW S \in SUBSET Events
    PROVE  IsFiniteSet(S)
BY RequestsAssumption, FS_Subset

\* The rows CounterCoversSubDust sums up.
SubDustSettled(conn) ==
    {e \in RowsOf(conn) : HashOf[e] \in SubDust /\ row[e].state = "settled"}

\* The counter's share of CounterCoversSubDust.
Covers(conn) == spent[conn] >= Total(Costs, SubDustSettled(conn))

\* The property, connection by connection.
LEMMA CoversIs == CounterCoversSubDust <=> \A conn \in Conns : Covers(conn)
BY DEF CounterCoversSubDust, Covers, SubDustSettled

\* A step that settles no row of the sub-dust rail, changes the fees of none that
\* is settled, and takes nothing off the counter.
LEMMA CoversStays ==
    ASSUME TypeOK, TypeOK', NEW conn \in Conns, Covers(conn), spent'[conn] >= spent[conn],
           \A e \in Events : (HashOf[e] \in SubDust /\ row'[e].state = "settled")
                                => row[e].state = "settled" /\ row'[e].fees = row[e].fees
    PROVE  Covers(conn)'
<1>1. SubDustSettled(conn)' \in SUBSET SubDustSettled(conn)
  BY DEF SubDustSettled, RowsOf
<1>2. SubDustSettled(conn) \in SUBSET Events /\ IsFiniteSet(SubDustSettled(conn))
  BY RowsFinite DEF SubDustSettled, RowsOf
<1>3. \A e \in Events : Costs[e] \in Nat /\ Costs[e] = Nominal(e) + row[e].fees
  BY Amounts
<1>4. \A e \in Events : Costs'[e] \in Nat /\ Costs'[e] = Nominal(e) + row'[e].fees
  <2>1. \A e \in Events : Nominal(e) \in Nat
    BY Names
  <2>2. \A e \in Events : row'[e].fees \in Nat
    BY LimitsAssumption DEF TypeOK, RowType
  <2> QED
    BY <2>1, <2>2 DEF Costs, Nominal
<1>5. \A e \in SubDustSettled(conn)' : Costs'[e] \in Nat /\ Costs'[e] <= Costs[e]
  BY <1>3, <1>4 DEF SubDustSettled, RowsOf
<1>6. /\ Total(Costs', SubDustSettled(conn)') \in Nat /\ Total(Costs, SubDustSettled(conn)) \in Nat
      /\ Total(Costs', SubDustSettled(conn)') <= Total(Costs, SubDustSettled(conn))
  <2> DEFINE S == SubDustSettled(conn)'
             T == SubDustSettled(conn)
             w == Costs'
  <2>1. \A e \in T : Costs[e] \in Nat
    BY <1>2, <1>3
  <2>2. S \in SUBSET T /\ IsFiniteSet(T) /\ \A e \in S : w[e] \in Nat /\ w[e] <= Costs[e]
    BY <1>1, <1>2, <1>5
  <2> HIDE DEF S, T, w
  <2>3. /\ Total(w, S) \in Nat /\ Total(Costs, T) \in Nat /\ Total(w, S) <= Total(Costs, T)
    BY <2>1, <2>2, TotalMonotone
  <2> QED
    BY <2>3 DEF S, T, w
<1>7. spent[conn] \in Nat /\ spent'[conn] \in Nat
  BY DEF TypeOK
<1> QED
  BY <1>6, <1>7 DEF Covers, Total

\* A step that settles the pending sub-dust row of e and charges what it cost.
LEMMA CoversSettled ==
    ASSUME TypeOK, TypeOK', NEW e \in Events, HashOf[e] \in SubDust,
           \A f \in Events : f # e => row'[f] = row[f],
           row[e].state = "pending", row'[e].state = "settled",
           spent' = [spent EXCEPT ![ConnOf[e]] = @ + Nominal(e) + row'[e].fees],
           NEW conn \in Conns, Covers(conn)
    PROVE  Covers(conn)'
<1>1. spent \in [Conns -> Nat] /\ ConnOf[e] \in Conns /\ Nominal(e) \in Nat /\ row'[e].fees \in Nat
  BY Names, LimitsAssumption DEF TypeOK, RowType
<1>2. CASE conn # ConnOf[e]
  <2>1. SubDustSettled(conn)' = SubDustSettled(conn)
    BY <1>2 DEF SubDustSettled, RowsOf
  <2>2. spent'[conn] = spent[conn]
    BY <1>1, <1>2
  <2> DEFINE S == SubDustSettled(conn)
             w == Costs'
  <2>3. \A f \in S : Costs[f] \in Nat /\ Costs[f] = w[f]
    <3>1. \A f \in Events : Costs[f] \in Nat
      BY Amounts
    <3> QED
      BY <3>1, <1>2 DEF SubDustSettled, RowsOf, Costs, Nominal
  <2>4. IsFiniteSet(S)
    BY RowsFinite DEF SubDustSettled, RowsOf
  <2> HIDE DEF S, w
  <2>5. Total(Costs, S) = Total(w, S)
    BY <2>3, <2>4, TotalSame
  <2> QED
    BY <2>1, <2>2, <2>5 DEF Covers, S, w, Total
<1>3. CASE conn = ConnOf[e]
  <2> DEFINE S == SubDustSettled(conn)
             w == Costs'
  <2>1. SubDustSettled(conn)' = S \union {e}
    BY <1>3 DEF SubDustSettled, RowsOf
  <2>2. e \notin S /\ S \in SUBSET Events
    BY DEF SubDustSettled, RowsOf
  <2>3. IsFiniteSet(S)
    BY <2>2, RowsFinite
  <2>4. \A f \in Events : Costs[f] \in Nat
    BY Amounts
  <2>5. w[e] = Nominal(e) + row'[e].fees /\ \A f \in S : Costs[f] = w[f]
    BY <2>2 DEF Costs, Nominal
  <2>6. spent'[conn] = spent[conn] + Nominal(e) + row'[e].fees
    BY <1>1, <1>3
  <2> HIDE DEF S, w
  <2>7. Total(Costs, S) = Total(w, S)
    BY <2>2, <2>3, <2>4, <2>5, TotalSame
  <2>8. w[e] \in Nat /\ \A f \in S : w[f] \in Nat
    BY <1>1, <2>2, <2>4, <2>5
  <2>9. Total(w, S \union {e}) = Total(w, S) + w[e]
    BY <2>2, <2>3, <2>8, TotalAdd
  <2>10. Total(w, S) \in Nat
    BY <2>3, <2>8, TotalMonotone
  <2>11. spent[conn] >= Total(Costs, S) /\ spent[conn] \in Nat
    BY <1>1 DEF Covers, S
  <2>12. spent'[conn] >= Total(w, S \union {e})
    BY <1>1, <2>5, <2>6, <2>7, <2>9, <2>10, <2>11
  <2> QED
    BY <2>1, <2>12 DEF Covers, w, Total
<1> QED
  BY <1>2, <1>3

\* The row of e keeps its state, its fees and its window.
KeepsRow(e) ==
    /\ OthersStay(e) /\ spent' = spent
    /\ row'[e].state = row[e].state /\ row'[e].fees = row[e].fees /\ row'[e].day = row[e].day

FailsRow(e) == OthersStay(e) /\ spent' = spent /\ row'[e].state = "failed"

\* A row of the submarine rail is settled, by whoever is first; the counter
\* loses nothing.
SettlesLarge(e) ==
    /\ OthersStay(e) /\ HashOf[e] \notin SubDust
    /\ row[e].state \in {"pending", "settled"} /\ row'[e].state = "settled"
    /\ row'[e].day = row[e].day
    /\ \A conn \in Conns : spent'[conn] >= spent[conn]

\* A row of the sub-dust rail is settled once, and charged.
SettlesSubDust(e) ==
    /\ OthersStay(e) /\ HashOf[e] \in SubDust
    /\ row[e].state = "pending" /\ row'[e].state = "settled"
    /\ row'[e].day = row[e].day
    /\ spent' = [spent EXCEPT ![ConnOf[e]] = @ + Nominal(e) + row'[e].fees]

\* All a step can do to the ledger: a closed row is never reopened, and only
\* Insert commits an amount.
LedgerStep ==
    \/ row' = row /\ spent' = spent
    \/ \E e \in Events : \/ Insert(e) \/ KeepsRow(e) \/ FailsRow(e)
                         \/ SettlesLarge(e) \/ SettlesSubDust(e)

\* Every step is one of these.
LEMMA LedgerSteps ==
    ASSUME IInv, SendInv, [Next]_vars
    PROVE  LedgerStep
<1>t. TypeOK
  BY DEF IInv
<1>1. CASE UNCHANGED vars
  BY <1>1 DEF vars, ledgerVars, LedgerStep
<1>2. ASSUME NEW e \in Events, Replay(e) \/ Refuse(e) \/ SdkSaves(e) \/ SwapFails(e)
      PROVE  LedgerStep
  BY <1>2 DEF Replay, Refuse, SdkSaves, SwapFails, ledgerVars, LedgerStep
<1>3. CASE \/ \E x \in Hashes : Pays(x) \/ BookCloses(x)
           \/ NewDay \/ Crash
  BY <1>3 DEF Pays, BookCloses, NewDay, Crash, ledgerVars, LedgerStep
<1>4. ASSUME NEW e \in Events, SubmarineFund(e) \/ AtomicCreate(e) \/ Answer(e) PROVE LedgerStep
  BY <1>4 DEF SubmarineFund, AtomicCreate, Answer, ledgerVars, LedgerStep
<1>5. ASSUME NEW e \in Events, SubmarineCreate(e) PROVE KeepsRow(e)
  <2>1. spent' = spent
    BY <1>5 DEF SubmarineCreate
  <2> QED
    BY <1>5, <1>t, <2>1, CreateRow DEF KeepsRow
<1>6. ASSUME NEW e \in Events, SubmarineReturns(e) \/ AtomicReturns(e)
      PROVE  SettlesLarge(e) \/ SettlesSubDust(e)
  <2>1. PICK fee \in 0..MaxFee : Settle(e, fee)
    BY <1>6 DEF SubmarineReturns, AtomicReturns
  <2>2. /\ OthersStay(e) /\ row'[e].state = "settled" /\ row'[e].fees = fee
        /\ row'[e].day = row[e].day
    BY <2>1, <1>t, SettleRow
  <2>3. spent' = [spent EXCEPT ![ConnOf[e]] = @ + Nominal(e) + row'[e].fees]
    BY <2>1, <2>2 DEF Settle
  <2>4. /\ pc[e] = "waiting"
        /\ HashOf[e] \notin SubDust => swap[e] = "paid"
    BY <1>6 DEF SubmarineReturns, AtomicReturns
  <2>5. CASE HashOf[e] \in SubDust
    BY <2>2, <2>3, <2>4, <2>5 DEF SettlesSubDust, SendInv, WaitingInv
  <2>6. CASE HashOf[e] \notin SubDust
    <3>1. row[e].state \in {"pending", "settled"}
      BY <2>4, <2>6 DEF SendInv, WaitingInv
    <3>2. \A conn \in Conns : spent'[conn] >= spent[conn]
      <4>1. spent \in [Conns -> Nat] /\ Nominal(e) \in Nat /\ row'[e].fees \in Nat
        BY <1>t, <2>2, Names, LimitsAssumption DEF TypeOK
      <4> QED
        BY <2>3, <4>1
    <3> QED
      BY <2>2, <2>6, <3>1, <3>2 DEF SettlesLarge
  <2> QED
    BY <2>5, <2>6
<1>7. ASSUME NEW e \in Events, SendRejected(e) \/ SubmarineThrows(e) \/ AtomicThrows(e)
      PROVE  FailsRow(e)
  <2>1. Fail(e)
    BY <1>7 DEF SendRejected, SubmarineThrows, AtomicThrows
  <2>2. spent' = spent
    BY <2>1 DEF Fail
  <2> QED
    BY <2>1, <2>2, <1>t, FailRow DEF FailsRow
<1>8. ASSUME NEW e \in Events, SwapTerminal(e)
      PROVE  KeepsRow(e) \/ SettlesLarge(e) \/ FailsRow(e)
  <2>1. /\ OthersStay(e) /\ row'[e].fees = row[e].fees /\ row'[e].day = row[e].day
        /\ \/ row'[e].state = row[e].state
           \/ row[e].state = "pending" /\ row'[e].state = "settled"
           \/ row'[e].state = "failed"
    BY <1>8, <1>t, TerminalRow
  <2>2. spent' = spent /\ swap[e] \in {"paid", "failed"} /\ spent \in [Conns -> Nat]
    BY <1>8, <1>t DEF SwapTerminal, TypeOK
  <2>3. HashOf[e] \notin SubDust
    BY <2>2 DEF IInv, RailInv
  <2> QED
    BY <2>1, <2>2, <2>3 DEF KeepsRow, SettlesLarge, FailsRow
<1>9. ASSUME NEW e \in Events, ReconcileOutgoing(e)
      PROVE  SettlesSubDust(e) \/ FailsRow(e)
  <2>1. /\ OthersStay(e) /\ row[e].state = "pending"
        /\ row'[e].fees = row[e].fees /\ row'[e].day = row[e].day
        /\ \/ /\ row'[e].state = "settled" /\ book[HashOf[e]] = "claimed"
              /\ spent' = [spent EXCEPT ![ConnOf[e]] = @ + Nominal(e)]
           \/ row'[e].state = "failed" /\ spent' = spent
    BY <1>9, <1>t, ReconcileRow
  <2>2. CASE row'[e].state = "settled"
    <3>1. HashOf[e] \in SubDust
      BY <2>1, <2>2, Names DEF IInv, RailInv
    <3>2. row'[e].fees = 0
      BY <2>1 DEF SendInv, FeesInv
    <3>3. spent \in [Conns -> Nat] /\ Nominal(e) \in Nat /\ ConnOf[e] \in Conns
      BY <1>t, Names DEF TypeOK
    <3>4. spent' = [spent EXCEPT ![ConnOf[e]] = @ + Nominal(e) + row'[e].fees]
      BY <2>1, <2>2, <3>2, <3>3
    <3> QED
      BY <2>1, <2>2, <3>1, <3>4 DEF SettlesSubDust
  <2>3. CASE row'[e].state # "settled"
    BY <2>1, <2>3 DEF FailsRow
  <2> QED
    BY <2>2, <2>3
<1> QED
  BY <1>1, <1>2, <1>3, <1>4, <1>5, <1>6, <1>7, <1>8, <1>9 DEF Next, Handler, LedgerStep

\* The counter covers the settled rows of the sub-dust rail, for any requests,
\* budgets and faults.
THEOREM SubDustIsCounted == Spec => []CounterCoversSubDust
<1>1. Init => CounterCoversSubDust
  <2> SUFFICES ASSUME Init, NEW conn \in Conns PROVE Covers(conn)
    BY CoversIs
  <2>1. SubDustSettled(conn) = {}
    BY DEF SubDustSettled, RowsOf, Init, NoRow
  <2>2. Units(Costs, {}) = {}
    BY DEF Units
  <2>3. Total(Costs, {}) = 0
    BY <2>2, TotalIsUnits, FS_EmptySet
  <2>4. spent[conn] = 0
    BY DEF Init
  <2> QED
    BY <2>1, <2>3, <2>4 DEF Covers
<1>2. IInv /\ IInv' /\ SendInv /\ CounterCoversSubDust /\ [Next]_vars => CounterCoversSubDust'
  <2> SUFFICES ASSUME IInv, IInv', SendInv, CounterCoversSubDust, [Next]_vars,
                      NEW conn \in Conns
               PROVE  Covers(conn)'
    BY DEF CounterCoversSubDust, Covers, SubDustSettled
  <2>1. Covers(conn) /\ TypeOK /\ TypeOK'
    BY CoversIs DEF IInv
  <2>2. LedgerStep
    BY LedgerSteps
  <2>s. spent[conn] \in Nat
    BY <2>1 DEF TypeOK
  <2>3. CASE row' = row /\ spent' = spent
    BY <2>1, <2>3, <2>s, CoversStays
  <2>4. ASSUME NEW e \in Events, Insert(e) PROVE Covers(conn)'
    <3>1. OthersStay(e) /\ row'[e].state = "pending" /\ spent' = spent
      BY <2>4, <2>1, InsertRow DEF Insert
    <3> QED
      BY <3>1, <2>1, <2>s, CoversStays DEF OthersStay
  <2>5. ASSUME NEW e \in Events, KeepsRow(e) \/ FailsRow(e) PROVE Covers(conn)'
    BY <2>5, <2>1, <2>s, CoversStays DEF KeepsRow, FailsRow, OthersStay
  <2>6. ASSUME NEW e \in Events, SettlesLarge(e) PROVE Covers(conn)'
    BY <2>6, <2>1, CoversStays DEF SettlesLarge, OthersStay
  <2>7. ASSUME NEW e \in Events, SettlesSubDust(e) PROVE Covers(conn)'
    BY <2>7, <2>1, CoversSettled DEF SettlesSubDust, OthersStay
  <2> QED
    BY <2>2, <2>3, <2>4, <2>5, <2>6, <2>7 DEF LedgerStep
<1> QED
  BY <1>1, <1>2, PayLedgerSends, PTL DEF Spec

-----------------------------------------------------------------------------
\* What has been committed is at most what the budget check counts, if the
\* counter of a 'never' budget misses no settled row.
LEMMA CheckCounts ==
    ASSUME TypeOK, CounterCoversSubDust, NEW conn \in Conns,
           conn \in Daily \/ \A e \in RowsOf(conn) : HashOf[e] \in SubDust
    PROVE  /\ Committed(conn, day) \in Nat /\ cycleSpentMsat(conn) \in Nat
           /\ Committed(conn, day) <= cycleSpentMsat(conn)
<1>1. /\ \A e \in Events : Nominals[e] \in Nat /\ Costs[e] \in Nat /\ Nominals[e] <= Costs[e]
  BY Amounts
<1>2. \A S \in SUBSET RowsOf(conn) : IsFiniteSet(S) /\ S \subseteq Events
  BY RowsFinite DEF RowsOf
<1>3. CASE conn \in Daily
  <2> DEFINE S == {e \in RowsOf(conn) : /\ row[e].state \in {"pending", "settled"}
                                        /\ row[e].day = day}
  <2>1. S \in SUBSET RowsOf(conn) /\ S \in SUBSET S
    OBVIOUS
  <2>2. Committed(conn, day) = Total(Nominals, S)
    <3>1. S = {e \in RowsOf(conn) : /\ row[e].state \in {"pending", "settled"}
                                    /\ conn \in Daily => row[e].day = day}
      BY <1>3
    <3> QED
      BY <3>1 DEF Committed
  <2>3. cycleSpentMsat(conn) = Total(Costs, S)
    BY <1>3 DEF cycleSpentMsat
  <2> HIDE DEF S
  <2>4. /\ Total(Nominals, S) \in Nat /\ Total(Costs, S) \in Nat
        /\ Total(Nominals, S) <= Total(Costs, S)
    BY <1>1, <1>2, <2>1, TotalMonotone
  <2> QED
    BY <2>2, <2>3, <2>4
<1>4. CASE conn \notin Daily
  <2> DEFINE P == {e \in RowsOf(conn) : row[e].state = "pending"}
             S == SubDustSettled(conn)
  <2>1. P \in SUBSET RowsOf(conn) /\ S \in SUBSET RowsOf(conn) /\ S \in SUBSET S
    BY DEF SubDustSettled
  <2>2. Committed(conn, day) = Total(Nominals, P \union S)
    <3>1. P \union S = {e \in RowsOf(conn) : /\ row[e].state \in {"pending", "settled"}
                                             /\ conn \in Daily => row[e].day = day}
      BY <1>4 DEF SubDustSettled
    <3> QED
      BY <3>1 DEF Committed
  <2>3. cycleSpentMsat(conn) = spent[conn] + Total(Nominals, P)
    BY <1>4 DEF cycleSpentMsat
  <2>4. P \cap S = {}
    BY DEF SubDustSettled
  <2>5. spent[conn] >= Total(Costs, S) /\ spent[conn] \in Nat
    BY CoversIs DEF Covers, TypeOK
  <2> HIDE DEF P, S
  <2>6. /\ Total(Nominals, S) \in Nat /\ Total(Costs, S) \in Nat
        /\ Total(Nominals, S) <= Total(Costs, S)
    BY <1>1, <1>2, <2>1, TotalMonotone
  <2>7. Total(Nominals, P) \in Nat
    BY <1>1, <1>2, <2>1, TotalMonotone
  <2>8. Total(Nominals, P \union S) = Total(Nominals, P) + Total(Nominals, S)
    BY <1>1, <1>2, <2>1, <2>4, TotalSplit
  <2> QED
    BY <2>2, <2>3, <2>5, <2>6, <2>7, <2>8
<1> QED
  BY <1>3, <1>4

\* A budget that renews, or one of which all payments take the sub-dust rail: the
\* listener settles the others without charging the counter.
Counted(conn) == conn \in Daily \/ \A e \in RowsOf(conn) : HashOf[e] \in SubDust

\* BudgetHolds for one connection.
KeepsBudget(conn) == \A d \in 0..MaxDay : Committed(conn, d) <= Budget[conn]

\* A step that commits nothing.
LEMMA CommittedShrinks ==
    ASSUME TypeOK, NEW conn \in Conns, NEW d,
           \A e \in Events : row'[e].state \in {"pending", "settled"}
                                => /\ row[e].state \in {"pending", "settled"}
                                   /\ row'[e].day = row[e].day
    PROVE  /\ Committed(conn, d) \in Nat /\ Committed(conn, d)' \in Nat
           /\ Committed(conn, d)' <= Committed(conn, d)
<1> DEFINE T == {e \in RowsOf(conn) : /\ row[e].state \in {"pending", "settled"}
                                      /\ conn \in Daily => row[e].day = d}
           S == {e \in RowsOf(conn) : /\ row'[e].state \in {"pending", "settled"}
                                      /\ conn \in Daily => row'[e].day = d}
<1>1. S \in SUBSET T /\ T \in SUBSET Events
  BY DEF RowsOf
<1>2. IsFiniteSet(T) /\ \A e \in Events : Nominals[e] \in Nat
  BY <1>1, RowsFinite, Amounts
<1>3. Committed(conn, d) = Total(Nominals, T)
  BY DEF Committed
<1>4. Committed(conn, d)' = Total(Nominals, S)
  BY DEF Committed, RowsOf, Total, Nominals, Nominal
<1> HIDE DEF S, T
<1>5. Total(Nominals, S) \in Nat /\ Total(Nominals, T) \in Nat
      /\ Total(Nominals, S) <= Total(Nominals, T)
  BY <1>1, <1>2, TotalMonotone
<1> QED
  BY <1>3, <1>4, <1>5

\* A request that passes the check.
LEMMA InsertKeepsBudget ==
    ASSUME TypeOK, CounterCoversSubDust, NEW conn \in Conns, Counted(conn), KeepsBudget(conn),
           NEW e \in Events, Insert(e)
    PROVE  KeepsBudget(conn)'
<1> SUFFICES ASSUME NEW d \in 0..MaxDay PROVE Committed(conn, d)' <= Budget[conn]
  BY DEF KeepsBudget
<1>1. OthersStay(e) /\ row'[e].state = "pending" /\ row'[e].day = day /\ row[e].state = "none"
  BY InsertRow DEF Insert
<1> DEFINE T == {f \in RowsOf(conn) : /\ row[f].state \in {"pending", "settled"}
                                      /\ conn \in Daily => row[f].day = d}
           S == {f \in RowsOf(conn) : /\ row'[f].state \in {"pending", "settled"}
                                      /\ conn \in Daily => row'[f].day = d}
<1>2. Committed(conn, d) = Total(Nominals, T)
  BY DEF Committed
<1>3. Committed(conn, d)' = Total(Nominals, S)
  BY DEF Committed, RowsOf, Total, Nominals, Nominal
<1>4. Committed(conn, d) <= Budget[conn]
  BY DEF KeepsBudget
<1>5. CASE ~(ConnOf[e] = conn /\ (conn \in Daily => d = day))
  <2>1. S = T
    BY <1>1, <1>5 DEF RowsOf, OthersStay
  <2> QED
    BY <1>2, <1>3, <1>4, <2>1
<1>6. CASE ConnOf[e] = conn /\ (conn \in Daily => d = day)
  <2>1. S = T \union {e} /\ e \notin T /\ T \in SUBSET Events
    BY <1>1, <1>6 DEF RowsOf, OthersStay
  <2>2. IsFiniteSet(T) /\ \A f \in Events : Nominals[f] \in Nat
    BY <2>1, RowsFinite, Amounts
  <2>3. Nominals[e] = Nominal(e) /\ Nominal(e) \in Nat
    BY Names DEF Nominals
  <2>4. Committed(conn, d) = Committed(conn, day)
    BY <1>6 DEF Committed
  <2>5. /\ Committed(conn, day) \in Nat /\ cycleSpentMsat(conn) \in Nat
        /\ Committed(conn, day) <= cycleSpentMsat(conn)
    BY CheckCounts DEF Counted
  <2>6. ~(cycleSpentMsat(conn) + Nominal(e) > Budget[conn]) /\ Budget[conn] \in Nat
    BY <1>6, RequestsAssumption DEF Insert, Refused
  <2> HIDE DEF S, T
  <2>7. Total(Nominals, T \union {e}) = Total(Nominals, T) + Nominals[e]
    BY <2>1, <2>2, TotalAdd
  <2> QED
    BY <1>2, <1>3, <2>1, <2>3, <2>4, <2>5, <2>6, <2>7
<1> QED
  BY <1>5, <1>6

\* Every budget that renews is kept, and every other one whose payments all take
\* the sub-dust rail, with any number of requests in flight and any faults.
THEOREM BudgetsKept == Spec => [](\A conn \in Conns : Counted(conn) => KeepsBudget(conn))
<1> DEFINE Kept == \A conn \in Conns : Counted(conn) => KeepsBudget(conn)
<1>1. Init => Kept
  <2> SUFFICES ASSUME Init, NEW conn \in Conns, NEW d \in 0..MaxDay
               PROVE  Committed(conn, d) <= Budget[conn]
    BY DEF KeepsBudget
  <2>1. {e \in RowsOf(conn) : /\ row[e].state \in {"pending", "settled"}
                              /\ conn \in Daily => row[e].day = d} = {}
    BY DEF RowsOf, Init, NoRow
  <2>2. Units(Nominals, {}) = {}
    BY DEF Units
  <2>3. Committed(conn, d) = 0
    BY <2>1, <2>2, TotalIsUnits, FS_EmptySet DEF Committed
  <2> QED
    BY <2>3, RequestsAssumption
<1>2. IInv /\ SendInv /\ CounterCoversSubDust /\ Kept /\ [Next]_vars => Kept'
  <2> SUFFICES ASSUME IInv, SendInv, CounterCoversSubDust, Kept, [Next]_vars,
                      NEW conn \in Conns, Counted(conn)
               PROVE  KeepsBudget(conn)'
    BY DEF Counted, RowsOf
  <2>1. KeepsBudget(conn) /\ TypeOK /\ LedgerStep /\ Budget[conn] \in Nat
    BY LedgerSteps, RequestsAssumption DEF IInv
  <2>2. ASSUME \A e \in Events : row'[e].state \in {"pending", "settled"}
                                    => /\ row[e].state \in {"pending", "settled"}
                                       /\ row'[e].day = row[e].day
        PROVE  KeepsBudget(conn)'
    <3> SUFFICES ASSUME NEW d \in 0..MaxDay PROVE Committed(conn, d)' <= Budget[conn]
      BY DEF KeepsBudget
    <3>1. /\ Committed(conn, d) \in Nat /\ Committed(conn, d)' \in Nat
          /\ Committed(conn, d)' <= Committed(conn, d)
      BY <2>1, <2>2, CommittedShrinks
    <3> QED
      BY <2>1, <3>1 DEF KeepsBudget
  <2>3. ASSUME NEW e \in Events, Insert(e) PROVE KeepsBudget(conn)'
    BY <2>1, <2>3, InsertKeepsBudget
  <2>4. ASSUME NEW e \in Events,
               KeepsRow(e) \/ FailsRow(e) \/ SettlesLarge(e) \/ SettlesSubDust(e)
        PROVE  KeepsBudget(conn)'
    BY <2>2, <2>4 DEF KeepsRow, FailsRow, SettlesLarge, SettlesSubDust, OthersStay
  <2> QED
    BY <2>1, <2>2, <2>3, <2>4 DEF LedgerStep
<1> HIDE DEF Kept
<1>3. Spec => []Kept
  BY <1>1, <1>2, PayLedgerSends, SubDustIsCounted, PTL DEF Spec
<1> QED
  BY <1>3 DEF Kept

\* The budget is kept by all connections if each renews or pays over the sub-dust
\* rail.
THEOREM BudgetIsKept ==
    ASSUME \A e \in Events : ConnOf[e] \in Daily \/ HashOf[e] \in SubDust
    PROVE  Spec => []BudgetHolds
<1>1. \A conn \in Conns : Counted(conn)
  BY DEF Counted, RowsOf
<1>2. (\A conn \in Conns : Counted(conn) => KeepsBudget(conn)) => BudgetHolds
  BY <1>1 DEF KeepsBudget, BudgetHolds
<1> QED
  BY <1>2, BudgetsKept, PTL

-----------------------------------------------------------------------------
\* An invoice is paid while no submarine swap for it can still get funded, but
\* for one the listener was told of without a preimage, and what paid it is there to be found by the next request.
UnpaidInv ==
    /\ \A e \in Events :
          (/\ HashOf[e] \notin SubDust
           /\ pc[e] = "sending" \/ (pc[e] = "waiting" /\ swap[e] = "created"))
              => ~paid[HashOf[e]] \/ BareReport(HashOf[e])
    /\ \A x \in Hashes \ SubDust : paid[x] =>
          \E f \in Events : /\ HashOf[f] = x /\ swap[f] = "paid"
                            /\ row[f].state \in {"pending", "settled"}

\* An invoice is asked for over one connection.
OneConnPerHash == \A e, f \in Events : HashOf[e] = HashOf[f] => ConnOf[e] = ConnOf[f]

\* A request for a paid invoice gets the preimage or is in flight, if the
\* preimage was reported.
LEMMA InsertIsUnpaid ==
    ASSUME SendInv, UnpaidInv, OneConnPerHash, NEW e \in Events, HashOf[e] \notin SubDust, Insert(e)
    PROVE  ~paid[HashOf[e]] \/ BareReport(HashOf[e])
<1> SUFFICES ASSUME paid[HashOf[e]], ~BareReport(HashOf[e]) PROVE FALSE
  OBVIOUS
<1>1. PICK f \in Events : HashOf[f] = HashOf[e] /\ row[f].state \in {"pending", "settled"}
  BY Names DEF UnpaidInv
<1>2. ~InFlight(e) /\ MissesReplay(e)
  BY DEF Insert, Refused
<1>3. row[f].state = "settled"
  BY <1>1, <1>2 DEF InFlight, RowsOf, OneConnPerHash
<1>4. \A g \in SettledRows(e) : row[g].preimage
  BY DEF SettledRows, SendInv, ReplayInv, BareReport
<1>5. f \in SettledRows(e)
  BY <1>1, <1>3 DEF SettledRows
<1> QED
  BY <1>2, <1>4, <1>5 DEF MissesReplay, Replayable

\* A step that lets no new swap near funding, pays nothing and closes no paid
\* swap's row as failed.
LEMMA UnpaidStays ==
    ASSUME UnpaidInv, paid' = paid, BareKept,
           \A e \in Events : (HashOf[e] \notin SubDust
                               /\ (pc'[e] = "sending" \/ (pc'[e] = "waiting" /\ swap'[e] = "created")))
               => \/ pc[e] = "sending" \/ (pc[e] = "waiting" /\ swap[e] = "created")
                  \/ ~paid[HashOf[e]] \/ BareReport(HashOf[e]),
           \A e \in Events : swap[e] = "paid" =>
               /\ swap'[e] = "paid"
               /\ row[e].state \in {"pending", "settled"} => row'[e].state \in {"pending", "settled"}
    PROVE  UnpaidInv'
<1>1. \A x \in Hashes \ SubDust : paid[x] =>
          \E f \in Events : /\ HashOf[f] = x /\ swap'[f] = "paid"
                            /\ row'[f].state \in {"pending", "settled"}
  BY DEF UnpaidInv
<1>2. \A x : BareReport(x) => BareReport(x)'
  BY DEF BareReport, BareKept
<1> QED
  BY <1>1, <1>2 DEF UnpaidInv

\* Every step keeps it.
LEMMA UnpaidNext ==
    ASSUME "error" \notin Faults, OneConnPerHash, IInv, SendInv, UnpaidInv, [Next]_vars
    PROVE  UnpaidInv'
<1>t. TypeOK /\ HandlerInv /\ RailInv
  BY DEF IInv
<1>b. BareKept
  BY <1>t, BareStays
<1>r. \A x : BareReport(x) => BareReport(x)'
  BY <1>b DEF BareReport, BareKept
<1>1. CASE UNCHANGED vars
  BY <1>1, <1>b, UnpaidStays DEF vars, ledgerVars, reqVars, swapVars
<1>2. ASSUME NEW e \in Events, Replay(e) \/ Refuse(e) PROVE UnpaidInv'
  BY <1>2, <1>b, UnpaidStays DEF Replay, Refuse, ledgerVars, swapVars
<1>3. ASSUME NEW e \in Events, Insert(e) PROVE UnpaidInv'
  <2>1. OthersStay(e) /\ row'[e].state = "pending" /\ paid' = paid /\ swap' = swap
    BY <1>3, <1>t, InsertRow DEF Insert, swapVars
  <2>2. HashOf[e] \notin SubDust => ~paid[HashOf[e]] \/ BareReport(HashOf[e])
    BY <1>3, InsertIsUnpaid
  <2> QED
    BY <2>1, <2>2, <1>b, UnpaidStays DEF OthersStay
<1>4. ASSUME NEW e \in Events, SubmarineCreate(e) PROVE UnpaidInv'
  <2>1. OthersStay(e) /\ row'[e].state = row[e].state
    BY <1>4, <1>t, CreateRow
  <2>2. /\ pc[e] = "sending" /\ swap[e] = "none" /\ paid' = paid
        /\ \A f \in Events : f # e => swap'[f] = swap[f]
    BY <1>4, <1>t DEF SubmarineCreate, TypeOK, HandlerInv
  <2> QED
    BY <2>1, <2>2, <1>b, UnpaidStays DEF OthersStay
<1>5. ASSUME NEW e \in Events, SubmarineFund(e) PROVE UnpaidInv'
  <2>1. /\ row' = row /\ pc' = pc /\ paid' = paid /\ swap[e] = "created" /\ swap'[e] = "funded"
        /\ \A f \in Events : f # e => swap'[f] = swap[f]
    BY <1>5, <1>t DEF SubmarineFund, ledgerVars, reqVars, TypeOK
  <2> QED
    BY <2>1, <1>b, UnpaidStays
<1>6. ASSUME NEW e \in Events, AtomicCreate(e) PROVE UnpaidInv'
  <2>1. /\ row' = row /\ swap' = swap /\ paid' = paid /\ HashOf[e] \in SubDust
        /\ \A f \in Events : f # e => pc'[f] = pc[f]
    BY <1>6, <1>t DEF AtomicCreate, ledgerVars, TypeOK
  <2> QED
    BY <2>1, <1>b, UnpaidStays
<1>7. ASSUME NEW e \in Events, SubmarineReturns(e) \/ AtomicReturns(e) PROVE UnpaidInv'
  <2>1. PICK fee \in 0..MaxFee : Settle(e, fee)
    BY <1>7 DEF SubmarineReturns, AtomicReturns
  <2>2. OthersStay(e) /\ pc'[e] = "answering" /\ row'[e].state = "settled"
    BY <2>1, <1>t, SettleRow
  <2>3. paid' = paid /\ swap' = swap
    BY <2>1 DEF Settle
  <2> QED
    BY <2>2, <2>3, <1>b, UnpaidStays DEF OthersStay
<1>8. ASSUME NEW e \in Events, SendRejected(e) \/ SubmarineThrows(e) \/ AtomicThrows(e)
      PROVE  UnpaidInv'
  <2>1. Fail(e)
    BY <1>8 DEF SendRejected, SubmarineThrows, AtomicThrows
  <2>2. OthersStay(e) /\ pc'[e] = "answering"
    BY <2>1, <1>t, FailRow
  <2>3. paid' = paid /\ swap' = swap
    BY <2>1 DEF Fail
  <2>4. swap[e] # "paid"
    BY <1>8, <1>t DEF SendRejected, SubmarineThrows, AtomicThrows, HandlerInv, RailInv
  <2> QED
    BY <2>2, <2>3, <2>4, <1>b, UnpaidStays DEF OthersStay
<1>9. ASSUME NEW e \in Events, Answer(e) PROVE UnpaidInv'
  <2>1. /\ row' = row /\ swap' = swap /\ paid' = paid
        /\ \A f \in Events : pc'[f] \in {pc[f], "idle"}
    BY <1>9, <1>t DEF Answer, ledgerVars, swapVars, TypeOK
  <2> QED
    BY <2>1, <1>b, UnpaidStays
<1>10. ASSUME NEW e \in Events, SwapTerminal(e) PROVE UnpaidInv'
  <2>1. /\ OthersStay(e) /\ pc' = pc
        /\ \/ row'[e].state = row[e].state
           \/ swap[e] = "paid" /\ row'[e].state = "settled"
           \/ swap[e] = "failed"
    BY <1>10, <1>t, TerminalRow
  <2>2. paid' = paid /\ swap' = swap
    BY <1>10 DEF SwapTerminal
  <2> QED
    BY <2>1, <2>2, <1>b, UnpaidStays DEF OthersStay
<1>s. ASSUME NEW e \in Events, SdkSaves(e) PROVE UnpaidInv'
  BY <1>s, <1>b, UnpaidStays DEF SdkSaves, ledgerVars, reqVars
<1>11. ASSUME NEW e \in Events, ReconcileOutgoing(e) PROVE UnpaidInv'
  <2>1. OthersStay(e) /\ pc' = pc /\ book[HashOf[e]] \in {"claimed", "unpaid", "returned"}
    BY <1>11, <1>t, ReconcileRow
  <2>2. paid' = paid /\ swap' = swap
    BY <1>11 DEF ReconcileOutgoing, swapVars
  <2>3. swap[e] = "none"
    BY <2>1, <1>t, Names DEF RailInv
  <2> QED
    BY <2>1, <2>2, <2>3, <1>b, UnpaidStays DEF OthersStay
<1>12. ASSUME NEW e \in Events, SwapFails(e) PROVE UnpaidInv'
  <2>1. /\ row' = row /\ pc' = pc /\ paid' = paid /\ swap[e] # "paid" /\ swap'[e] = "failed"
        /\ \A f \in Events : f # e => swap'[f] = swap[f]
    BY <1>12, <1>t DEF SwapFails, ledgerVars, reqVars, TypeOK
  <2> QED
    BY <2>1, <1>b, UnpaidStays
<1>13. ASSUME NEW x \in Hashes, Pays(x) PROVE UnpaidInv'
  <2>1. /\ row' = row /\ pc' = pc /\ paid'[x]
        /\ \A y \in Hashes : y # x => paid'[y] = paid[y]
    BY <1>13, <1>t DEF Pays, ledgerVars, reqVars, TypeOK
  <2>2. CASE book[x] = "open" /\ swap' = swap
    <3>1. x \in SubDust
      BY <2>2, <1>t DEF RailInv
    <3> QED
      BY <1>r, <2>1, <2>2, <3>1, Names DEF UnpaidInv
  <2>3. CASE \E e \in Events : /\ HashOf[e] = x /\ swap[e] = "funded"
                               /\ swap' = [swap EXCEPT ![e] = "paid"]
    <3>1. PICK e \in Events : /\ HashOf[e] = x /\ swap[e] = "funded"
                              /\ swap' = [swap EXCEPT ![e] = "paid"]
      BY <2>3
    <3>2. /\ swap'[e] = "paid" /\ \A f \in Events : f # e => swap'[f] = swap[f]
      BY <3>1, <1>t DEF TypeOK
    <3>3. HashOf[e] \notin SubDust /\ row[e].state = "pending"
      BY <3>1, <1>t DEF RailInv, IInv, FlightInv
    <3>4. \A f \in Events : (/\ HashOf[f] = x
                             /\ pc[f] = "sending" \/ (pc[f] = "waiting" /\ swap[f] = "created"))
                                => FALSE
      BY <3>1, <3>3, <1>t DEF IInv, FlightInv, OnePending, OneConnPerHash, HandlerInv
    <3>5. \A f \in Events : (/\ HashOf[f] \notin SubDust
                             /\ pc'[f] = "sending" \/ (pc'[f] = "waiting" /\ swap'[f] = "created"))
                => ~paid'[HashOf[f]] \/ BareReport(HashOf[f])'
      BY <1>r, <2>1, <3>1, <3>2, <3>4, Names DEF UnpaidInv
    <3>6. \A y \in Hashes \ SubDust : paid'[y] =>
             \E f \in Events : /\ HashOf[f] = y /\ swap'[f] = "paid"
                               /\ row'[f].state \in {"pending", "settled"}
      BY <2>1, <3>1, <3>2, <3>3 DEF UnpaidInv
    <3> QED
      BY <3>5, <3>6 DEF UnpaidInv
  <2> QED
    BY <1>13, <2>2, <2>3 DEF Pays
<1>14. CASE (\E x \in Hashes : BookCloses(x)) \/ NewDay
  BY <1>14, <1>b, UnpaidStays DEF BookCloses, NewDay, ledgerVars, reqVars, swapVars
<1>15. CASE Crash
  BY <1>15, <1>b, UnpaidStays DEF Crash, ledgerVars
<1> QED
  BY <1>s, <1>1, <1>2, <1>3, <1>4, <1>5, <1>6, <1>7, <1>8, <1>9, <1>10, <1>11, <1>12, <1>13, <1>14,
     <1>15 DEF Next, Handler

\* If no send throws while its swap lives on and an invoice is asked for over one
\* connection, no swap is funded for an invoice that is already paid, unless the
\* listener was told of that payment without a preimage.
THEOREM NothingPaidTwice ==
    ASSUME "error" \notin Faults, OneConnPerHash
    PROVE  Spec => PaidIsNotRefunded
<1>1. Init => UnpaidInv
  BY Names DEF Init, UnpaidInv
<1>2. IInv /\ SendInv /\ UnpaidInv /\ [Next]_vars => UnpaidInv'
  BY UnpaidNext
<1>3. IInv /\ UnpaidInv /\ [Next]_vars
        => [\A e \in Events : (swap[e] # "funded" /\ swap'[e] = "funded") 
               => ~paid[HashOf[e]] \/ BareReport(HashOf[e])]_vars
  <2> SUFFICES ASSUME IInv, UnpaidInv, Next, NEW e \in Events,
                      swap[e] # "funded", swap'[e] = "funded"
               PROVE  ~paid[HashOf[e]] \/ BareReport(HashOf[e])
    OBVIOUS
  <2>1. TypeOK /\ RailInv
    BY DEF IInv
  <2>2. SubmarineFund(e)
    <3>1. swap \in [Events -> {"none", "created", "funded", "paid", "failed"}]
      BY <2>1 DEF TypeOK
    <3>2. ASSUME NEW f \in Events, SubmarineFund(f) PROVE f = e
      BY <3>1, <3>2 DEF SubmarineFund
    <3>3. ASSUME NEW f \in Events, SubmarineCreate(f) \/ SwapFails(f) PROVE FALSE
      BY <3>1, <3>3 DEF SubmarineCreate, SwapFails
    <3>4. ASSUME NEW x \in Hashes, Pays(x) PROVE FALSE
      BY <3>1, <3>4 DEF Pays
    <3> QED
      BY <3>2, <3>3, <3>4 DEF Next, Handler, Replay, Refuse, Insert, AtomicCreate, SubmarineReturns,
           AtomicReturns, Settle, SendRejected, SubmarineThrows, AtomicThrows, Fail, Answer,
           SdkSaves, SwapTerminal, ReconcileOutgoing, BookCloses, NewDay, Crash, swapVars
  <2>3. pc[e] = "waiting" /\ swap[e] = "created" /\ HashOf[e] \notin SubDust
    BY <2>1, <2>2 DEF SubmarineFund, RailInv
  <2> QED
    BY <2>3 DEF UnpaidInv
<1>4. Spec => [](IInv /\ SendInv /\ UnpaidInv)
  BY <1>1, <1>2, PayLedgerSends, PTL DEF Spec
<1> QED
  BY <1>3, <1>4, PTL DEF Spec, PaidIsNotRefunded
=============================================================================
