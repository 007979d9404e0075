----------------------------- MODULE PayLedger ------------------------------
(***************************************************************************)
(* Paying invoices over NWC: the request loop (src/src/nostr/service.ts),  *)
(* pay_invoice (src/src/handlers/pay_invoice.ts) with its budget check     *)
(* (src/src/lib/budget.ts), both rails of sendLightning                    *)
(* (src/src/ln_send.ts) and everything in src/src/boltz.ts that later      *)
(* rewrites a row of the `transactions` table.                             *)
(*                                                                         *)
(* The table has three writers: the handler that inserted the row, the     *)
(* listener of the SDK's SwapManager, and the reconcile pass. A row is     *)
(* keyed by the request event, but is also found by payment hash, by       *)
(* connection and by swap id, and each writer uses another of these keys.  *)
(* An action is one synchronous block of one of them.                      *)
(*                                                                         *)
(* The sub-dust rail is seen from outside, as module SwapContract promises *)
(* it: one atomic swap per payment hash, open until its books are closed.  *)
(***************************************************************************)
EXTENDS Integers, FiniteSets

CONSTANTS
    Events,     \* request events: each is one pay_invoice request
    Conns,      \* NWC connections
    Hashes,     \* payment hashes: each is one invoice
    ConnOf, HashOf,     \* of an event
    AmountOf,   \* the nominal of an invoice
    SubDust,    \* the invoices below the dust limit
    Budget,     \* budget_msat of a connection
    Daily,      \* the connections whose budget renews; the rest are 'never'
    MaxFee,     \* bound on the fee of a send
    MaxDay,     \* bound on the budget windows
    Faults      \* "crash": the bridge dies; "error": a send throws although
                \* its swap lives on (a lost response, a broken socket)

ASSUME RequestsAssumption ==
    /\ ConnOf \in [Events -> Conns] /\ HashOf \in [Events -> Hashes]
    /\ AmountOf \in [Hashes -> Nat \ {0}] /\ SubDust \subseteq Hashes
    /\ Budget \in [Conns -> Nat] /\ Daily \subseteq Conns
    /\ IsFiniteSet(Events)

ASSUME LimitsAssumption ==
    /\ MaxFee \in Nat /\ MaxDay \in Nat
    /\ Faults \subseteq {"crash", "error"}

VARIABLES
    row,        \* transactions: per event its state, swap link, fees, preimage, window
    spent,      \* connections.spent_msat
    processed,  \* processed_events
    told,       \* what the client has been answered
    pc,         \* the handler that works on an event's payment
    swap,       \* the submarine swap of an event
    synced,     \* how far the SDK's report of that swap's end has come
    book,       \* the atomic swap of a hash, "none" before it exists
    bookPre,    \* ... and whether its row holds the preimage
    paid,       \* the invoice is paid on Lightning
    day         \* the current budget window

ledgerVars == <<row, spent>>
reqVars    == <<processed, told, pc>>
swapVars   == <<swap, synced, book, bookPre, paid>>
vars == <<ledgerVars, reqVars, swapVars, day>>

-----------------------------------------------------------------------------
(* Reading the ledger.                                                     *)

Nominal(e) == AmountOf[HashOf[e]]

NoRow == [state |-> "none", linked |-> FALSE, fees |-> 0, preimage |-> FALSE, day |-> 0]

RowsOf(conn) == {e \in Events : ConnOf[e] = conn}

\* SUM(amount) over a set of rows, as the number of its units: a sum without an
\* order of summation.
Total(amount, rows) == Cardinality(UNION {{e} \X (1..amount[e]) : e \in rows})

Nominals == [e \in Events |-> Nominal(e)]
Costs == [e \in Events |-> Nominal(e) + row[e].fees]

\* Mutant: only this request's own payment is looked up.
ReplayableSameEvent(e) == row[e].state = "settled" /\ row[e].preimage

SettledRows(e) == {f \in Events : HashOf[f] = HashOf[e] /\ row[f].state = "settled"}

\* A settled payment of this hash whose preimage can be replayed, whichever
\* connection made it.
Replayable(e) == \E f \in SettledRows(e) : row[f].preimage

\* The query takes one settled row (LIMIT 1), perhaps one without a preimage.
MissesReplay(e) == ~Replayable(e) \/ \E f \in SettledRows(e) : ~row[f].preimage

\* Mutant: only the request's own row counts as in flight.
InFlightSameEvent(e) == row[e].state = "pending"

\* A payment of this hash in flight on this connection.
InFlight(e) ==
    \E f \in RowsOf(ConnOf[e]) : HashOf[f] = HashOf[e] /\ row[f].state = "pending"

\* Mutant: pending rows reserve nothing.
cycleSpentMsatSettled(conn) ==
    IF conn \in Daily
    THEN Total(Costs, {e \in RowsOf(conn) : row[e].state = "settled" /\ row[e].day = day})
    ELSE spent[conn]

\* The counter and the pending rows for a 'never' budget, the rows of the
\* current window for one that renews. A pending row has no fee yet.
cycleSpentMsat(conn) ==
    IF conn \in Daily
    THEN Total(Costs, {e \in RowsOf(conn) : /\ row[e].state \in {"pending", "settled"}
                                            /\ row[e].day = day})
    ELSE spent[conn] + Total(Nominals, {e \in RowsOf(conn) : row[e].state = "pending"})

Init ==
    /\ row = [e \in Events |-> NoRow]
    /\ spent = [conn \in Conns |-> 0]
    /\ processed = {}
    /\ told = [e \in Events |-> {}]
    /\ pc = [e \in Events |-> "idle"]
    /\ swap = [e \in Events |-> "none"]
    /\ synced = [e \in Events |-> "no"]
    /\ book = [x \in Hashes |-> "none"]
    /\ bookPre = [x \in Hashes |-> FALSE]
    /\ paid = [x \in Hashes |-> FALSE]
    /\ day = 0
-----------------------------------------------------------------------------
(* A request arrives: handleEvent and handlePayInvoice up to the first     *)
(* await. The relay may deliver an event again until it is processed, also *)
(* while a handler is still at work on it and after a restart.             *)

Tell(e, what) == told' = [told EXCEPT ![e] = @ \union {what}]

Refused(e) ==
    \/ InFlight(e)
    \/ cycleSpentMsat(ConnOf[e]) + Nominal(e) > Budget[ConnOf[e]]

\* M2: the stored preimage is the answer.
Replay(e) ==
    /\ e \notin processed /\ Replayable(e)
    /\ Tell(e, "preimage") /\ processed' = processed \union {e}
    /\ UNCHANGED <<ledgerVars, pc, swapVars, day>>

\* In flight, over budget, or the INSERT hits UNIQUE(request_event_id).
Refuse(e) ==
    /\ e \notin processed /\ MissesReplay(e)
    /\ Refused(e) \/ row[e].state # "none"
    /\ Tell(e, "error") /\ processed' = processed \union {e}
    /\ UNCHANGED <<ledgerVars, pc, swapVars, day>>

\* The row is inserted in the same block as the check, and reserves budget.
Insert(e) ==
    /\ e \notin processed /\ MissesReplay(e) /\ ~Refused(e)
    /\ row[e].state = "none"
    /\ row' = [row EXCEPT ![e] = [@ EXCEPT !.state = "pending", !.day = day]]
    /\ pc' = [pc EXCEPT ![e] = "sending"]
    /\ UNCHANGED <<spent, processed, told, swapVars, day>>

-----------------------------------------------------------------------------
(* sendLightning.                                                          *)

\* Mutant: the swap id is written at settlement only.
SubmarineCreateUnlinked(e) ==
    /\ pc[e] = "sending" /\ HashOf[e] \notin SubDust
    /\ swap' = [swap EXCEPT ![e] = "created"]
    /\ pc' = [pc EXCEPT ![e] = "waiting"]
    /\ UNCHANGED <<ledgerVars, processed, told, synced, book, bookPre, paid, day>>

\* createSubmarineSwap returns; onSwapCreated links the pending row (R1).
SubmarineCreate(e) ==
    /\ pc[e] = "sending" /\ HashOf[e] \notin SubDust
    /\ swap' = [swap EXCEPT ![e] = "created"]
    /\ row' = [row EXCEPT ![e].linked = @ \/ row[e].state = "pending"]
    /\ pc' = [pc EXCEPT ![e] = "waiting"]
    /\ UNCHANGED <<spent, processed, told, synced, book, bookPre, paid, day>>

\* sendSelected funds the lockup.
SubmarineFund(e) ==
    /\ pc[e] = "waiting" /\ swap[e] = "created"
    /\ swap' = [swap EXCEPT ![e] = "funded"]
    /\ UNCHANGED <<ledgerVars, reqVars, synced, book, bookPre, paid, day>>

\* atomicSubdustSend creates the row of its swap.
AtomicCreate(e) ==
    /\ pc[e] = "sending" /\ HashOf[e] \in SubDust
    /\ book[HashOf[e]] = "none"
    /\ book' = [book EXCEPT ![HashOf[e]] = "open"]
    /\ pc' = [pc EXCEPT ![e] = "waiting"]
    /\ UNCHANGED <<ledgerVars, processed, told, swap, synced, bookPre, paid, day>>

-----------------------------------------------------------------------------
(* The handler gets its result.                                            *)

\* The settle transaction: the row, whatever its state, and the counter.
Settle(e, fee) ==
    /\ row' = [row EXCEPT ![e] = [@ EXCEPT !.state = "settled", !.linked = TRUE,
                                           !.fees = fee, !.preimage = TRUE]]
    /\ spent' = [spent EXCEPT ![ConnOf[e]] = @ + Nominal(e) + fee]
    /\ Tell(e, "preimage")
    /\ pc' = [pc EXCEPT ![e] = "answering"]
    /\ UNCHANGED <<processed, swap, synced, paid, day>>

SubmarineReturns(e) ==
    /\ pc[e] = "waiting" /\ swap[e] = "paid"
    /\ \E fee \in 0..MaxFee : Settle(e, fee)
    /\ UNCHANGED <<book, bookPre>>

\* The atomic row is claimed, without its preimage, or the claim is not
\* confirmed and the row stays open, with it.
AtomicReturns(e) ==
    LET x == HashOf[e] IN
    /\ pc[e] = "waiting" /\ x \in SubDust /\ paid[x]
    /\ \E fee \in 0..MaxFee : Settle(e, fee)
    /\ \/ book' = [book EXCEPT ![x] = "claimed"] /\ UNCHANGED bookPre
       \/ bookPre' = [bookPre EXCEPT ![x] = TRUE] /\ UNCHANGED book

\* The catch: the row, whatever its state, becomes 'failed'.
Fail(e) ==
    /\ row' = [row EXCEPT ![e].state = "failed"]
    /\ Tell(e, "error")
    /\ pc' = [pc EXCEPT ![e] = "answering"]
    /\ UNCHANGED <<spent, processed, swap, synced, bookPre, paid, day>>

\* Before there is a swap anything may throw, a second atomic swap for the
\* hash (DuplicateSwapError) always does.
SendRejected(e) ==
    /\ pc[e] = "sending" /\ Fail(e) /\ UNCHANGED book

\* The swap failed, or was never funded.
SubmarineThrows(e) ==
    /\ pc[e] = "waiting" /\ HashOf[e] \notin SubDust
    /\ swap[e] \in {"created", "failed"} \/ "error" \in Faults
    /\ Fail(e) /\ UNCHANGED book

\* boltz declared the payment failed and the funding is back, or on its way;
\* or only the answer got lost.
AtomicThrows(e) ==
    LET x == HashOf[e] IN
    /\ pc[e] = "waiting" /\ x \in SubDust
    /\ \/ ~paid[x] /\ \E b \in {"doomed", "unpaid"} : book' = [book EXCEPT ![x] = b]
       \/ "error" \in Faults /\ UNCHANGED book
    /\ Fail(e)

\* The answer is published and the event marked processed.
Answer(e) ==
    /\ pc[e] = "answering"
    /\ pc' = [pc EXCEPT ![e] = "idle"]
    /\ processed' = processed \union {e}
    /\ UNCHANGED <<ledgerVars, told, swapVars, day>>

-----------------------------------------------------------------------------
(* The other two writers.                                                  *)

\* syncSwapToDb: the row with this swap id, if it is still pending. What it
\* stores as preimage is what the SDK's swap holds, perhaps nothing.
syncSwapToDb(e, state, preimage) ==
    LET hit == row[e].linked /\ row[e].state = "pending"
    IN  row' = [row EXCEPT ![e] = [@ EXCEPT
               !.state = IF hit THEN state ELSE row[e].state,
               !.preimage = row[e].preimage \/ (hit /\ preimage)]]

\* The SwapManager sees the swap's end and stores its final status. From here
\* on no restart monitors the swap again.
SdkSaves(e) ==
    /\ swap[e] \in {"paid", "failed"} /\ synced[e] = "no"
    /\ synced' = [synced EXCEPT ![e] = "saved"]
    /\ UNCHANGED <<ledgerVars, reqVars, swap, book, bookPre, paid, day>>

\* onSwapTerminal / onSwapFailed for a submarine swap. The report of a paid
\* swap may come without the preimage.
SwapTerminal(e) ==
    /\ swap[e] \in {"paid", "failed"} /\ synced[e] = "saved"
    /\ \E preimage \in BOOLEAN :
          /\ preimage => swap[e] = "paid"
          /\ syncSwapToDb(e, IF swap[e] = "paid" THEN "settled" ELSE "failed", preimage)
          /\ synced' = [synced EXCEPT ![e] =
                            IF swap[e] = "paid" /\ ~preimage THEN "bare" ELSE "told"]
    /\ UNCHANGED <<spent, reqVars, swap, book, bookPre, paid, day>>

\* Mutant: any closed atomic swap settles the row.
ReconcileOutgoingAnyClosed(e) ==
    /\ row[e].state = "pending"
    /\ book[HashOf[e]] \in {"claimed", "unpaid", "returned"}
    /\ row' = [row EXCEPT ![e] = [@ EXCEPT !.state = "settled",
                                             !.preimage = row[e].preimage \/ bookPre[HashOf[e]]]]
    /\ spent' = [spent EXCEPT ![ConnOf[e]] = @ + Nominal(e)]
    /\ UNCHANGED <<reqVars, swapVars, day>>

\* Mutant: the row is settled and the counter left alone.
ReconcileOutgoingUncounted(e) ==
    LET x == HashOf[e] IN
    /\ row[e].state = "pending"
    /\ \/ /\ book[x] = "claimed"
          /\ row' = [row EXCEPT ![e] = [@ EXCEPT !.state = "settled",
                                                   !.preimage = row[e].preimage \/ bookPre[x]]]
       \/ /\ book[x] \in {"unpaid", "returned"}
          /\ row' = [row EXCEPT ![e].state = "failed"]
    /\ UNCHANGED <<spent, reqVars, swapVars, day>>

\* The outgoing half of reconcilePendingIncoming, for one pending row: the
\* atomic swap of its hash decides it (M1), the counter follows (R2).
ReconcileOutgoing(e) ==
    LET x == HashOf[e] IN
    /\ row[e].state = "pending"
    /\ \/ /\ book[x] = "claimed"
          /\ row' = [row EXCEPT ![e] = [@ EXCEPT !.state = "settled",
                                                   !.preimage = row[e].preimage \/ bookPre[x]]]
          /\ spent' = [spent EXCEPT ![ConnOf[e]] = @ + Nominal(e)]
       \/ /\ book[x] \in {"unpaid", "returned"}
          /\ row' = [row EXCEPT ![e].state = "failed"]
          /\ UNCHANGED spent
    /\ UNCHANGED <<reqVars, swapVars, day>>

-----------------------------------------------------------------------------
(* Outside.                                                                *)

\* Lightning pays a payment hash once.
Pays(x) ==
    /\ ~paid[x] /\ paid' = [paid EXCEPT ![x] = TRUE]
    /\ \/ book[x] = "open" /\ UNCHANGED swap
       \/ \E e \in Events : /\ HashOf[e] = x /\ swap[e] = "funded"
                            /\ swap' = [swap EXCEPT ![e] = "paid"]
    /\ UNCHANGED <<ledgerVars, reqVars, synced, book, bookPre, day>>

\* An unpaid swap expires, or its payment fails.
SwapFails(e) ==
    /\ swap[e] \in {"created", "funded"}
    /\ swap' = [swap EXCEPT ![e] = "failed"]
    /\ UNCHANGED <<ledgerVars, reqVars, synced, book, bookPre, paid, day>>

\* resumeAtomicSends closes the books of a swap no live call drives, as
\* module SwapContract allows.
BookCloses(x) ==
    /\ book[x] \in {"open", "doomed"}
    /\ \A e \in Events : HashOf[e] = x => pc[e] # "waiting"
    /\ \/ /\ paid[x]
          /\ book' = [book EXCEPT ![x] = "claimed"]
          /\ bookPre' = [bookPre EXCEPT ![x] = TRUE]
       \/ /\ ~paid[x]
          /\ \E b \in {"unpaid", "returned"} : book' = [book EXCEPT ![x] = b]
          /\ UNCHANGED bookPre
    /\ UNCHANGED <<ledgerVars, reqVars, swap, synced, paid, day>>

NewDay ==
    /\ day < MaxDay /\ day' = day + 1
    /\ UNCHANGED <<ledgerVars, reqVars, swapVars>>

\* The process dies and restarts; also between the claimed transition of a
\* returning atomic send and the handler's settle transaction. A report that
\* the SDK had stored and not yet made is lost for good.
Crash ==
    /\ "crash" \in Faults
    /\ pc' = [e \in Events |-> "idle"]
    /\ \/ UNCHANGED book
       \/ \E e \in Events :
             /\ pc[e] = "waiting" /\ HashOf[e] \in SubDust /\ paid[HashOf[e]]
             /\ book' = [book EXCEPT ![HashOf[e]] = "claimed"]
    /\ synced' = [e \in Events |-> IF synced[e] = "saved" THEN "lost" ELSE synced[e]]
    /\ UNCHANGED <<ledgerVars, processed, told, swap, bookPre, paid, day>>

-----------------------------------------------------------------------------
Handler(e) ==
    \/ SubmarineCreate(e) \/ SubmarineFund(e) \/ AtomicCreate(e)
    \/ SubmarineReturns(e) \/ AtomicReturns(e)
    \/ SendRejected(e) \/ SubmarineThrows(e) \/ AtomicThrows(e) \/ Answer(e)

Next ==
    \/ \E e \in Events :
          \/ Replay(e) \/ Refuse(e) \/ Insert(e) \/ Handler(e)
          \/ SdkSaves(e) \/ SwapTerminal(e) \/ ReconcileOutgoing(e) \/ SwapFails(e)
    \/ \E x \in Hashes : Pays(x) \/ BookCloses(x)
    \/ NewDay \/ Crash

Spec == Init /\ [][Next]_vars

\* The event loop runs handlers on, a swap ends one way or the other within
\* its timeout, the SDK stores that and, if the bridge lives that long, reports
\* it, the reconcile timer fires for ever and an atomic swap's books are closed
\* in the end.
Fairness ==
    /\ \A e \in Events :
          /\ WF_vars(Handler(e)) /\ WF_vars(SdkSaves(e)) /\ WF_vars(SwapTerminal(e))
          /\ WF_vars(ReconcileOutgoing(e)) /\ WF_vars(SwapFails(e))
    /\ \A x \in Hashes : WF_vars(BookCloses(x))

LiveSpec == Spec /\ Fairness

-----------------------------------------------------------------------------
(* Properties.                                                             *)

RowType == [state : {"none", "pending", "settled", "failed"}, linked : BOOLEAN,
            fees : 0..MaxFee, preimage : BOOLEAN, day : 0..MaxDay]

\* Every variable has its type.
TypeOK ==
    /\ row \in [Events -> RowType]
    /\ spent \in [Conns -> Nat]
    /\ processed \subseteq Events
    /\ told \in [Events -> SUBSET {"preimage", "error"}]
    /\ pc \in [Events -> {"idle", "sending", "waiting", "answering"}]
    /\ swap \in [Events -> {"none", "created", "funded", "paid", "failed"}]
    /\ synced \in [Events -> {"no", "saved", "told", "bare", "lost"}]
    /\ book \in [Hashes -> {"none", "open", "doomed", "claimed", "unpaid", "returned"}]
    /\ bookPre \in [Hashes -> BOOLEAN]
    /\ paid \in [Hashes -> BOOLEAN]
    /\ day \in 0..MaxDay

\* A settled row, and a preimage handed to a client, stand for an invoice
\* that Lightning has paid, whichever of the three writers settled it.
SettledWasPaid ==
    \A e \in Events :
        row[e].state = "settled" \/ "preimage" \in told[e] => paid[HashOf[e]]

\* Two requests of one connection never have funded swaps for the same
\* invoice at once, across redeliveries, crashes and late listeners.
OneFundedSwap ==
    \A e, f \in Events :
        (e # f /\ ConnOf[e] = ConnOf[f] /\ HashOf[e] = HashOf[f])
            => ~(swap[e] = "funded" /\ swap[f] = "funded")

\* The listener was told of a paid swap for this invoice without its preimage.
BareReport(x) == \E f \in Events : HashOf[f] = x /\ synced[f] = "bare"

\* No swap is funded for an invoice that is already paid (M2), with one
\* exception: the listener was told of the payment without a preimage, and the
\* row it settled has none to replay.
PaidIsNotRefunded ==
    [][\A e \in Events :
          (swap[e] # "funded" /\ swap'[e] = "funded")
              => ~paid[HashOf[e]] \/ BareReport(HashOf[e])]_vars

\* The nominals a connection has committed in a budget window, in flight or
\* settled, never exceed its budget, however the requests interleave.
Committed(conn, d) ==
    Total(Nominals, {e \in RowsOf(conn) : /\ row[e].state \in {"pending", "settled"}
                                          /\ conn \in Daily => row[e].day = d})
BudgetHolds == \A conn \in Conns, d \in 0..MaxDay : Committed(conn, d) <= Budget[conn]

\* The lifetime counter has at least what the settled rows of the sub-dust
\* payments say was spent, whoever settled them and however often the bridge died
\* in between: the pass charges what the handler did not, so no 'never' budget
\* is undercounted (R2).
CounterCoversSubDust ==
    \A conn \in Conns :
        spent[conn] >= Total(Costs, {e \in RowsOf(conn) : /\ HashOf[e] \in SubDust
                                                          /\ row[e].state = "settled"})

\* A pending row whose swap exists is resolved, by the handler or, when a
\* crash took the handler away, by the listener or the reconcile pass (R1, M1).
\* The one exception: the bridge died between the SDK's save of the final
\* status of a submarine swap and its report, which nothing repeats.
SwapRowResolves ==
    \A e \in Events :
        (row[e].state = "pending" /\ (swap[e] # "none" \/ book[HashOf[e]] # "none"))
            ~> (row[e].state # "pending" \/ synced[e] = "lost")

=============================================================================
