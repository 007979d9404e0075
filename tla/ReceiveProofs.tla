--------------------------- MODULE ReceiveProofs ----------------------------
(***************************************************************************)
(* Proofs about Receive for every value of the constants: any clock bound, *)
(* expiry, grace and lifetime, and every combination of faults.            *)
(***************************************************************************)
EXTENDS Receive, TLAPS

Labels == {"idle", "minted", "out", "gone", "status", "locate", "claim",
           "acked", "confirm", "reveal", "look", "publish", "terminal"}

Open == {"invoice_issued", "funded", "claimed"}

\* Where the drive is and what it may rely on: past the status the row is open,
\* it follows the claim, and the preimage is revealed only of a spent vtxo.
DriveInv ==
    /\ pc["drive"] = "locate" => swap \in Open
    /\ pc["drive"] \in {"claim", "acked"} => swap = "funded"
    /\ pc["drive"] \in {"confirm", "reveal"} => swap = "claimed"
    /\ pc["drive"] = "reveal" => coin \in {"claimed", "refunded"}

\* Nobody pays before the invoice is out, and nothing is funded before somebody
\* pays.
IssueInv ==
    /\ pc["issue"] = "idle" => swap = "none"
    /\ pc["issue"] # "out" => payer = "none"
    /\ payer = "none" => coin = "none"

\* A receipt is only sent if there was a row that asks for it.
ReceiptInv == \A p \in Procs : pc[p] = "publish" => ack # "none"

\* boltz reports and does what the preimage lets it.
BoltzInv ==
    /\ knows => coin \in {"claimed", "refunded"}
    /\ payer = "settled" => knows
    /\ boltz = "settled" => knows
    /\ boltz \in {"refund_wait", "refunded"} => coin = "refunded"

\* What the row says about boltz: a refund is booked over a vtxo boltz took back
\* without the preimage, and who revealed it afterwards had claimed.
RowInv ==
    /\ swap # "refund_wait"
    /\ swap = "settled" => knows
    /\ swap = "refunded" => coin = "refunded" /\ ~knows
    /\ knows /\ coin = "refunded" => swap \in {"claimed", "settled"}

\* With an arkd that registers what it acknowledges, a claim is a landing.
LandingInv ==
    ~poisoned =>
        /\ swap = "claimed" \/ pc["drive"] \in {"acked", "confirm", "reveal"} => coin = "claimed"
        /\ knows => coin = "claimed"
        /\ tx = "settled" \/ noted => coin = "claimed"

IInv == TypeOK /\ IssueInv /\ DriveInv /\ ReceiptInv /\ BoltzInv /\ RowInv /\ LandingInv

-----------------------------------------------------------------------------
\* A step of advanceReceive ends in its target or stays where it is.
LEMMA StepStays ==
    ASSUME NEW s \in ReceiveStates, NEW to \in ReceiveStates
    PROVE  Step(s, to) \in {s, to}
BY DEF Step

\* An open row follows a settlement to its end.
LEMMA AdvanceSettled ==
    ASSUME NEW s \in Open
    PROVE  advanceReceive(s, "settled") = "settled"
BY DEF Open, advanceReceive, Step, RECEIVE_TRANSITIONS, ReceiveStates

\* An open row follows a refund to its end, unless it is claimed.
LEMMA AdvanceRefunded ==
    ASSUME NEW s \in Open
    PROVE  /\ advanceReceive(s, "refunded") \in {"refunded", "claimed"}
           /\ advanceReceive(s, "refunded") = "claimed" => s = "claimed"
BY DEF Open, advanceReceive, Step, RECEIVE_TRANSITIONS, ReceiveStates

\* What the end of a pass does to the tables: the row is s or swept, and the
\* ledger and the receipt follow a settled s only.
LEMMA BooksEffect ==
    ASSUME TypeOK,
           NEW s \in ReceiveStates \union {"none"}, NEW fresh \in BOOLEAN, Books(s, fresh)
    PROVE  /\ swap' = s \/ (s = "invoice_issued" /\ swap' = "failed")
           /\ tx' = tx \/ (tx = "pending" /\ tx' \in {"pending", "expired", "settled"})
           /\ tx' = "settled" => tx = "settled" \/ s = "settled"
           /\ noted' \in BOOLEAN
           /\ noted' => noted \/ s = "settled"
           /\ pc' \in [Procs -> Labels] /\ pc'["drive"] = "idle" /\ pc'["issue"] = pc["issue"]
           /\ \A p \in Procs : pc'[p] = "publish" => pc[p] = "publish" \/ ack = "pending"
<1>1. swap' = s \/ (s = "invoice_issued" /\ swap' = "failed")
  BY DEF Books
<1>2. /\ tx' = tx \/ (tx = "pending" /\ tx' \in {"pending", "expired", "settled"})
      /\ tx' = "settled" => tx = "settled" \/ s = "settled"
  BY DEF Books, UpdateTx
<1>3. /\ noted' \in BOOLEAN
      /\ noted' => noted \/ s = "settled"
  BY DEF Books, TypeOK
<1>4. /\ pc' \in [Procs -> Labels] /\ pc'["drive"] = "idle" /\ pc'["issue"] = pc["issue"]
      /\ \A p \in Procs : pc'[p] = "publish" => pc[p] = "publish" \/ ack = "pending"
  BY DEF Books, Goto, TypeOK, Procs, Labels
<1> QED
  BY <1>1, <1>2, <1>3, <1>4

\* A block that ends the drive keeps the invariant, if the row s it leaves is
\* one the preimage, the HTLC and the vtxo allow.
LEMMA BooksKeeps ==
    ASSUME IInv,
           NEW s \in ReceiveStates \union {"none"}, NEW fresh \in BOOLEAN, Books(s, fresh),
           UNCHANGED <<kind, ack, sdk, payer, boltz, clockVars>>,
           coin' = coin \/ (coin = "unspent" /\ coin' = "claimed"),
           poisoned' = poisoned, knows' \in BOOLEAN,
           rail = "swap" => s = "none", swap = "none" => s = "none",
           knows => knows', knows' => knows \/ coin \in {"claimed", "refunded"},
           (knows' /\ ~poisoned) => coin' = "claimed",
           s = "settled" => knows',
           s # "refund_wait",
           s = "refunded" => coin = "refunded" /\ ~knows',
           knows' /\ coin' = "refunded" => s \in {"claimed", "settled"},
           (s = "claimed" /\ ~poisoned) => coin' = "claimed"
    PROVE  IInv'
<1>1. /\ swap' = s \/ (s = "invoice_issued" /\ swap' = "failed")
      /\ tx' = tx \/ (tx = "pending" /\ tx' \in {"pending", "expired", "settled"})
      /\ tx' = "settled" => tx = "settled" \/ s = "settled"
      /\ noted' \in BOOLEAN
      /\ noted' => noted \/ s = "settled"
      /\ pc' \in [Procs -> Labels] /\ pc'["drive"] = "idle" /\ pc'["issue"] = pc["issue"]
      /\ \A p \in Procs : pc'[p] = "publish" => pc[p] = "publish" \/ ack = "pending"
  BY BooksEffect DEF IInv
<1>2. TypeOK'
  BY <1>1 DEF IInv, TypeOK, kind, clockVars, Labels, ReceiveStates
<1>8. IssueInv'
  BY <1>1 DEF IInv, IssueInv
<1>3. DriveInv'
  BY <1>1 DEF DriveInv
<1>4. ReceiptInv'
  BY <1>1 DEF IInv, ReceiptInv
<1>5. BoltzInv'
  BY DEF IInv, BoltzInv
<1>6. RowInv'
  BY <1>1 DEF IInv, RowInv
<1>7. LandingInv'
  BY <1>1 DEF IInv, LandingInv
<1> QED
  BY <1>2, <1>3, <1>4, <1>5, <1>6, <1>7, <1>8 DEF IInv

-----------------------------------------------------------------------------
\* The two issuing handlers and the start of a pass touch nothing the
\* invariant speaks of but the rows they create.
LEMMA IssueKeeps ==
    ASSUME IInv, Issue \/ PassStart
    PROVE  IInv'
<1>1. CASE IssueSwap
  BY <1>1 DEF IssueSwap, Goto, IInv, TypeOK, IssueInv, DriveInv, ReceiptInv, BoltzInv, RowInv, LandingInv,
              kind, worldVars, clockVars, Open, Procs, ReceiveStates
<1>2. CASE IssueRow
  BY <1>2 DEF IssueRow, Goto, IInv, TypeOK, IssueInv, DriveInv, ReceiptInv, BoltzInv, RowInv, LandingInv,
              kind, worldVars, clockVars, Procs
<1>3. CASE PassStart
  BY <1>3 DEF PassStart, IInv, TypeOK, IssueInv, DriveInv, ReceiptInv, BoltzInv, RowInv, LandingInv,
              kind, tableVars, worldVars, clockVars, Procs
<1> QED
  BY <1>1, <1>2, <1>3 DEF Issue

\* The drive of a sub-dust receive.
LEMMA DriveKeeps ==
    ASSUME IInv, Drive
    PROVE  IInv'
<1>t. /\ TypeOK /\ knows \in BOOLEAN /\ poisoned \in BOOLEAN
      /\ swap \in ReceiveStates \union {"none"} /\ (rail = "swap" => swap = "none")
  BY DEF IInv, TypeOK
<1>o. /\ swap \notin Terminal \union {"none"} => swap \in Open
      /\ swap \in Open => swap \in ReceiveStates /\ rail # "swap" /\ swap # "none"
  BY <1>t DEF IInv, RowInv, TypeOK, Terminal, Open, ReceiveStates
<1>b. /\ swap = "settled" => knows
      /\ swap # "refund_wait"
      /\ swap = "refunded" => coin = "refunded" /\ ~knows
      /\ knows /\ coin = "refunded" => swap \in {"claimed", "settled"}
      /\ (swap = "claimed" /\ ~poisoned) => coin = "claimed"
      /\ (knows /\ ~poisoned) => coin = "claimed"
  BY DEF IInv, RowInv, LandingInv
<1>1. CASE DriveStatus
  <2>u. UNCHANGED <<kind, ack, sdk, worldVars, clockVars>>
    BY <1>1 DEF DriveStatus
  <2>1. CASE Books(swap, FALSE)
    BY <2>1, <2>u, <1>t, <1>b, BooksKeeps DEF worldVars
  <2>2. CASE swap \in Open /\ boltz = "settled" /\ Books(advanceReceive(swap, "settled"), TRUE)
    <3> DEFINE s == advanceReceive(swap, "settled")
    <3>1. s = "settled"
      BY <2>2, AdvanceSettled
    <3>2. knows
      BY <2>2 DEF IInv, BoltzInv
    <3>3. Books(s, TRUE) /\ s \in ReceiveStates \union {"none"} /\ rail # "swap" /\ swap # "none"
      BY <2>2, <3>1, <1>o DEF ReceiveStates
    <3> HIDE DEF s
    <3> QED
      BY <3>1, <3>2, <3>3, <2>u, <1>t, <1>b, BooksKeeps DEF worldVars
  <2>3. CASE /\ swap \in Open /\ boltz \in {"refund_wait", "refunded"}
             /\ Books(advanceReceive(swap, "refunded"), FALSE)
    <3> DEFINE s == advanceReceive(swap, "refunded")
    <3>1. s \in {"refunded", "claimed"} /\ (s = "claimed" => swap = "claimed")
      BY <2>3, AdvanceRefunded
    <3>2. coin = "refunded" /\ (knows => swap = "claimed")
      BY <2>3, <1>b DEF IInv, BoltzInv, Open
    <3>4. swap = "claimed" => s = "claimed"
      BY AdvanceRefunded, <2>3 DEF advanceReceive, Step, RECEIVE_TRANSITIONS, ReceiveStates
    <3>3. Books(s, FALSE) /\ s \in ReceiveStates \union {"none"} /\ rail # "swap" /\ swap # "none"
      BY <2>3, <3>1, <1>o DEF ReceiveStates
    <3> HIDE DEF s
    <3> QED
      BY <3>1, <3>2, <3>3, <3>4, <2>u, <1>t, <1>b, BooksKeeps DEF worldVars
  <2>4. CASE swap \in Open /\ Goto("drive", "locate") /\ UNCHANGED <<swap, tx, noted>>
    BY <2>4, <2>u DEF Goto, IInv, TypeOK, IssueInv, DriveInv, ReceiptInv, BoltzInv, RowInv, LandingInv,
                      kind, worldVars, clockVars, Procs
  <2> QED
    BY <1>1, <1>o, <2>1, <2>2, <2>3, <2>4 DEF DriveStatus
<1>2. CASE DriveLocate
  <2>1. CASE Books(swap, FALSE)
    BY <1>2, <2>1, <1>t, <1>b, BooksKeeps DEF DriveLocate, worldVars
  <2>2. CASE /\ coin = "unspent"
             /\ swap' = Step(swap, "funded")
             /\ Goto("drive", IF swap = "claimed" THEN "confirm" ELSE "claim")
             /\ UNCHANGED <<tx, noted>>
    <3>1. swap \in Open /\ ~knows
      BY <1>2, <2>2 DEF DriveLocate, IInv, DriveInv, BoltzInv
    <3>2. swap' \in {swap, "funded"}
      BY <2>2, <3>1, <1>o, StepStays DEF ReceiveStates
    <3>3. UNCHANGED <<kind, ack, sdk, worldVars, clockVars>>
      BY <1>2 DEF DriveLocate
    <3>4. swap' = IF swap = "claimed" THEN "claimed" ELSE "funded"
      BY <2>2, <3>1 DEF Open, Step, RECEIVE_TRANSITIONS, ReceiveStates
    <3>5. swap = "claimed" => poisoned
      BY <1>b, <2>2
    <3> QED
      BY <2>2, <3>1, <3>2, <3>3, <3>4, <3>5, <1>o
      DEF Goto, IInv, TypeOK, IssueInv, DriveInv, ReceiptInv, BoltzInv, RowInv, LandingInv,
          kind, worldVars, clockVars, Procs, ReceiveStates, Open
  <2> QED
    BY <1>2, <2>1, <2>2 DEF DriveLocate
<1>3. CASE DriveClaim
  <2>1. CASE /\ Books(swap, FALSE) /\ UNCHANGED poisoned
             /\ coin' = coin \/ (coin = "unspent" /\ coin' = "claimed")
    <3>1. UNCHANGED <<kind, ack, sdk, payer, boltz, knows, clockVars>>
      BY <1>3 DEF DriveClaim
    <3> QED
      BY <2>1, <3>1, <1>t, <1>b, BooksKeeps
  <2>2. CASE /\ coin = "unspent" /\ coin' = "claimed" /\ Goto("drive", "acked")
             /\ UNCHANGED <<swap, tx, noted, poisoned>>
    BY <1>3, <2>2 DEF DriveClaim, Goto, IInv, TypeOK, IssueInv, DriveInv, ReceiptInv, BoltzInv, RowInv,
                      LandingInv, kind, clockVars, Procs
  <2>3. CASE /\ poisoned' = TRUE /\ Goto("drive", "acked") /\ UNCHANGED <<swap, tx, noted, coin>>
    BY <1>3, <2>3 DEF DriveClaim, Goto, IInv, TypeOK, IssueInv, DriveInv, ReceiptInv, BoltzInv, RowInv,
                      LandingInv, kind, clockVars, Procs
  <2> QED
    BY <1>3, <2>1, <2>2, <2>3 DEF DriveClaim
<1>4. CASE DriveClaimed
  <2>1. swap = "funded" /\ pc["drive"] = "acked" /\ (knows => coin # "refunded")
    BY <1>4 DEF DriveClaimed, IInv, DriveInv, RowInv
  <2>2. swap' = "claimed"
    BY <1>4, <2>1 DEF DriveClaimed, Step, RECEIVE_TRANSITIONS, ReceiveStates
  <2> QED
    BY <1>4, <2>1, <2>2, <1>o DEF DriveClaimed, Goto, IInv, TypeOK, IssueInv, DriveInv, ReceiptInv, BoltzInv,
              RowInv, LandingInv, kind, worldVars, clockVars, Procs, ReceiveStates, Open
<1>5. CASE DriveConfirm
  <2>1. CASE Books(swap, FALSE)
    BY <1>5, <2>1, <1>t, <1>b, BooksKeeps DEF DriveConfirm, worldVars
  <2>2. CASE /\ coin \in {"claimed", "refunded"} /\ Goto("drive", "reveal")
             /\ UNCHANGED <<swap, tx, noted>>
    BY <1>5, <2>2 DEF DriveConfirm, Goto, IInv, TypeOK, IssueInv, DriveInv, ReceiptInv, BoltzInv, RowInv,
                      LandingInv, kind, worldVars, clockVars, Procs
  <2> QED
    BY <1>5, <2>1, <2>2 DEF DriveConfirm
<1>6. CASE DriveReveal
  <2>1. /\ swap = "claimed" /\ swap \in Open /\ coin \in {"claimed", "refunded"}
        /\ ~poisoned => coin = "claimed"
    BY <1>6 DEF DriveReveal, IInv, DriveInv, LandingInv, Open
  <2>2. CASE Books(swap, FALSE)
    BY <1>6, <2>1, <2>2, <1>t, <1>b, BooksKeeps DEF DriveReveal
  <2>3. CASE knows' = TRUE /\ Books(Step(swap, "settled"), TRUE)
    <3> DEFINE s == Step(swap, "settled")
    <3>1. s \in {swap, "settled"} /\ s \in ReceiveStates \union {"none"} /\ Books(s, TRUE)
      <4>1. swap \in ReceiveStates /\ "settled" \in ReceiveStates
        BY <2>1, <1>o DEF ReceiveStates
      <4>2. s \in {swap, "settled"}
        BY <4>1, StepStays
      <4>3. Books(s, TRUE)
        BY <2>3
      <4> QED
        BY <4>1, <4>2, <4>3
    <3>2. UNCHANGED <<kind, ack, sdk, payer, coin, poisoned, boltz, clockVars>>
      BY <1>6 DEF DriveReveal
    <3> HIDE DEF s
    <3> QED
      BY <2>1, <2>3, <3>1, <3>2, <1>t, <1>o, <1>b, BooksKeeps
  <2> QED
    BY <1>6, <2>2, <2>3 DEF DriveReveal
<1> QED
  BY <1>1, <1>2, <1>3, <1>4, <1>5, <1>6 DEF Drive

\* A receipt that stands for a landed receive keeps the invariant.
LEMMA ReceiptKeeps ==
    ASSUME IInv, NEW p \in {"acks", "listen"}, SendReceipt(p),
           UNCHANGED <<kind, ack, sdk, swap, worldVars, clockVars>>,
           tx' = tx \/ (tx = "pending" /\ tx' = "settled"),
           ~poisoned => coin = "claimed"
    PROVE  IInv'
<1>1. noted' \in BOOLEAN
  BY DEF SendReceipt, IInv, TypeOK
<1>2. /\ pc' \in [Procs -> Labels] /\ pc'["drive"] = pc["drive"] /\ pc'["issue"] = pc["issue"]
      /\ \A q \in Procs : pc'[q] = "publish" => pc[q] = "publish" \/ ack = "pending"
  BY DEF SendReceipt, Goto, IInv, TypeOK, Procs, Labels
<1> QED
  BY <1>1, <1>2 DEF IInv, TypeOK, IssueInv, DriveInv, ReceiptInv, BoltzInv, RowInv, LandingInv,
                    kind, worldVars, clockVars, Labels

\* The reconcilers that only keep books, the listener and the receipts.
LEMMA BooksOfOthersKeep ==
    ASSUME IInv, \/ AcksLook \/ IncomingLook \/ SwapTerminal \/ SwapFailed
                 \/ \E p \in {"acks", "inline", "listen"} : Published(p)
    PROVE  IInv'
<1>b. swap = "settled" /\ ~poisoned => coin = "claimed"
  BY DEF IInv, RowInv, LandingInv
<1>1. CASE AcksLook
  <2>1. CASE SendReceipt("acks") /\ UNCHANGED ack /\ (swap = "settled" \/ Landed)
    <3>1. /\ UNCHANGED <<kind, tx, ack, sdk, swap, worldVars, clockVars>>
          /\ ~poisoned => coin = "claimed"
      BY <1>1, <1>b, <2>1 DEF AcksLook, Landed
    <3> QED
      BY <2>1, <3>1, ReceiptKeeps
  <2>2. CASE /\ ack' = (IF ack = "pending" THEN "gone" ELSE ack) \/ ack' = ack
             /\ Goto("acks", "idle") /\ UNCHANGED noted
    BY <1>1, <2>2 DEF AcksLook, Goto, IInv, TypeOK, IssueInv, DriveInv, ReceiptInv,
              BoltzInv, RowInv, LandingInv, kind, worldVars, clockVars, Procs
  <2> QED
    BY <1>1, <2>1, <2>2 DEF AcksLook
<1>2. CASE IncomingLook
  BY <1>2 DEF IncomingLook, UpdateTx, Landed, Goto, IInv, TypeOK, IssueInv, DriveInv, ReceiptInv,
              BoltzInv, RowInv, LandingInv, kind, worldVars, clockVars, Procs
<1>3. CASE SwapTerminal
  <2>1. CASE sdk = "success" /\ Landed /\ UpdateTx("settled") /\ SendReceipt("listen")
    <3>1. /\ UNCHANGED <<kind, ack, sdk, swap, worldVars, clockVars>>
          /\ tx' = tx \/ (tx = "pending" /\ tx' = "settled")
          /\ coin = "claimed"
      BY <1>3, <2>1 DEF SwapTerminal, Landed, UpdateTx
    <3> QED
      BY <2>1, <3>1, ReceiptKeeps
  <2>2. CASE UpdateTx("failed") \/ UNCHANGED tx
    <3>1. CASE Goto("listen", "idle") /\ UNCHANGED noted
      BY <1>3, <2>2, <3>1 DEF SwapTerminal, UpdateTx, Goto, IInv, TypeOK, IssueInv, DriveInv, ReceiptInv,
              BoltzInv, RowInv, LandingInv, kind, worldVars, clockVars, Procs
    <3> QED
      BY <1>3, <2>1, <2>2, <3>1 DEF SwapTerminal
  <2> QED
    BY <1>3, <2>1, <2>2 DEF SwapTerminal
<1>4. CASE SwapFailed
  BY <1>4 DEF SwapFailed, UpdateTx, IInv, TypeOK, IssueInv, DriveInv, ReceiptInv,
              BoltzInv, RowInv, LandingInv, kind, worldVars, clockVars, Procs
<1>5. ASSUME NEW p \in {"acks", "inline", "listen"}, Published(p)
      PROVE  IInv'
  BY <1>5 DEF Published, Goto, IInv, TypeOK, IssueInv, DriveInv, ReceiptInv,
              BoltzInv, RowInv, LandingInv, kind, worldVars, clockVars, Procs
<1> QED
  BY <1>1, <1>2, <1>3, <1>4, <1>5

\* What happens outside, and a crash.
LEMMA OutsideKeeps ==
    ASSUME IInv, Outside, ~SwapFailed
    PROVE  IInv'
<1> USE DEF IInv, TypeOK, IssueInv, DriveInv, ReceiptInv, BoltzInv, RowInv, LandingInv,
            kind, tableVars, worldVars, clockVars, Procs
<1>1. CASE PayerPays
  BY <1>1 DEF PayerPays
<1>2. CASE BoltzFunds
  BY <1>2 DEF BoltzFunds
<1>3. CASE SdkClaims
  BY <1>3 DEF SdkClaims
<1>7. CASE Harvest
  BY <1>7 DEF Harvest
<1>10. CASE BoltzSettles
  BY <1>10 DEF BoltzSettles
<1>8. CASE BoltzTakesBack \/ BoltzCancels
  BY <1>8 DEF BoltzTakesBack, BoltzCancels
<1>4. CASE SdkReports
  BY <1>4 DEF SdkReports, Goto
<1>5. CASE Tick
  <2>1. MaxNow \in Nat
    BY TimesAssumption
  <2>2. now' \in 0..MaxNow
    BY <1>5, <2>1 DEF Tick
  <2> QED
    BY <1>5, <2>2 DEF Tick
<1>9. CASE Stabilise
  BY <1>9 DEF Stabilise
<1>6. CASE Crash
  BY <1>6 DEF Crash
<1> QED
  BY <1>1, <1>2, <1>3, <1>4, <1>5, <1>6, <1>7, <1>8, <1>9, <1>10 DEF Outside

-----------------------------------------------------------------------------
\* The invariant that everything below rests on: it ties the position of the
\* drive, the row, the vtxo, the HTLC and the knowledge of boltz together.
THEOREM ReceiveInvariance == Spec => []IInv
<1>m. MaxNow \in Nat
  BY TimesAssumption
<1>r. Rails \subseteq {"subdust", "swap"} /\ Origins \subseteq {"nwc", "clink"}
  BY KindsAssumption
<1>1. Init => IInv
  <2> SUFFICES ASSUME Init PROVE IInv
    OBVIOUS
  <2>1. pc \in [Procs -> Labels] /\ \A p \in Procs : pc[p] = "idle"
    BY DEF Init, Labels
  <2>3. now \in 0..MaxNow
    BY <1>m DEF Init
  <2>4. noted \in BOOLEAN /\ poisoned \in BOOLEAN /\ knows \in BOOLEAN /\ stable \in BOOLEAN
    BY DEF Init
  <2>5. rail \in {"subdust", "swap"} /\ origin \in {"nwc", "clink"}
    BY <1>r DEF Init
  <2>6. /\ swap = "none" /\ tx = "none" /\ ack = "none" /\ sdk = "none"
        /\ payer = "none" /\ coin = "none" /\ boltz = "invoice"
    BY DEF Init
  <2>2. TypeOK
    BY <2>1, <2>3, <2>4, <2>5, <2>6 DEF TypeOK, Labels
  <2> QED
    BY <2>1, <2>2 DEF Init, IInv, IssueInv, DriveInv, ReceiptInv, BoltzInv, RowInv, LandingInv, Procs
<1>2. IInv /\ [Next]_vars => IInv'
  <2> SUFFICES ASSUME IInv, [Next]_vars PROVE IInv'
    OBVIOUS
  <2>1. CASE Next
    BY <2>1, IssueKeeps, DriveKeeps, BooksOfOthersKeep, OutsideKeeps DEF Next, Acks, Listen
  <2>2. CASE UNCHANGED vars
    BY <2>2 DEF vars, IInv, TypeOK, IssueInv, DriveInv, ReceiptInv, BoltzInv, RowInv, LandingInv,
                kind, tableVars, worldVars, clockVars
  <2> QED
    BY <2>1, <2>2
<1> QED
  BY <1>1, <1>2, PTL DEF Spec

\* Every variable keeps its type, and each rail and origin its own tables.
THEOREM ReceiveTypeCorrect == Spec => []TypeOK
<1>1. IInv => TypeOK
  BY DEF IInv
<1> QED
  BY <1>1, ReceiveInvariance, PTL

\* The preimage is revealed, to boltz or by the claim, over a spent vtxo only
\* (the confirmSpent of driveAtomicReceive, F18).
THEOREM PreimageIsKept == Spec => []RevealMeansSpent
<1>1. IInv => RevealMeansSpent
  BY DEF IInv, BoltzInv, RevealMeansSpent
<1> QED
  BY <1>1, ReceiveInvariance, PTL

\* No payer is debited for a vtxo that did not arrive and neither the ledger nor
\* a receipt claims money that is not there, in whatever order the pass, boltz,
\* its refund and a crash come (ln_receive.ts, issueInvoice; M3).
THEOREM MoneyIsCovered == Spec => []MoneyMeansLanded
<1>1. IInv => MoneyMeansLanded
  BY DEF IInv, BoltzInv, LandingInv, MoneyMeansLanded
<1> QED
  BY <1>1, ReceiveInvariance, PTL

\* A closed row agrees with the payer's HTLC.
THEOREM RowsCloseRight == Spec => []ClosedRowIsRight
<1>1. IInv => ClosedRowIsRight
  BY DEF IInv, BoltzInv, RowInv, ClosedRowIsRight
<1> QED
  BY <1>1, ReceiveInvariance, PTL
=============================================================================
