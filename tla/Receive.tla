------------------------------ MODULE Receive -------------------------------
(***************************************************************************)
(* One incoming invoice, from issueInvoice (src/src/ln_receive.ts) to the  *)
(* ledger row or the CLINK receipt that says it was paid.                  *)
(*                                                                         *)
(* There are two rails. Below the dust limit the bridge drives an atomic   *)
(* receive itself (src/src/atomic/receive.ts): boltz holds the payer's     *)
(* HTLC and funds a shared vtxo, the bridge claims it with its preimage    *)
(* and then tells boltz. Above it the SDK's SwapManager claims a VHTLC and *)
(* the bridge only keeps the books (src/src/boltz.ts). And there are two   *)
(* origins: an NWC make_invoice has a row in `transactions`, a CLINK offer *)
(* a row that says whom to send the receipt (src/src/clink/offers.ts).     *)
(*                                                                         *)
(* Every 30 seconds a pass (src/src/index.ts) runs three reconcilers side  *)
(* by side, `drive`, `incoming` and `acks`; the SDK's listener and a       *)
(* receipt sent inline by `drive` run next to it. An action is one         *)
(* synchronous block of one of them.                                       *)
(***************************************************************************)
EXTENDS Naturals

CONSTANTS
    Rails, Origins,     \* the kinds of invoice to look at
    ExpiresAt,          \* the BOLT11 can be paid up to here
    EXPIRY_GRACE,       \* how much later an unpaid invoice is given up
    T,                  \* from here on boltz may take its funding back
    SUBDUST_ACK_TTL,    \* age at which an unsent receipt is dropped
    MaxNow,             \* bound on the clock
    Faults              \* what may go wrong outside, see FaultKinds

\* crash: the bridge dies.  error: a call to boltz, arkd or the indexer fails.
\* lost: it succeeds and its response is lost.  poison: arkd acknowledges a
\* claim and never registers it.  word: boltz reports a reverse swap settled
\* that has not landed.
FaultKinds == {"crash", "error", "lost", "poison", "word"}

ASSUME KindsAssumption ==
    /\ Rails \subseteq {"subdust", "swap"} /\ Origins \subseteq {"nwc", "clink"}
    /\ Faults \subseteq FaultKinds

ASSUME TimesAssumption ==
    {ExpiresAt, EXPIRY_GRACE, T, SUBDUST_ACK_TTL, MaxNow} \subseteq Nat

VARIABLES
    rail, origin,
    \* the bridge's tables
    swap,       \* the row of atomic_swaps (subdust), "none" if there is none
    tx,         \* the row of transactions (nwc)
    ack,        \* the row of clink_*_receipts (clink)
    noted,      \* the receipt is in the history, and on its way to the payer
    sdk,        \* the status of the reverse swap in boltz_swaps (swap)
    \* outside
    payer,      \* the payer's HTLC
    coin,       \* the shared vtxo, or the VHTLC
    poisoned,   \* arkd has acknowledged a claim it did not register
    boltz,      \* the status boltz reports (subdust)
    knows,      \* boltz has the preimage
    now,
    stable,     \* from now on nothing of Faults happens any more
    \* the bridge process
    pc

tableVars == <<swap, tx, ack, noted, sdk>>
worldVars == <<payer, coin, poisoned, boltz, knows>>
clockVars == <<now, stable>>
vars == <<rail, origin, tableVars, worldVars, clockVars, pc>>

kind == <<rail, origin>>

Procs == {"issue", "drive", "incoming", "acks", "inline", "listen"}

-----------------------------------------------------------------------------
(* The state machine of a receive row, state.ts.                           *)

ReceiveStates == {"invoice_issued", "funded", "claimed", "settled",
                  "refund_wait", "refunded", "failed"}

Terminal == {"settled", "refunded", "failed"}

RECEIVE_TRANSITIONS ==
    [s \in ReceiveStates |->
        CASE s = "invoice_issued" -> {"funded", "refund_wait", "failed"}
          [] s = "funded"         -> {"claimed", "refund_wait", "failed"}
          [] s = "claimed"        -> {"settled", "failed"}
          [] s = "refund_wait"    -> {"refunded", "failed"}
          [] OTHER                -> {}]

\* One step of advanceReceive: taken if it is legal, skipped if not.
Step(s, to) == IF to \in RECEIVE_TRANSITIONS[s] THEN to ELSE s

\* advanceReceive, from an open row to the end boltz reports.
advanceReceive(s, target) ==
    IF target = "settled"
    THEN Step(Step(Step(s, "funded"), "claimed"), "settled")
    ELSE Step(Step(s, "refund_wait"), "refunded")

-----------------------------------------------------------------------------
(* Shared pieces of the actions.                                           *)

Fault(f) == f \in Faults /\ ~stable

GivenUp == now > ExpiresAt + EXPIRY_GRACE

Goto(p, l) == pc' = [pc EXCEPT ![p] = l]

\* The pending-gated UPDATE of the transactions row.
UpdateTx(to) == tx' = IF tx = "pending" THEN to ELSE tx

\* sendOfferReceipt and sendSubdustAck up to the publish: the history row is
\* written first, then the receipt goes out. Without a row there is nothing
\* to send and p is done.
SendReceipt(p) ==
    /\ noted' = (noted \/ ack = "pending")
    /\ Goto(p, IF ack = "pending" THEN "publish" ELSE "idle")

\* ... and after it, whether a relay took it or not: the row is deleted.
Published(p) ==
    /\ pc[p] = "publish"
    /\ ack' = "gone"
    /\ Goto(p, "idle")
    /\ UNCHANGED <<kind, swap, tx, noted, sdk, worldVars, clockVars>>

Init ==
    /\ rail \in Rails /\ origin \in Origins
    /\ swap = "none" /\ tx = "none" /\ ack = "none" /\ noted = FALSE /\ sdk = "none"
    /\ payer = "none" /\ coin = "none" /\ poisoned = FALSE /\ boltz = "invoice" /\ knows = FALSE
    /\ now = 0 /\ stable = FALSE
    /\ pc = [p \in Procs |-> "idle"]

-----------------------------------------------------------------------------
(* handleMakeInvoice and handleOfferRequest.                               *)

\* issueInvoice: boltz mints the invoice and the swap is persisted, by
\* issueAtomicReceive or by the SDK.
IssueSwap ==
    /\ pc["issue"] = "idle"
    /\ IF rail = "subdust"
       THEN swap' = "invoice_issued" /\ UNCHANGED sdk
       ELSE sdk' = "pending" /\ UNCHANGED swap
    /\ Goto("issue", "minted")
    /\ UNCHANGED <<kind, tx, ack, noted, worldVars, clockVars>>

\* The row of the origin is inserted, then the invoice is handed out.
IssueRow ==
    /\ pc["issue"] = "minted"
    /\ IF origin = "nwc"
       THEN tx' = "pending" /\ UNCHANGED ack
       ELSE ack' = "pending" /\ UNCHANGED tx
    /\ Goto("issue", "out")
    /\ UNCHANGED <<kind, swap, noted, sdk, worldVars, clockVars>>

-----------------------------------------------------------------------------
(* runReconcilePasses: a pass starts when the one before it is over.       *)

PassStart ==
    /\ \A p \in {"drive", "incoming", "acks"} : pc[p] = "idle"
    /\ pc' = [pc EXCEPT !["drive"]    = IF rail = "subdust" THEN "status" ELSE "idle",
                        !["incoming"] = IF rail = "swap" THEN "look" ELSE "idle",
                        !["acks"]     = "look"]
    /\ UNCHANGED <<kind, tableVars, worldVars, clockVars>>

-----------------------------------------------------------------------------
(* drive: reconcileAtomicReceives.                                         *)

\* The end of the pass, in the block that ended the drive of the row: s is
\* what the drive made of it, fresh that it reported it settled. A row that
\* was never funded is swept, the ledger row follows the swap or expires, and
\* a fresh settlement is acknowledged inline.
Books(s, fresh) ==
    /\ swap' = IF s = "invoice_issued" /\ GivenUp THEN "failed" ELSE s
    /\ UpdateTx(IF s = "settled" THEN "settled" ELSE IF GivenUp THEN "expired" ELSE "pending")
    /\ IF fresh /\ s = "settled"
       THEN /\ noted' = (noted \/ ack = "pending")
            /\ pc' = [pc EXCEPT !["drive"] = "idle",
                                !["inline"] = IF ack = "pending" THEN "publish" ELSE @]
       ELSE Goto("drive", "idle") /\ UNCHANGED noted

\* Mutant: an end reported by boltz is not adopted.
DriveStatusNoConverge ==
    /\ pc["drive"] = "status"
    /\ \/ /\ swap \notin Terminal \union {"none"} /\ boltz = "funded"
          /\ Goto("drive", "locate") /\ UNCHANGED <<swap, tx, noted>>
       \/ /\ swap \in Terminal \union {"none"} \/ boltz # "funded"
          /\ Books(swap, FALSE)
    /\ UNCHANGED <<kind, ack, sdk, worldVars, clockVars>>

\* The row is looked up, and boltz asked for its status.
DriveStatus ==
    /\ pc["drive"] = "status"
    /\ \/ swap \in Terminal \union {"none"} /\ Books(swap, FALSE)
       \/ /\ swap \notin Terminal \union {"none"}
          /\ \/ boltz = "settled"  /\ Books(advanceReceive(swap, "settled"), TRUE)
             \/ boltz \in {"refund_wait", "refunded"}
                /\ Books(advanceReceive(swap, "refunded"), FALSE)
             \/ boltz = "funded" /\ Goto("drive", "locate") /\ UNCHANGED <<swap, tx, noted>>
             \/ /\ boltz = "invoice" \/ Fault("error")
                /\ Books(swap, FALSE)
    /\ UNCHANGED <<kind, ack, sdk, worldVars, clockVars>>

\* The shared vtxo must be spendable, or the drive throws. A new funding is
\* recorded; a row that is claimed already goes on to the confirmation.
DriveLocate ==
    /\ pc["drive"] = "locate"
    /\ \/ /\ coin = "unspent"
          /\ swap' = Step(swap, "funded")
          /\ Goto("drive", IF swap = "claimed" THEN "confirm" ELSE "claim")
          /\ UNCHANGED <<tx, noted>>
       \/ /\ coin # "unspent" \/ Fault("error")
          /\ Books(swap, FALSE)
    /\ UNCHANGED <<kind, ack, sdk, worldVars, clockVars>>

\* Mutant: a claim that throws is taken for one that arkd took.
DriveClaimCaught ==
    /\ pc["drive"] = "claim"
    /\ \/ coin = "unspent" /\ coin' = "claimed"
       \/ (coin # "unspent" \/ Fault("error")) /\ UNCHANGED coin
    /\ Goto("drive", "acked")
    /\ UNCHANGED <<kind, tableVars, payer, poisoned, boltz, knows, clockVars>>

\* finishClaim: the claim lands, is only acknowledged, or is rejected.
DriveClaim ==
    /\ pc["drive"] = "claim"
    /\ \/ coin = "unspent" /\ coin' = "claimed" /\ Goto("drive", "acked")
          /\ UNCHANGED <<swap, tx, noted, poisoned>>
       \/ coin = "unspent" /\ Fault("lost") /\ coin' = "claimed" /\ Books(swap, FALSE)
          /\ UNCHANGED poisoned
       \/ coin = "unspent" /\ Fault("poison") /\ poisoned' = TRUE /\ Goto("drive", "acked")
          /\ UNCHANGED <<swap, tx, noted, coin>>
       \/ /\ coin # "unspent" \/ Fault("error")
          /\ Books(swap, FALSE) /\ UNCHANGED <<coin, poisoned>>
    /\ UNCHANGED <<kind, ack, sdk, payer, boltz, knows, clockVars>>

DriveClaimed ==
    /\ pc["drive"] = "acked"
    /\ swap' = Step(swap, "claimed")
    /\ Goto("drive", "confirm")
    /\ UNCHANGED <<kind, tx, ack, noted, sdk, worldVars, clockVars>>

\* Mutant: the acknowledged claim is taken for a landed one.
DriveConfirmOnAck ==
    /\ pc["drive"] = "confirm"
    /\ Goto("drive", "reveal")
    /\ UNCHANGED <<kind, tableVars, worldVars, clockVars>>

\* confirmSpent (F18).
DriveConfirm ==
    /\ pc["drive"] = "confirm"
    /\ \/ coin \in {"claimed", "refunded"} /\ Goto("drive", "reveal") /\ UNCHANGED <<swap, tx, noted>>
       \/ /\ coin = "unspent" \/ Fault("error")
          /\ Books(swap, FALSE)
    /\ UNCHANGED <<kind, ack, sdk, worldVars, clockVars>>

\* Mutant: the settle call is best effort.
DriveRevealBestEffort ==
    /\ pc["drive"] = "reveal"
    /\ knows' \in {knows, payer # "refunded"}
    /\ Books(Step(swap, "settled"), TRUE)
    /\ UNCHANGED <<kind, ack, sdk, payer, coin, poisoned, boltz, clockVars>>

\* /receive/settle reveals the preimage. boltz refuses it for an invoice it
\* has cancelled; the request or the response may get lost.
DriveReveal ==
    /\ pc["drive"] = "reveal"
    /\ \/ payer # "refunded" /\ knows' = TRUE /\ Books(Step(swap, "settled"), TRUE)
       \/ payer # "refunded" /\ Fault("lost") /\ knows' = TRUE /\ Books(swap, FALSE)
       \/ /\ payer = "refunded" \/ Fault("error")
          /\ Books(swap, FALSE) /\ UNCHANGED knows
    /\ UNCHANGED <<kind, ack, sdk, payer, coin, poisoned, boltz, clockVars>>

-----------------------------------------------------------------------------
(* acks: reconcileClinkAcks.                                               *)

Landed == coin = "claimed"

AcksLook ==
    /\ pc["acks"] = "look"
    /\ \/ /\ (sdk = "success" /\ Landed) \/ swap = "settled"
          /\ SendReceipt("acks") /\ UNCHANGED ack
       \/ /\ sdk = "failure" \/ (rail = "subdust" /\ swap # "settled" /\ now > SUBDUST_ACK_TTL)
          /\ ack' = IF ack = "pending" THEN "gone" ELSE ack
          /\ Goto("acks", "idle") /\ UNCHANGED noted
       \/ /\ \/ rail = "swap" /\ sdk # "failure" /\ (sdk # "success" \/ ~Landed \/ Fault("error"))
             \/ rail = "subdust" /\ swap # "settled" /\ now <= SUBDUST_ACK_TTL
          /\ Goto("acks", "idle") /\ UNCHANGED <<ack, noted>>
    /\ UNCHANGED <<kind, swap, tx, sdk, worldVars, clockVars>>

-----------------------------------------------------------------------------
(* incoming: the reverse swaps of reconcilePendingIncoming.                *)

\* Mutant: only failures are swept, successes are left to the listener.
IncomingLookFailures ==
    /\ pc["incoming"] = "look"
    /\ UpdateTx(IF sdk = "failure" THEN "failed" ELSE tx)
    /\ Goto("incoming", "idle")
    /\ UNCHANGED <<kind, swap, ack, noted, sdk, worldVars, clockVars>>

IncomingLook ==
    /\ pc["incoming"] = "look"
    /\ \/ sdk = "success" /\ Landed /\ UpdateTx("settled")
       \/ sdk = "failure" /\ UpdateTx("failed")
       \/ /\ sdk \in {"none", "pending"} \/ (sdk = "success" /\ (~Landed \/ Fault("error")))
          /\ UNCHANGED tx
    /\ Goto("incoming", "idle")
    /\ UNCHANGED <<kind, swap, ack, noted, sdk, worldVars, clockVars>>

-----------------------------------------------------------------------------
(* listen: the callbacks of the SDK.                                       *)

\* Mutant: monitoring completed is taken for swap succeeded.
SwapTerminalIsSuccess ==
    /\ pc["listen"] = "terminal"
    /\ UpdateTx("settled")
    /\ SendReceipt("listen")
    /\ UNCHANGED <<kind, swap, ack, sdk, worldVars, clockVars>>

\* onSwapTerminal, its reverse half.
SwapTerminal ==
    /\ pc["listen"] = "terminal"
    /\ \/ sdk = "success" /\ Landed /\ UpdateTx("settled") /\ SendReceipt("listen")
       \/ /\ sdk = "success" /\ (~Landed \/ Fault("error"))
          /\ Goto("listen", "idle") /\ UNCHANGED <<tx, noted>>
       \/ /\ sdk = "failure"
          /\ UpdateTx("failed") /\ Goto("listen", "idle") /\ UNCHANGED noted
    /\ UNCHANGED <<kind, swap, ack, sdk, worldVars, clockVars>>

\* onSwapFailed: an action of the SDK threw; the swap itself goes on.
SwapFailed ==
    /\ sdk = "pending" /\ Fault("error")
    /\ UpdateTx("failed")
    /\ UNCHANGED <<kind, swap, ack, noted, sdk, worldVars, clockVars, pc>>

-----------------------------------------------------------------------------
(* Outside.                                                                *)

\* The payer pays the invoice it was given; boltz holds the HTLC.
PayerPays ==
    /\ pc["issue"] = "out" /\ payer = "none" /\ now <= ExpiresAt
    /\ payer' = "held"
    /\ UNCHANGED <<kind, tableVars, coin, poisoned, boltz, knows, clockVars, pc>>

BoltzFunds ==
    /\ payer = "held" /\ coin = "none" /\ now < T
    /\ coin' = "unspent"
    /\ boltz' = IF rail = "subdust" THEN "funded" ELSE boltz
    /\ UNCHANGED <<kind, tableVars, payer, poisoned, knows, clockVars, pc>>

\* The SDK claims the VHTLC, which shows boltz the preimage.
SdkClaims ==
    /\ rail = "swap" /\ coin = "unspent"
    /\ coin' = "claimed" /\ knows' = TRUE
    /\ UNCHANGED <<kind, tableVars, payer, poisoned, boltz, clockVars, pc>>

\* boltz finds the preimage in the claim.
Harvest ==
    /\ coin = "claimed" /\ ~knows
    /\ knows' = TRUE
    /\ UNCHANGED <<kind, tableVars, payer, coin, poisoned, boltz, clockVars, pc>>

BoltzSettles ==
    /\ knows /\ payer = "held"
    /\ payer' = "settled"
    /\ boltz' = IF rail = "subdust" THEN "settled" ELSE boltz
    /\ UNCHANGED <<kind, tableVars, coin, poisoned, knows, clockVars, pc>>

\* Past T boltz takes its funding back, says that it will refund the payer, and
\* then cancels the HTLC. One that it never funded times out, and the status
\* stays what it was.
BoltzTakesBack ==
    /\ coin = "unspent" /\ now >= T
    /\ coin' = "refunded"
    /\ boltz' = IF rail = "subdust" THEN "refund_wait" ELSE boltz
    /\ UNCHANGED <<kind, tableVars, payer, poisoned, knows, clockVars, pc>>

BoltzCancels ==
    /\ payer = "held"
    /\ coin = "refunded" \/ (coin = "none" /\ now >= T)
    /\ payer' = "refunded"
    /\ boltz' = IF boltz = "refund_wait" THEN "refunded" ELSE boltz
    /\ UNCHANGED <<kind, tableVars, coin, poisoned, knows, clockVars, pc>>

\* The SDK stores the final status of the swap and calls its listener.
SdkReports ==
    /\ sdk = "pending"
    /\ \/ /\ payer = "settled" \/ (Fault("word") /\ coin = "unspent")
          /\ sdk' = "success"
       \/ /\ payer = "refunded" \/ (payer = "none" /\ now > ExpiresAt)
          /\ sdk' = "failure"
    /\ Goto("listen", "terminal")
    /\ UNCHANGED <<kind, swap, tx, ack, noted, worldVars, clockVars>>

Tick ==
    /\ now < MaxNow /\ now' = now + 1
    /\ UNCHANGED <<kind, tableVars, worldVars, stable, pc>>

Stabilise ==
    /\ ~stable /\ stable' = TRUE
    /\ UNCHANGED <<kind, tableVars, worldVars, now, pc>>

\* The process dies and is started again; the tables stay.
Crash ==
    /\ Fault("crash")
    /\ pc' = [p \in Procs |-> IF p # "issue" THEN "idle"
                              ELSE IF pc[p] = "minted" THEN "gone" ELSE pc[p]]
    /\ UNCHANGED <<kind, tableVars, worldVars, clockVars>>

-----------------------------------------------------------------------------
Issue == IssueSwap \/ IssueRow

Drive ==
    \/ DriveStatus \/ DriveLocate \/ DriveClaim \/ DriveClaimed
    \/ DriveConfirm \/ DriveReveal

Acks == AcksLook \/ Published("acks")

Listen == SwapTerminal \/ Published("listen")

Outside ==
    \/ PayerPays \/ BoltzFunds \/ SdkClaims \/ Harvest \/ BoltzSettles
    \/ BoltzTakesBack \/ BoltzCancels \/ SdkReports \/ SwapFailed \/ Tick \/ Stabilise \/ Crash

Next ==
    \/ Issue \/ PassStart \/ Drive \/ Acks \/ IncomingLook
    \/ Published("inline") \/ Listen \/ Outside

Spec == Init /\ [][Next]_vars

\* The event loop runs every block on, the timer fires for ever, the SDK
\* reports what became of a swap, time passes and outages end. Of boltz
\* nothing is asked.
Fairness ==
    /\ WF_vars(PassStart) /\ WF_vars(Drive) /\ WF_vars(Acks) /\ WF_vars(IncomingLook)
    /\ WF_vars(Published("inline")) /\ WF_vars(Listen)
    /\ WF_vars(SdkReports) /\ WF_vars(Tick) /\ WF_vars(Stabilise)

LiveSpec == Spec /\ Fairness

-----------------------------------------------------------------------------
(* Properties.                                                             *)

\* Every variable has its type, and each rail keeps to its own tables.
TypeOK ==
    /\ rail \in {"subdust", "swap"} /\ origin \in {"nwc", "clink"}
    /\ swap \in ReceiveStates \union {"none"} /\ (rail = "swap" => swap = "none")
    /\ sdk \in {"none", "pending", "success", "failure"} /\ (rail = "subdust" => sdk = "none")
    /\ tx \in {"none", "pending", "settled", "expired", "failed"} /\ (origin = "clink" => tx = "none")
    /\ ack \in {"none", "pending", "gone"} /\ (origin = "nwc" => ack = "none")
    /\ noted \in BOOLEAN
    /\ payer \in {"none", "held", "settled", "refunded"}
    /\ coin \in {"none", "unspent", "claimed", "refunded"}
    /\ poisoned \in BOOLEAN
    /\ boltz \in {"invoice", "funded", "settled", "refund_wait", "refunded"}
    /\ knows \in BOOLEAN
    /\ now \in 0..MaxNow /\ stable \in BOOLEAN
    /\ pc \in [Procs -> {"idle", "minted", "out", "gone", "status", "locate", "claim",
                         "acked", "confirm", "reveal", "look", "publish", "terminal"}]

\* boltz does not learn the preimage while the shared vtxo is unspent: an
\* acknowledged claim may not have landed (F18).
RevealMeansSpent == knows => coin \in {"claimed", "refunded"}

\* As long as arkd registers the claims it acknowledges, money moves only for a
\* vtxo that has arrived: the payer is not debited before (issueInvoice), and a
\* settled ledger row or a receipt does not rest on the word of boltz (M3).
MoneyMeansLanded ==
    ~poisoned => (payer = "settled" \/ tx = "settled" \/ noted => coin = "claimed")

\* A closed row agrees with the HTLC: 'settled' means boltz can cash it in,
\* 'refunded' that the payer was not debited.
ClosedRowIsRight ==
    /\ swap = "settled" => knows
    /\ swap = "refunded" => payer # "settled"

\* What boltz does for itself: it looks for the preimage and cashes it in, and
\* cancels an invoice whose funding it took back.
BoltzIsPrompt == WF_vars(Harvest) /\ WF_vars(BoltzSettles) /\ WF_vars(BoltzCancels)

\* The books say that the invoice was paid.
Recorded == (tx = "settled" \/ noted) /\ ack # "pending"

\* The three ways in which the books let a payment go that they may still get:
\* the ledger row expires with the grace, the SDK's report that one of its
\* actions threw fails it, and a sub-dust receipt outlives SUBDUST_ACK_TTL.
Forgone ==
    \/ rail = "subdust" /\ tx = "expired" /\ GivenUp
    \/ rail = "swap" /\ tx = "failed" /\ "error" \in Faults
    \/ rail = "subdust" /\ ack = "gone" /\ now > SUBDUST_ACK_TTL

\* A receive that landed gets into the ledger, or its receipt is written to the
\* history and sent, across crashes between any two steps, lost calls and an
\* early word of boltz, unless the books had let it go in one of the three ways
\* of Forgone; and no row is polled for ever (F12), except one whose claim was
\* acknowledged and never registered: nothing claims again, and 'claimed' has no
\* way to 'refunded'.
ReceiveEnds ==
    BoltzIsPrompt =>
        /\ Landed ~> (Recorded \/ Forgone)
        /\ swap \notin Terminal \union {"none"} ~>
               swap \in Terminal \/ (swap = "claimed" /\ ~Landed)
=============================================================================
