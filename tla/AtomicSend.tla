----------------------------- MODULE AtomicSend -----------------------------
(***************************************************************************)
(* One atomic sub-dust send (src/src/atomic/send.ts, state.ts and          *)
(* repository.ts): the persisted row of one swap, everything that drives   *)
(* it, and the outside world those drivers look at.                        *)
(*                                                                         *)
(* The drivers run interleaved in one process, each as a sequence of       *)
(* synchronous blocks separated by awaits, and an action here is one such  *)
(* block:                                                                  *)
(*   - Sends:  calls of atomicSubdustSend for this swap's invoice;         *)
(*   - Pass:   the reconciler, resumeAtomicSends, single-flight;           *)
(*   - Clicks: requests of the dashboard's refund button.                  *)
(* A Send or the Pass may run cancelAtomicSend, the Pass or a Click        *)
(* refundAtomicSend; these two are written once, for any driver.           *)
(*                                                                         *)
(* Outside: the shared vtxo as arkd holds it, the indexer's later view of  *)
(* it, the poisoned txids, boltz and its Lightning payment, and the clock. *)
(***************************************************************************)
EXTENDS Integers, FiniteSets

CONSTANTS
    Sends,              \* calls of atomicSubdustSend with this invoice
    Clicks,             \* POST /swaps/refund requests for this swap
    Pass,               \* the reconciler
    T,                  \* refundLocktime
    UNFUNDED_GRACE,     \* age at which an unfunded 'init' row is given up
    LN_INFLIGHT_STUCK,  \* age at which an undecided row is cancelled anyway
    maxK,               \* last txid variant of freshTxidAttempts
    MaxNow,             \* bound on the clock
    Faults              \* what may go wrong outside, see FaultKinds

\* crash: the bridge dies.  error: a call to arkd, the indexer, esplora or
\* boltz fails.  lost: a spend lands but its response does not arrive.  lag:
\* the indexer shows a change late.  poison: a failed submit poisons a txid.
\* other: boltz answers /send/fund with neither 'claimed' nor 'failed'.
\* stale: the pass is held up by other rows after it listed this one.
FaultKinds == {"crash", "error", "lost", "lag", "poison", "other", "stale"}

Procs == Sends \union Clicks \union {Pass}

ASSUME ProcsAssumption ==
    /\ Pass \notin Sends \union Clicks
    /\ Sends \intersect Clicks = {}

ASSUME BoundsAssumption ==
    /\ {T, UNFUNDED_GRACE, LN_INFLIGHT_STUCK, maxK, MaxNow} \subseteq Nat
    /\ Faults \subseteq FaultKinds

VARIABLES
    \* the row of atomic_swaps
    state,      \* its state, "none" before the row is created
    outpoint,   \* funding_outpoint is set
    preimage,   \* preimage is set
    createdAt, updatedAt,
    vault,      \* the vault holds the shared vtxo's exit material
    \* arkd and its indexer
    coin,       \* the shared vtxo: "none", "unspent" or the leaf that spent it
    indexed,    \* what the indexer shows of it
    poison,     \* poisoned spends, as <<leaf, variant>>
    \* boltz
    ln,         \* the Lightning payment
    boltz,      \* the status row boltz reports
    fundReq,    \* a /send/fund request is on its way
    \* time
    now,        \* wall clock
    mtpPastT,   \* the chain's median time has reached T
    stable,     \* from now on nothing of Faults happens any more
    \* the bridge process
    inflight,   \* the swap's id is in inflightSends
    pc,         \* where each driver is
    seen,       \* the row as a driver read it
    variant,    \* the txid variant an executor is at
    passNow     \* nowSecs / nowMs of the running pass

rowVars   == <<state, outpoint, preimage, createdAt, updatedAt>>
arkVars   == <<coin, indexed, poison>>
boltzVars == <<ln, boltz, fundReq>>
clockVars == <<now, mtpPastT, stable>>
procVars  == <<inflight, pc, seen, variant, passNow>>
vars == <<rowVars, vault, arkVars, boltzVars, clockVars, procVars>>

-----------------------------------------------------------------------------
(* The state machine of a send row, state.ts.                              *)

SendStates == {"init", "funded", "ln_inflight", "claimed", "refund_wait",
               "refunded", "cancelled", "failed"}

Terminal == {"claimed", "refunded", "cancelled", "failed"}

SEND_TRANSITIONS ==
    [s \in SendStates \union {"none"} |->
        CASE s = "init"        -> {"funded", "cancelled", "failed"}
          [] s = "funded"      -> {"ln_inflight", "refund_wait", "cancelled", "failed"}
          [] s = "ln_inflight" -> {"claimed", "refund_wait", "cancelled", "failed"}
          [] s = "refund_wait" -> {"refunded", "cancelled", "failed"}
          [] OTHER             -> {}]

canTransition(from, to) == to \in SEND_TRANSITIONS[from]

\* Mutant: only refund_wait rows are refunded at T.
classifyResumeNoRefund(st, tElapsed) ==
    CASE st = "refund_wait" -> IF tElapsed THEN "refund" ELSE "cancel"
      [] OTHER              -> "poll"

\* The send half of classifyResume, for a non-terminal state.
classifyResume(st, tElapsed) ==
    CASE st = "refund_wait"               -> IF tElapsed THEN "refund" ELSE "cancel"
      [] st \in {"funded", "ln_inflight"} -> IF tElapsed THEN "refund" ELSE "poll"
      [] OTHER                            -> "poll"

\* The states refundAtomicSend and cancelAtomicSend accept.
Refundable == {"funded", "ln_inflight", "refund_wait"}

-----------------------------------------------------------------------------
(* Shared pieces of the actions.                                           *)

SpentBy == {"claimed", "refunded", "cancelled"}

View(c) == IF c \in SpentBy THEN "spent" ELSE c

Fault(f) == f \in Faults /\ ~stable

Row == [state |-> state, outpoint |-> outpoint, updatedAt |-> updatedAt]

NoRow == [state |-> "none", outpoint |-> FALSE, updatedAt |-> 0]

\* repository.transition: throws, and writes nothing, on an illegal move.
TryTransition(to) ==
    IF canTransition(state, to)
    THEN /\ state' = to
         /\ updatedAt' = now
         /\ UNCHANGED <<outpoint, preimage, createdAt>>
    ELSE UNCHANGED rowVars

setFundingOutpoint == outpoint' = TRUE /\ updatedAt' = now

setPreimage == preimage' = TRUE /\ updatedAt' = now

\* The shared vtxo changes at arkd; the indexer shows it at once or later.
CoinBecomes(c) ==
    /\ coin' = c
    /\ \/ indexed' = View(c)
       \/ Fault("lag") /\ UNCHANGED indexed

Goto(p, l) ==
    /\ pc' = [pc EXCEPT ![p] = l]
    /\ UNCHANGED <<inflight, seen, variant, passNow>>

\* Driver p is done with the swap: it returned or threw. The finally of
\* atomicSubdustSend releases the registration; the pass ends its visit.
Finish(p) ==
    /\ pc' = [pc EXCEPT ![p] = IF p = Pass THEN "idle" ELSE "done"]
    /\ inflight' = (inflight /\ p \notin Sends)
    /\ seen' = [seen EXCEPT ![p] = NoRow]
    /\ variant' = [variant EXCEPT ![p] = 0]
    /\ passNow' = IF p = Pass THEN 0 ELSE passNow

\* Start the next txid variant.
Submit(p, l, k) ==
    /\ pc' = [pc EXCEPT ![p] = l]
    /\ variant' = [variant EXCEPT ![p] = k]
    /\ UNCHANGED <<inflight, seen, passNow>>

Init ==
    /\ state = "none" /\ outpoint = FALSE /\ preimage = FALSE
    /\ createdAt = 0 /\ updatedAt = 0
    /\ vault = FALSE
    /\ coin = "none" /\ indexed = "none" /\ poison = {}
    /\ ln = "none" /\ boltz = "init" /\ fundReq = FALSE
    /\ now = 0 /\ mtpPastT = FALSE /\ stable = FALSE
    /\ inflight = FALSE
    /\ pc = [p \in Procs |-> IF p \in Clicks THEN "rStart" ELSE "idle"]
    /\ seen = [p \in Procs |-> NoRow]
    /\ variant = [p \in Procs |-> 0]
    /\ passNow = 0

-----------------------------------------------------------------------------
(* atomicSubdustSend, up to the hand-over to boltz.                        *)

\* getInfo, /send/init and the coin selection; any of them may throw, before
\* a row exists. boltz hands out the same swap again while it is unfunded.
SendInit(c) ==
    /\ pc[c] = "idle"
    /\ \/ boltz = "init" /\ Goto(c, "inited")
       \/ Goto(c, "done")
    /\ UNCHANGED <<rowVars, vault, arkVars, boltzVars, clockVars>>

\* One synchronous block: register the id, then insert the row. A second
\* insert throws DuplicateSwapError, and its finally removes the id.
SendCreate(c) ==
    /\ pc[c] = "inited"
    /\ IF state = "none"
       THEN /\ state' = "init"
            /\ createdAt' = now /\ updatedAt' = now
            /\ inflight' = TRUE
            /\ pc' = [pc EXCEPT ![c] = "funding"]
            /\ UNCHANGED <<outpoint, preimage, seen, variant, passNow>>
       ELSE Finish(c) /\ UNCHANGED rowVars
    /\ UNCHANGED <<vault, arkVars, boltzVars, clockVars>>

\* wallet.sendBitcoin: the funding spend lands at arkd ...
FundLands(c) ==
    /\ pc[c] = "funding" /\ coin = "none"
    /\ CoinBecomes("unspent")
    /\ UNCHANGED <<rowVars, vault, poison, boltzVars, clockVars, procVars>>

\* ... and its txid comes back,
FundOk(c) ==
    /\ pc[c] = "funding" /\ coin # "none"
    /\ Goto(c, "locating")
    /\ UNCHANGED <<rowVars, vault, arkVars, boltzVars, clockVars>>

\* or it throws: rejected, or landed with the response lost. failIfUnfunded
\* then reads the row and goes on only if it is untouched.
FundThrows(c) ==
    /\ pc[c] = "funding"
    /\ coin = "none" \/ Fault("lost")
    /\ IF state = "init" /\ ~outpoint THEN Goto(c, "verifying") ELSE Finish(c)
    /\ UNCHANGED <<rowVars, vault, arkVars, boltzVars, clockVars>>

\* classifyUnfundedInit, and what its two callers do with 'unfunded'.
ApplyVerdict(mayFail) ==
    \/ /\ indexed = "none"
       /\ IF mayFail THEN TryTransition("failed") ELSE UNCHANGED rowVars
    \/ /\ indexed = "unspent"
       /\ setFundingOutpoint
       /\ state' = IF canTransition(state, "funded") THEN "funded" ELSE state
       /\ UNCHANGED <<preimage, createdAt>>
    \/ /\ indexed = "spent" \/ Fault("error")
       /\ UNCHANGED rowVars

SendVerify(c) ==
    /\ pc[c] = "verifying"
    /\ ApplyVerdict(TRUE)
    /\ Finish(c)
    /\ UNCHANGED <<vault, arkVars, boltzVars, clockVars>>

\* locateFunding polls for the spendable coin and throws if it never shows.
SendLocate(c) ==
    /\ pc[c] = "locating"
    /\ \/ /\ indexed = "unspent"
          /\ setFundingOutpoint
          /\ UNCHANGED <<state, preimage, createdAt>>
          /\ Goto(c, "capturing")
       \/ /\ indexed # "unspent" \/ Fault("error")
          /\ UNCHANGED rowVars
          /\ Finish(c)
    /\ UNCHANGED <<vault, arkVars, boltzVars, clockVars>>

\* captureVtxo is best effort.
SendCapture(c) ==
    /\ pc[c] = "capturing"
    /\ vault' = TRUE \/ (Fault("error") /\ UNCHANGED vault)
    /\ Goto(c, "presigning")
    /\ UNCHANGED <<rowVars, arkVars, boltzVars, clockVars>>

\* The claim is pre-signed, the row goes to 'funded' and on to 'ln_inflight',
\* and /send/fund leaves: one synchronous block after the signing.
SendPresign(c) ==
    /\ pc[c] = "presigning"
    /\ \/ /\ canTransition(state, "funded")
          /\ state' = "ln_inflight" /\ updatedAt' = now
          /\ UNCHANGED <<outpoint, preimage, createdAt>>
          /\ fundReq' = TRUE
          /\ Goto(c, "awaiting")
       \/ /\ ~canTransition(state, "funded") \/ Fault("error")
          /\ Finish(c)
          /\ UNCHANGED <<rowVars, fundReq>>
    /\ UNCHANGED <<vault, arkVars, ln, boltz, clockVars>>

-----------------------------------------------------------------------------
(* atomicSubdustSend, once boltz has answered.                             *)

ReplyClaimed(c) ==
    /\ pc[c] = "awaiting" /\ boltz = "claimed"
    /\ Goto(c, "confirming")
    /\ UNCHANGED <<rowVars, vault, arkVars, boltzVars, clockVars>>

\* status 'failed': to refund_wait, then cancelAtomicSend in the same call.
ReplyFailed(c) ==
    /\ pc[c] = "awaiting" /\ boltz = "failed"
    /\ TryTransition("refund_wait")
    /\ IF canTransition(state, "refund_wait") THEN Goto(c, "cStart") ELSE Finish(c)
    /\ UNCHANGED <<vault, arkVars, boltzVars, clockVars>>

\* Any other status: the row goes to 'failed' and the call throws.
ReplyOther(c) ==
    /\ pc[c] = "awaiting" /\ Fault("other")
    /\ TryTransition("failed")
    /\ Finish(c)
    /\ UNCHANGED <<vault, arkVars, boltzVars, clockVars>>

\* boltzFetch throws (an HTTP error, a broken or a timed out connection).
ReplyThrows(c) ==
    /\ pc[c] = "awaiting"
    /\ Finish(c)
    /\ UNCHANGED <<rowVars, vault, arkVars, boltzVars, clockVars>>

\* Mutant: the row is closed on boltz's word.
SendConfirmOnWord(c) ==
    /\ pc[c] = "confirming"
    /\ TryTransition("claimed")
    /\ vault' = (vault /\ ~canTransition(state, "claimed"))
    /\ Finish(c)
    /\ UNCHANGED <<arkVars, boltzVars, clockVars>>

\* confirmClaimSpent: only a coin the indexer shows spent closes the row.
SendConfirm(c) ==
    /\ pc[c] = "confirming"
    /\ \/ /\ indexed = "spent"
          /\ TryTransition("claimed")
          /\ vault' = (vault /\ ~canTransition(state, "claimed"))
       \/ /\ indexed # "spent" \/ Fault("error")
          /\ setPreimage
          /\ UNCHANGED <<state, outpoint, createdAt, vault>>
    /\ Finish(c)
    /\ UNCHANGED <<arkVars, boltzVars, clockVars>>

-----------------------------------------------------------------------------
(* refundAtomicSend: the T-refund, run by the pass or by a click.          *)

RefundStart(p) ==
    /\ pc[p] = "rStart"
    /\ IF state \in Refundable /\ outpoint /\ now >= T
       THEN /\ pc' = [pc EXCEPT ![p] = "rGate"]
            /\ seen' = [seen EXCEPT ![p] = Row]
            /\ UNCHANGED <<inflight, variant, passNow>>
       ELSE Finish(p)
    /\ UNCHANGED <<rowVars, vault, arkVars, boltzVars, clockVars>>

\* The esplora pre-check of the median time (skipped when esplora does not
\* answer), then the coin must still be spendable.
RefundGate(p) ==
    /\ pc[p] = "rGate"
    /\ \/ /\ mtpPastT \/ Fault("error")
          /\ indexed = "unspent"
          /\ Submit(p, "rSubmit", 0)
       \/ /\ ~mtpPastT \/ indexed # "unspent" \/ Fault("error")
          /\ Finish(p)
    /\ UNCHANGED <<rowVars, vault, arkVars, boltzVars, clockVars>>

\* arkd takes the refund; the response may get lost.
RefundLands(p) ==
    /\ pc[p] = "rSubmit"
    /\ coin = "unspent" /\ mtpPastT /\ <<"refund", variant[p]>> \notin poison
    /\ CoinBecomes("refunded")
    /\ \/ Goto(p, "rWait")
       \/ Fault("lost") /\ Finish(p)
    /\ UNCHANGED <<rowVars, vault, poison, boltzVars, clockVars>>

\* arkd acknowledges a poisoned txid and does nothing.
RefundPoisonedAck(p) ==
    /\ pc[p] = "rSubmit"
    /\ mtpPastT /\ <<"refund", variant[p]>> \in poison
    /\ Goto(p, "rWait")
    /\ UNCHANGED <<rowVars, vault, arkVars, boltzVars, clockVars>>

\* The submit fails: the block time lags T, the coin is gone, or arkd broke
\* off. A failed submit of a spendable coin poisons its txid.
RefundRejected(p) ==
    /\ pc[p] = "rSubmit"
    /\ \/ coin # "unspent" /\ UNCHANGED poison
       \/ /\ coin = "unspent"
          /\ ~mtpPastT \/ (Fault("poison") /\ variant[p] < maxK)
          /\ poison' = poison \union {<<"refund", variant[p]>>}
    /\ Finish(p)
    /\ UNCHANGED <<rowVars, vault, coin, indexed, boltzVars, clockVars>>

\* Mutant: arkd's acknowledgement is taken for registration.
RefundRegisteredOnAck(p) ==
    /\ pc[p] = "rWait"
    /\ TryTransition(IF seen[p].state = "refund_wait" THEN "refunded" ELSE "refund_wait")
    /\ vault' = FALSE
    /\ Finish(p)
    /\ UNCHANGED <<arkVars, boltzVars, clockVars>>

\* registered(): the outpoint is no longer spendable. The row, read before
\* all the awaits, decides whether it still has to pass through refund_wait.
RefundRegistered(p) ==
    /\ pc[p] = "rWait" /\ indexed # "unspent"
    /\ LET legal == IF seen[p].state = "refund_wait"
                    THEN canTransition(state, "refunded")
                    ELSE canTransition(state, "refund_wait")
       IN  /\ state' = IF legal THEN "refunded" ELSE state
           /\ updatedAt' = IF legal THEN now ELSE updatedAt
           /\ vault' = (vault /\ ~legal)
    /\ Finish(p)
    /\ UNCHANGED <<outpoint, preimage, createdAt, arkVars, boltzVars, clockVars>>

\* Still spendable after the polls: the next txid variant, or give up.
NotRegistered(p, wait, submit) ==
    /\ pc[p] = wait
    /\ \/ /\ indexed = "unspent"
          /\ coin = "unspent" \/ Fault("lag")
          /\ IF variant[p] < maxK
             THEN Submit(p, submit, variant[p] + 1)
             ELSE Finish(p)
       \/ Fault("error") /\ Finish(p)
    /\ UNCHANGED <<rowVars, vault, arkVars, boltzVars, clockVars>>

RefundNotRegistered(p) == NotRegistered(p, "rWait", "rSubmit")

-----------------------------------------------------------------------------
(* cancelAtomicSend: boltz co-signs and submits, run by a send or the pass.*)

CancelStart(p) ==
    /\ pc[p] = "cStart"
    /\ \/ /\ state \in Refundable /\ outpoint /\ indexed = "unspent"
          /\ Submit(p, "cSubmit", 0)
       \/ /\ ~(state \in Refundable /\ outpoint /\ indexed = "unspent") \/ Fault("error")
          /\ Finish(p)
    /\ UNCHANGED <<rowVars, vault, arkVars, boltzVars, clockVars>>

\* boltz may decline; it must while the payment can still settle.
CancelRefused(p) ==
    /\ pc[p] = "cSubmit"
    /\ Finish(p)
    /\ UNCHANGED <<rowVars, vault, arkVars, boltzVars, clockVars>>

\* boltz's gate asks its LND, not its status row: co-sign only a payment that
\* is dead or was never made, and never make it afterwards.
CoSign ==
    /\ ln \in {"none", "failed"}
    /\ ln' = "failed" /\ boltz' = "cancelled"
    /\ UNCHANGED fundReq

CancelLands(p) ==
    /\ pc[p] = "cSubmit"
    /\ coin = "unspent" /\ <<"cancel", variant[p]>> \notin poison
    /\ CoSign
    /\ CoinBecomes("cancelled")
    /\ \/ Goto(p, "cWait")
       \/ Fault("lost") /\ Finish(p)
    /\ UNCHANGED <<rowVars, vault, poison, clockVars>>

CancelPoisonedAck(p) ==
    /\ pc[p] = "cSubmit"
    /\ <<"cancel", variant[p]>> \in poison
    /\ CoSign
    /\ Goto(p, "cWait")
    /\ UNCHANGED <<rowVars, vault, arkVars, clockVars>>

\* boltz's submit fails and boltz answers with an error.
CancelRejected(p) ==
    /\ pc[p] = "cSubmit"
    /\ Fault("poison") /\ coin = "unspent" /\ ln \in {"none", "failed"}
    /\ variant[p] < maxK
    /\ poison' = poison \union {<<"cancel", variant[p]>>}
    /\ Finish(p)
    /\ UNCHANGED <<rowVars, vault, coin, indexed, boltzVars, clockVars>>

\* Mutant: boltz's answer is taken for registration.
CancelRegisteredOnAck(p) ==
    /\ pc[p] = "cWait"
    /\ TryTransition("cancelled")
    /\ vault' = (vault /\ ~canTransition(state, "cancelled"))
    /\ Finish(p)
    /\ UNCHANGED <<arkVars, boltzVars, clockVars>>

CancelRegistered(p) ==
    /\ pc[p] = "cWait" /\ indexed # "unspent"
    /\ TryTransition("cancelled")
    /\ vault' = (vault /\ ~canTransition(state, "cancelled"))
    /\ Finish(p)
    /\ UNCHANGED <<arkVars, boltzVars, clockVars>>

CancelNotRegistered(p) == NotRegistered(p, "cWait", "cSubmit")

-----------------------------------------------------------------------------
(* resumeAtomicSends: one pass of the reconciler over this row.            *)

\* The pre-pass looks at an unregistered 'init' row without an outpoint.
VisitInit(s) ==
    pc' = [pc EXCEPT ![Pass] =
             IF s.state = "init" /\ ~s.outpoint /\ ~inflight THEN "classify" ELSE "list"]

\* nowSecs, nowMs and the first listResumable.
PassStart ==
    /\ pc[Pass] = "idle"
    /\ state \notin Terminal \union {"none"}
    /\ passNow' = now
    /\ \/ VisitInit(Row) /\ UNCHANGED seen
       \/ /\ Fault("stale")
          /\ pc' = [pc EXCEPT ![Pass] = "pre"]
          /\ seen' = [seen EXCEPT ![Pass] = Row]
    /\ UNCHANGED <<rowVars, vault, arkVars, boltzVars, clockVars, inflight, variant>>

PassPre ==
    /\ pc[Pass] = "pre"
    /\ VisitInit(seen[Pass])
    /\ UNCHANGED <<rowVars, vault, arkVars, boltzVars, clockVars,
                   inflight, seen, variant, passNow>>

PassClassify ==
    /\ pc[Pass] = "classify"
    /\ ApplyVerdict(passNow - createdAt > UNFUNDED_GRACE)
    /\ Goto(Pass, "list")
    /\ UNCHANGED <<vault, arkVars, boltzVars, clockVars>>

\* The main loop reaches the row, as s: rows a live send drives are skipped.
VisitRow(s) ==
    IF inflight
    THEN Finish(Pass)
    ELSE /\ pc' = [pc EXCEPT ![Pass] =
                     CASE classifyResume(s.state, passNow >= T) = "refund" -> "statusR"
                       [] classifyResume(s.state, passNow >= T) = "poll"   -> "statusP"
                       [] OTHER                                            -> "cStart"]
         /\ seen' = [seen EXCEPT ![Pass] = s]
         /\ UNCHANGED <<inflight, variant, passNow>>

\* The second listResumable.
PassList ==
    /\ pc[Pass] = "list"
    /\ IF state \in Terminal
       THEN Finish(Pass)
       ELSE \/ VisitRow(Row)
            \/ /\ Fault("stale")
               /\ pc' = [pc EXCEPT ![Pass] = "visit"]
               /\ seen' = [seen EXCEPT ![Pass] = Row]
               /\ UNCHANGED <<inflight, variant, passNow>>
    /\ UNCHANGED <<rowVars, vault, arkVars, boltzVars, clockVars>>

PassVisit ==
    /\ pc[Pass] = "visit"
    /\ VisitRow(seen[Pass])
    /\ UNCHANGED <<rowVars, vault, arkVars, boltzVars, clockVars>>

\* Mutant: past T a spent coin is taken for a claimed one.
PassStatusRefundAssumed ==
    /\ pc[Pass] = "statusR"
    /\ Goto(Pass, "markR")
    /\ UNCHANGED <<rowVars, vault, arkVars, boltzVars, clockVars>>

\* Mutant: past T the row goes to the refund executor without asking boltz.
PassStatusRefundBlind ==
    /\ pc[Pass] = "statusR"
    /\ Goto(Pass, "rStart")
    /\ UNCHANGED <<rowVars, vault, arkVars, boltzVars, clockVars>>

\* action 'refund': one status check, then refundAtomicSend.
PassStatusRefund ==
    /\ pc[Pass] = "statusR"
    /\ \/ boltz = "claimed" /\ seen[Pass].state # "refund_wait" /\ Goto(Pass, "markR")
       \/ /\ boltz # "claimed" \/ seen[Pass].state = "refund_wait" \/ Fault("error")
          /\ Goto(Pass, "rStart")
    /\ UNCHANGED <<rowVars, vault, arkVars, boltzVars, clockVars>>

\* action 'poll': follow boltz's verdict; without one, ask for the cancel
\* once the row is older than any payment.
PassStatusPoll ==
    /\ pc[Pass] = "statusP"
    /\ \/ boltz = "claimed" /\ Goto(Pass, "markP") /\ UNCHANGED rowVars
       \/ /\ boltz = "failed"
          /\ TryTransition("refund_wait")
          /\ IF canTransition(state, "refund_wait")
             THEN Goto(Pass, "cStart")
             ELSE Finish(Pass)
       \/ /\ boltz \notin {"claimed", "failed"} \/ Fault("error")
          /\ IF now - seen[Pass].updatedAt > LN_INFLIGHT_STUCK
             THEN Goto(Pass, "cStart")
             ELSE Finish(Pass)
          /\ UNCHANGED rowVars
    /\ UNCHANGED <<vault, arkVars, boltzVars, clockVars>>

\* markClaimed. Without an outpoint in the row as listed there is nothing to
\* confirm and nothing to release.
PassMark ==
    /\ pc[Pass] \in {"markR", "markP"}
    /\ \/ /\ seen[Pass].outpoint => indexed = "spent"
          /\ IF state \in {"funded", "ln_inflight"}
             THEN /\ state' = "claimed"
                  /\ setPreimage
                  /\ vault' = (vault /\ ~seen[Pass].outpoint)
                  /\ UNCHANGED <<outpoint, createdAt>>
             ELSE UNCHANGED <<rowVars, vault>>
          /\ Finish(Pass)
       \/ /\ seen[Pass].outpoint
          /\ indexed # "spent" \/ Fault("error")
          /\ setPreimage
          /\ UNCHANGED <<state, outpoint, createdAt, vault>>
          /\ IF pc[Pass] = "markR" THEN Goto(Pass, "rStart") ELSE Finish(Pass)
    /\ UNCHANGED <<arkVars, boltzVars, clockVars>>

-----------------------------------------------------------------------------
(* Outside the bridge.                                                     *)

IndexSync ==
    /\ indexed # View(coin)
    /\ indexed' = View(coin)
    /\ UNCHANGED <<rowVars, vault, coin, poison, boltzVars, clockVars, procVars>>

\* boltz verifies the funding against arkd before it pays.
BoltzAccept ==
    /\ fundReq /\ fundReq' = FALSE
    /\ IF boltz = "init" /\ coin = "unspent"
       THEN ln' = "inflight" /\ boltz' = "ln_inflight"
       ELSE UNCHANGED <<ln, boltz>>
    /\ UNCHANGED <<rowVars, vault, arkVars, clockVars, procVars>>

\* boltz bounds the route's timelocks so that the payment ends before T.
LnSettles ==
    /\ ln = "inflight"
    /\ \/ now < T /\ ln' = "paid"
       \/ ln' = "failed"
    /\ UNCHANGED <<rowVars, vault, arkVars, boltz, fundReq, clockVars, procVars>>

\* The status row follows the payment, or stays behind for good. 'claimed'
\* is written once the claim is submitted, registered or not.
BoltzRecords ==
    /\ boltz = "ln_inflight"
    /\ \/ ln = "paid" /\ coin \in {"unspent", "claimed"} /\ boltz' = "claimed"
       \/ ln = "failed" /\ boltz' = "failed"
    /\ UNCHANGED <<rowVars, vault, arkVars, ln, fundReq, clockVars, procVars>>

\* The claim needs the preimage, so it needs a settled payment.
BoltzClaimLands ==
    /\ ln = "paid" /\ coin = "unspent"
    /\ CoinBecomes("claimed")
    /\ UNCHANGED <<rowVars, vault, poison, boltzVars, clockVars, procVars>>

\* One tick is longer than a funding spend and than the indexer's lag of it.
Tick ==
    /\ now < MaxNow
    /\ \A c \in Sends : pc[c] # "funding"
    /\ coin = "none" \/ indexed # "none"
    /\ now' = now + 1
    /\ UNCHANGED <<rowVars, vault, arkVars, boltzVars, mtpPastT, stable, procVars>>

ChainReachesT ==
    /\ now >= T /\ ~mtpPastT
    /\ mtpPastT' = TRUE
    /\ UNCHANGED <<rowVars, vault, arkVars, boltzVars, now, stable, procVars>>

Stabilise ==
    /\ ~stable /\ stable' = TRUE
    /\ UNCHANGED <<rowVars, vault, arkVars, boltzVars, now, mtpPastT, procVars>>

\* The process dies and is started again: the drivers and inflightSends go,
\* the row, the vault and everything outside stay.
Crash ==
    /\ Fault("crash")
    /\ pc' = [p \in Procs |->
                IF p = Pass THEN "idle"
                ELSE IF p \in Clicks THEN (IF pc[p] = "rStart" THEN "rStart" ELSE "done")
                ELSE IF pc[p] = "idle" THEN "idle" ELSE "done"]
    /\ inflight' = FALSE
    /\ seen' = [p \in Procs |-> NoRow]
    /\ variant' = [p \in Procs |-> 0]
    /\ passNow' = 0
    /\ UNCHANGED <<rowVars, vault, arkVars, boltzVars, clockVars>>

-----------------------------------------------------------------------------
CancelNext(p) ==
    \/ CancelStart(p) \/ CancelRefused(p) \/ CancelLands(p) \/ CancelPoisonedAck(p)
    \/ CancelRejected(p) \/ CancelRegistered(p) \/ CancelNotRegistered(p)

RefundNext(p) ==
    \/ RefundStart(p) \/ RefundGate(p) \/ RefundLands(p) \/ RefundPoisonedAck(p)
    \/ RefundRejected(p) \/ RefundRegistered(p) \/ RefundNotRegistered(p)

SendNext(c) ==
    \/ SendInit(c) \/ SendCreate(c) \/ FundLands(c) \/ FundOk(c) \/ FundThrows(c)
    \/ SendVerify(c) \/ SendLocate(c) \/ SendCapture(c) \/ SendPresign(c)
    \/ ReplyClaimed(c) \/ ReplyFailed(c) \/ ReplyOther(c) \/ ReplyThrows(c)
    \/ SendConfirm(c) \/ CancelNext(c)

PassNext ==
    \/ PassStart \/ PassPre \/ PassClassify \/ PassList \/ PassVisit
    \/ PassStatusRefund \/ PassStatusPoll \/ PassMark
    \/ RefundNext(Pass) \/ CancelNext(Pass)

Outside ==
    \/ IndexSync \/ BoltzAccept \/ LnSettles \/ BoltzRecords \/ BoltzClaimLands
    \/ Tick \/ ChainReachesT \/ Stabilise \/ Crash

Next ==
    \/ \E c \in Sends : SendNext(c)
    \/ \E w \in Clicks : RefundNext(w)
    \/ PassNext
    \/ Outside

Spec == Init /\ [][Next]_vars

\* The event loop runs every driver on, a fetch returns or throws in the end,
\* the reconcile timer fires for ever, clocks advance and outages end.
\* Nothing is asked of boltz or of the Lightning payment.
Fairness ==
    /\ \A c \in Sends : WF_vars(SendNext(c))
    /\ \A w \in Clicks : WF_vars(RefundNext(w))
    /\ WF_vars(PassNext)
    /\ WF_vars(IndexSync) /\ WF_vars(Tick) /\ WF_vars(ChainReachesT) /\ WF_vars(Stabilise)

LiveSpec == Spec /\ Fairness

-----------------------------------------------------------------------------
(* Properties.                                                             *)

SendLabels == {"idle", "inited", "funding", "verifying", "locating", "capturing",
               "presigning", "awaiting", "confirming", "cStart", "cSubmit", "cWait", "done"}
ClickLabels == {"rStart", "rGate", "rSubmit", "rWait", "done"}
PassLabels == {"idle", "pre", "classify", "list", "visit", "statusR", "statusP",
               "markR", "markP", "rStart", "rGate", "rSubmit", "rWait",
               "cStart", "cSubmit", "cWait"}

RowType ==
    /\ state \in SendStates \union {"none"}
    /\ outpoint \in BOOLEAN /\ preimage \in BOOLEAN
    /\ createdAt \in 0..MaxNow /\ updatedAt \in 0..MaxNow
    /\ vault \in BOOLEAN

WorldType ==
    /\ coin \in {"none", "unspent"} \union SpentBy
    /\ indexed \in {"none", "unspent", "spent"}
    /\ poison \subseteq {"refund", "cancel"} \X (0..maxK)
    /\ ln \in {"none", "inflight", "paid", "failed"}
    /\ boltz \in {"init", "ln_inflight", "claimed", "failed", "cancelled"}
    /\ fundReq \in BOOLEAN
    /\ now \in 0..MaxNow /\ mtpPastT \in BOOLEAN /\ stable \in BOOLEAN

ProcType ==
    /\ inflight \in BOOLEAN
    /\ pc \in [Procs -> SendLabels \union ClickLabels \union PassLabels]
    /\ \A c \in Sends : pc[c] \in SendLabels
    /\ \A w \in Clicks : pc[w] \in ClickLabels
    /\ pc[Pass] \in PassLabels
    /\ seen \in [Procs -> [state : SendStates \union {"none"},
                           outpoint : BOOLEAN, updatedAt : 0..MaxNow]]
    /\ variant \in [Procs -> 0..maxK]
    /\ passNow \in 0..MaxNow

\* Every variable has its type, and each driver is at a label of its own code:
\* no click cancels, no live call refunds, and no executor runs past the last
\* txid variant.
TypeOK == RowType /\ WorldType /\ ProcType

\* The circumstances the code is built for: one live call per invoice, boltz
\* answers 'claimed' or 'failed', no lost funding response while the indexer
\* lags, and no pass that works from an outdated listing.
Tolerable ==
    /\ \A c, d \in Sends : c = d
    /\ "other" \notin Faults /\ "stale" \notin Faults
    /\ ~({"lost", "lag"} \subseteq Faults)

\* As long as the funding sits in the shared vtxo, the row is in a state the
\* reconciler resumes: no path closes the row over money it could reclaim.
NoStrandedFunds == coin = "unspent" => state \notin Terminal \union {"none"}

\* ... and when no live call is at work on it, the refund executor or the
\* pre-pass accepts the row as it stands (send.ts 459-462, 735-740).
RecoverableWhenIdle ==
    (coin = "unspent" /\ ~inflight) =>
        \/ state \in Refundable /\ outpoint
        \/ state = "init" /\ ~outpoint

\* While a live call is between creating the row and handing it to boltz the
\* row stays 'init', so its own transitions never throw (F19).
LiveSendOwnsRow ==
    \A c \in Sends :
        pc[c] \in {"funding", "locating", "capturing", "presigning"} => state = "init"

\* What the row says of the payment is true: 'claimed' was paid for, and a
\* cancelled or never funded send was not paid.
VerdictMatchesPayment ==
    /\ state = "claimed" => ln = "paid"
    /\ state \in {"cancelled", "failed"} => ln # "paid"

\* The vault gives up the exit material of the shared vtxo only once arkd
\* holds it spent.
VaultHeldWhileUnspent == [][vault /\ ~vault' => coin # "unspent"]_vars

\* The pass writes nothing to a row that a live call is driving.
PassKeepsOffLiveRow ==
    [][(pc'[Pass] # pc[Pass] /\ rowVars' # rowVars) =>
          \A c \in Sends : pc[c] \in {"idle", "inited", "done"}]_vars

\* Funding in the shared vtxo is not there for ever: boltz claims it, or it
\* is cancelled or refunded, with no help from boltz, once outages end. The
\* one exception is the row RecoverableWhenIdle is about.
FundsComeBack ==
    coin = "unspent" ~> (coin # "unspent" \/ (state = "init" /\ outpoint))

\* The promise of the swap (module SwapContract), with the coin as the lock,
\* the Lightning payment as "paid" and the row as the books.
LockOf(c) ==
    CASE c = "unspent" -> "locked"
      [] c = "claimed" -> "taken"
      [] c \in {"refunded", "cancelled"} -> "returned"
      [] OTHER -> "none"

BookOf(s) ==
    CASE s = "claimed" -> "paid"
      [] s \in {"cancelled", "failed"} -> "unpaid"
      [] s = "refunded" -> "returned"
      [] OTHER -> "open"

Contract == INSTANCE SwapContract
    WITH lock <- LockOf(coin), paid <- (ln = "paid"), book <- BookOf(state)

\* Every step of every driver, the world outside and a crash between any two
\* of them, is a step the contract allows.
RefinesContract == Contract!Spec

\* A claim by boltz gets booked, across crashes, failed polls and a live call
\* that gave up waiting, if the status row of boltz follows the payment.
ClaimIsBooked ==
    WF_vars(BoltzRecords) => (coin = "claimed" ~> state \in Terminal)
=============================================================================
