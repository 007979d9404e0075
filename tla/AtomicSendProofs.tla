-------------------------- MODULE AtomicSendProofs --------------------------
(***************************************************************************)
(* Proofs about AtomicSend, for any sets of calls and clicks, any T, any   *)
(* number of txid variants and any bound on the clock.                     *)
(***************************************************************************)
EXTENDS AtomicSend, TLAPS

-----------------------------------------------------------------------------
(* The inductive invariant.                                                *)

\* A live call that has created the row and not returned yet.
Driving(c) == pc[c] \notin {"idle", "inited", "done"}

\* The labels of the pass after it has found the row unregistered.
Visiting == PassLabels \ {"idle", "pre", "list", "visit"}

\* An executor that has got past its guards.
Executing(p) == pc[p] \in {"rGate", "rSubmit", "rWait", "cSubmit", "cWait"}

\* The indexer is behind arkd, never ahead of it.
IndexInv ==
    /\ coin = "none" => indexed = "none"
    /\ indexed = "spent" => coin \in SpentBy
    /\ "lag" \notin Faults => indexed = View(coin)

\* Funding the indexer does not show yet is funding of the current tick.
GraceInv ==
    /\ passNow <= now
    /\ (coin # "none" /\ indexed = "none") => createdAt = now
    /\ \A c \in Sends : pc[c] = "funding" => createdAt = now

\* An outpoint was read off the indexer; what needs one has one.
OutpointInv ==
    /\ outpoint => indexed # "none"
    /\ state \in Refundable \union {"claimed", "refunded", "cancelled"} => outpoint
    /\ \A c \in Sends : pc[c] \in {"capturing", "presigning", "awaiting", "confirming"} => outpoint
    /\ \A p \in Procs : Executing(p) => outpoint /\ state \notin {"none", "init"}

\* Who works on the row: nobody before it exists; the pass only when no live
\* call does.
OwnerInv ==
    /\ \A c \in Sends : Driving(c) => inflight /\ state # "none"
    /\ pc[Pass] \in Visiting => \A c \in Sends : ~Driving(c)
    /\ state = "none" => coin = "none" /\ ~outpoint /\ pc[Pass] = "idle"
    /\ \A c \in Sends : pc[c] = "verifying" => (indexed = "none" => coin = "none")
    /\ "stale" \notin Faults => pc[Pass] \notin {"pre", "visit"}

\* A row the pass listed without an outpoint has not moved on since.
SeenInv ==
    (pc[Pass] \in {"statusR", "statusP", "markR", "markP"} /\ ~seen[Pass].outpoint)
        => state = "init"

\* What boltz reports is so, and what a driver concluded from it stays so.
PaymentInv ==
    /\ coin = "none" => boltz = "init"
    /\ boltz = "init" => ln = "none"
    /\ boltz = "claimed" => ln = "paid"
    /\ boltz = "failed" => ln = "failed"
    /\ \A c \in Sends : pc[c] = "confirming" => ln = "paid"
    /\ pc[Pass] \in {"markR", "markP"} => ln = "paid"
    /\ \A p \in Procs : pc[p] = "cWait" => ln = "failed"
    /\ state = "claimed" => ln = "paid"
    /\ state = "cancelled" => ln = "failed"
    /\ coin = "claimed" => ln = "paid"
    /\ coin = "cancelled" => ln = "failed"

\* A row given up was never funded.
FailedInv == state = "failed" => coin = "none"

\* What no fault disturbs, however many calls run at once.
BaseInv == IndexInv /\ GraceInv /\ OutpointInv /\ PaymentInv

IInv ==
    /\ BaseInv
    /\ OwnerInv
    /\ SeenInv
    /\ FailedInv
    /\ LiveSendOwnsRow
    /\ NoStrandedFunds

-----------------------------------------------------------------------------
(* Types.                                                                  *)

\* A driver that finishes, moves on or starts a variant keeps the process
\* variables well typed.
LEMMA FinishType ==
    ASSUME ProcType, NEW p \in Procs, Finish(p)
    PROVE  ProcType'
  BY ProcsAssumption, BoundsAssumption
     DEF ProcType, Finish, Procs, SendLabels, ClickLabels, PassLabels, NoRow

LEMMA GotoType ==
    ASSUME ProcType, NEW p \in Procs, NEW l, Goto(p, l),
           p \in Sends => l \in SendLabels,
           p \in Clicks => l \in ClickLabels,
           p = Pass => l \in PassLabels
    PROVE  ProcType'
  BY ProcsAssumption DEF ProcType, Goto, Procs

LEMMA SubmitType ==
    ASSUME ProcType, NEW p \in Procs, NEW l, NEW k \in 0..maxK, Submit(p, l, k),
           p \in Sends => l \in SendLabels,
           p \in Clicks => l \in ClickLabels,
           p = Pass => l \in PassLabels
    PROVE  ProcType'
  BY ProcsAssumption DEF ProcType, Submit, Procs

LEMMA RowReadType ==
    ASSUME RowType
    PROVE  Row \in [state : SendStates \union {"none"}, outpoint : BOOLEAN,
                    updatedAt : 0..MaxNow]
  BY DEF RowType, Row

LEMMA NoRowType ==
    /\ 0 \in 0..MaxNow /\ 0 \in 0..maxK
    /\ NoRow \in [state : SendStates \union {"none"}, outpoint : BOOLEAN,
                  updatedAt : 0..MaxNow]
  <1>1. 0 \in 0..MaxNow /\ 0 \in 0..maxK
    BY BoundsAssumption
  <1> QED BY <1>1 DEF NoRow

\* The two writes of the row that several actions share.
LEMMA TransitionType ==
    ASSUME RowType, WorldType, NEW to \in SendStates, TryTransition(to), vault' \in BOOLEAN
    PROVE  RowType'
  BY DEF RowType, WorldType, TryTransition, rowVars

LEMMA VerdictType ==
    ASSUME RowType, WorldType, NEW b \in BOOLEAN, ApplyVerdict(b), vault' = vault
    PROVE  RowType'
  BY DEF RowType, WorldType, ApplyVerdict, TryTransition, setFundingOutpoint, rowVars,
         SendStates

\* The two executors, for the drivers that run them.
LEMMA CancelTypeStep ==
    ASSUME TypeOK, NEW p \in Sends \union {Pass}, CancelNext(p)
    PROVE  TypeOK'
  <1> USE DEF TypeOK
  <1>p. p \in Procs /\ p \notin Clicks /\ variant[p] \in 0..maxK
    BY ProcsAssumption DEF Procs, ProcType
  <1>k. 0 \in 0..maxK
    BY BoundsAssumption
  <1>l. {"cSubmit", "cWait"} \subseteq SendLabels \intersect PassLabels
    BY DEF SendLabels, PassLabels
  <1>u. ASSUME UNCHANGED <<rowVars, vault, arkVars, boltzVars, clockVars>>
        PROVE  RowType' /\ WorldType'
    BY <1>u DEF RowType, WorldType, rowVars, arkVars, boltzVars, clockVars
  <1>r. ASSUME UNCHANGED <<rowVars, vault>>
        PROVE  RowType'
    BY <1>r DEF RowType, rowVars
  <1>1. CASE CancelStart(p)
    BY <1>1, <1>p, <1>k, <1>l, <1>u, SubmitType, FinishType DEF CancelStart
  <1>2. CASE CancelRefused(p)
    BY <1>2, <1>p, <1>u, FinishType DEF CancelRefused
  <1>3. CASE CancelLands(p)
    <2>1. WorldType'
      BY <1>3 DEF CancelLands, CoSign, CoinBecomes, View, SpentBy, WorldType, clockVars
    <2> QED BY <1>3, <1>p, <1>l, <1>r, <2>1, GotoType, FinishType DEF CancelLands
  <1>4. CASE CancelPoisonedAck(p)
    <2>1. WorldType'
      BY <1>4 DEF CancelPoisonedAck, CoSign, WorldType, arkVars, clockVars
    <2> QED BY <1>4, <1>p, <1>l, <1>r, <2>1, GotoType DEF CancelPoisonedAck
  <1>5. CASE CancelRejected(p)
    <2>1. WorldType'
      BY <1>5, <1>p DEF CancelRejected, WorldType, boltzVars, clockVars
    <2> QED BY <1>5, <1>p, <1>r, <2>1, FinishType DEF CancelRejected
  <1>6. CASE CancelRegistered(p)
    <2>1. RowType' /\ WorldType'
      BY <1>6 DEF CancelRegistered, TryTransition, RowType, WorldType, rowVars, arkVars,
                  boltzVars, clockVars, SendStates
    <2> QED BY <1>6, <1>p, <2>1, FinishType DEF CancelRegistered
  <1>7. CASE CancelNotRegistered(p)
    <2>1. variant[p] < maxK => variant[p] + 1 \in 0..maxK
      BY <1>p, BoundsAssumption
    <2> QED BY <1>7, <1>p, <1>l, <1>u, <2>1, SubmitType, FinishType
            DEF CancelNotRegistered, NotRegistered
  <1> QED
    BY <1>1, <1>2, <1>3, <1>4, <1>5, <1>6, <1>7 DEF CancelNext

LEMMA RefundTypeStep ==
    ASSUME TypeOK, NEW p \in Clicks \union {Pass}, RefundNext(p)
    PROVE  TypeOK'
  <1> USE DEF TypeOK
  <1>p. p \in Procs /\ p \notin Sends /\ variant[p] \in 0..maxK
    BY ProcsAssumption DEF Procs, ProcType
  <1>k. 0 \in 0..maxK
    BY BoundsAssumption
  <1>l. {"rGate", "rSubmit", "rWait"} \subseteq ClickLabels \intersect PassLabels
    BY DEF ClickLabels, PassLabels
  <1>u. ASSUME UNCHANGED <<rowVars, vault, arkVars, boltzVars, clockVars>>
        PROVE  RowType' /\ WorldType'
    BY <1>u DEF RowType, WorldType, rowVars, arkVars, boltzVars, clockVars
  <1>r. ASSUME UNCHANGED <<rowVars, vault>>
        PROVE  RowType'
    BY <1>r DEF RowType, rowVars
  <1>1. CASE RefundStart(p)
    <2>1. CASE state \in Refundable /\ outpoint /\ now >= T
      BY <1>1, <1>p, <1>l, <1>u, <2>1, RowReadType, ProcsAssumption
         DEF RefundStart, ProcType, Procs
    <2>2. CASE ~(state \in Refundable /\ outpoint /\ now >= T)
      BY <1>1, <1>p, <1>u, <2>2, FinishType DEF RefundStart
    <2> QED BY <2>1, <2>2
  <1>2. CASE RefundGate(p)
    BY <1>2, <1>p, <1>k, <1>l, <1>u, SubmitType, FinishType DEF RefundGate
  <1>3. CASE RefundLands(p)
    <2>1. WorldType'
      BY <1>3 DEF RefundLands, CoinBecomes, View, SpentBy, WorldType, boltzVars, clockVars
    <2> QED BY <1>3, <1>p, <1>l, <1>r, <2>1, GotoType, FinishType DEF RefundLands
  <1>4. CASE RefundPoisonedAck(p)
    BY <1>4, <1>p, <1>l, <1>u, GotoType DEF RefundPoisonedAck
  <1>5. CASE RefundRejected(p)
    <2>1. WorldType'
      BY <1>5, <1>p DEF RefundRejected, WorldType, boltzVars, clockVars
    <2> QED BY <1>5, <1>p, <1>r, <2>1, FinishType DEF RefundRejected
  <1>6. CASE RefundRegistered(p)
    <2>1. RowType' /\ WorldType'
      BY <1>6 DEF RefundRegistered, RowType, WorldType, arkVars, boltzVars, clockVars, SendStates
    <2> QED BY <1>6, <1>p, <2>1, FinishType DEF RefundRegistered
  <1>7. CASE RefundNotRegistered(p)
    <2>1. variant[p] < maxK => variant[p] + 1 \in 0..maxK
      BY <1>p, BoundsAssumption
    <2> QED BY <1>7, <1>p, <1>l, <1>u, <2>1, SubmitType, FinishType
            DEF RefundNotRegistered, NotRegistered
  <1> QED
    BY <1>1, <1>2, <1>3, <1>4, <1>5, <1>6, <1>7 DEF RefundNext

\* Actions of one live call.
LEMMA SendTypeStep ==
    ASSUME TypeOK, NEW c \in Sends, SendNext(c)
    PROVE  TypeOK'
  <1> USE DEF TypeOK
  <1>c. c \in Procs /\ c # Pass /\ c \notin Clicks
    BY ProcsAssumption DEF Procs
  <1>u. ASSUME UNCHANGED <<rowVars, vault, arkVars, boltzVars, clockVars>>
        PROVE  RowType' /\ WorldType'
    BY <1>u DEF RowType, WorldType, rowVars, arkVars, boltzVars, clockVars
  <1>w. ASSUME UNCHANGED <<arkVars, boltzVars, clockVars>>
        PROVE  WorldType'
    BY <1>w DEF WorldType, arkVars, boltzVars, clockVars
  <1>1. CASE SendInit(c)
    BY <1>1, <1>c, <1>u, GotoType DEF SendInit, SendLabels
  <1>2. CASE SendCreate(c)
    <2>1. CASE state = "none"
      BY <1>2, <1>c, <1>w, <2>1
         DEF SendCreate, RowType, WorldType, ProcType, SendLabels, SendStates, Procs
    <2>2. CASE state # "none"
      BY <1>2, <1>c, <1>u, <2>2, FinishType DEF SendCreate
    <2> QED BY <2>1, <2>2
  <1>3. CASE FundLands(c)
    BY <1>3 DEF FundLands, CoinBecomes, View, SpentBy, RowType, WorldType, ProcType,
                rowVars, boltzVars, clockVars, procVars
  <1>4. CASE FundOk(c)
    BY <1>4, <1>c, <1>u, GotoType DEF FundOk, SendLabels
  <1>5. CASE FundThrows(c)
    BY <1>5, <1>c, <1>u, GotoType, FinishType DEF FundThrows, SendLabels
  <1>6. CASE SendVerify(c)
    BY <1>6, <1>c, <1>w, VerdictType, FinishType DEF SendVerify
  <1>7. CASE SendLocate(c)
    <2>1. RowType'
      BY <1>7 DEF SendLocate, setFundingOutpoint, RowType, WorldType, rowVars
    <2> QED BY <1>7, <1>c, <1>w, <2>1, GotoType, FinishType DEF SendLocate, SendLabels
  <1>8. CASE SendCapture(c)
    <2>1. RowType'
      BY <1>8 DEF SendCapture, RowType, rowVars
    <2> QED BY <1>8, <1>c, <1>w, <2>1, GotoType DEF SendCapture, SendLabels
  <1>9. CASE SendPresign(c)
    <2>1. RowType'
      <3>1. outpoint' = outpoint /\ preimage' = preimage /\ createdAt' = createdAt /\ vault' = vault
        BY <1>9 DEF SendPresign, rowVars
      <3>2. state' \in SendStates \union {"none"}
        BY <1>9 DEF SendPresign, RowType, rowVars, SendStates
      <3>3. updatedAt' \in 0..MaxNow
        BY <1>9 DEF SendPresign, RowType, WorldType, rowVars
      <3> QED
        BY <3>1, <3>2, <3>3, Zenon DEF RowType
    <2>2. WorldType'
      BY <1>9 DEF SendPresign, WorldType, arkVars, clockVars
    <2> QED BY <1>9, <1>c, <2>1, <2>2, GotoType, FinishType DEF SendPresign, SendLabels
  <1>10. CASE ReplyClaimed(c)
    BY <1>10, <1>c, <1>u, GotoType DEF ReplyClaimed, SendLabels
  <1>11. CASE ReplyFailed(c)
    <2>1. RowType'
      BY <1>11, TransitionType DEF ReplyFailed, SendStates, RowType
    <2> QED BY <1>11, <1>c, <1>w, <2>1, GotoType, FinishType DEF ReplyFailed, SendLabels
  <1>12. CASE ReplyOther(c)
    <2>1. RowType'
      BY <1>12, TransitionType DEF ReplyOther, SendStates, RowType
    <2> QED BY <1>12, <1>c, <1>w, <2>1, FinishType DEF ReplyOther
  <1>13. CASE ReplyThrows(c)
    BY <1>13, <1>c, <1>u, FinishType DEF ReplyThrows
  <1>14. CASE SendConfirm(c)
    <2>1. RowType'
      BY <1>14 DEF SendConfirm, TryTransition, setPreimage, SendStates, RowType, WorldType, rowVars
    <2> QED BY <1>14, <1>c, <1>w, <2>1, FinishType DEF SendConfirm
  <1> QED
    BY <1>1, <1>2, <1>3, <1>4, <1>5, <1>6, <1>7, <1>8, <1>9, <1>10, <1>11, <1>12,
       <1>13, <1>14, CancelTypeStep DEF SendNext

\* Actions of the reconciler.
LEMMA PassTypeStep ==
    ASSUME TypeOK, PassNext
    PROVE  TypeOK'
  <1> USE DEF TypeOK
  <1>p. Pass \in Procs /\ Pass \notin Sends /\ Pass \notin Clicks
    BY ProcsAssumption DEF Procs
  <1>u. ASSUME UNCHANGED <<rowVars, vault, arkVars, boltzVars, clockVars>>
        PROVE  RowType' /\ WorldType'
    BY <1>u DEF RowType, WorldType, rowVars, arkVars, boltzVars, clockVars
  <1>w. ASSUME UNCHANGED <<arkVars, boltzVars, clockVars>>
        PROVE  WorldType'
    BY <1>w DEF WorldType, arkVars, boltzVars, clockVars
  <1>v. ASSUME NEW s \in [state : SendStates \union {"none"}, outpoint : BOOLEAN,
                          updatedAt : 0..MaxNow],
               VisitRow(s)
        PROVE  ProcType'
    BY <1>v, <1>p, FinishType DEF VisitRow, ProcType, PassLabels, Procs
  <1>1. CASE PassStart
    <2>1. ProcType'
      BY <1>1, <1>p, RowReadType
         DEF PassStart, VisitInit, ProcType, WorldType, PassLabels, Procs
    <2> QED BY <1>1, <1>u, <2>1 DEF PassStart
  <1>2. CASE PassPre
    <2>1. ProcType'
      BY <1>2, <1>p DEF PassPre, VisitInit, ProcType, PassLabels, Procs
    <2> QED BY <1>2, <1>u, <2>1 DEF PassPre
  <1>3. CASE PassClassify
    <2>1. (passNow - createdAt > UNFUNDED_GRACE) \in BOOLEAN
      OBVIOUS
    <2>2. RowType'
      BY <1>3, <2>1, VerdictType DEF PassClassify
    <2> QED BY <1>3, <1>p, <1>w, <2>2, GotoType DEF PassClassify, PassLabels
  <1>4. CASE PassList
    <2>1. CASE state \in Terminal
      BY <1>4, <1>p, <1>u, <2>1, FinishType DEF PassList
    <2>2. CASE state \notin Terminal /\ VisitRow(Row)
      BY <1>4, <1>u, <1>v, <2>2, RowReadType DEF PassList
    <2>3. CASE state \notin Terminal /\ ~VisitRow(Row)
      <3>1. ProcType'
        BY <1>4, <1>p, <2>3, RowReadType DEF PassList, ProcType, PassLabels, Procs
      <3> QED BY <1>4, <1>u, <3>1 DEF PassList
    <2> QED BY <2>1, <2>2, <2>3
  <1>5. CASE PassVisit
    BY <1>5, <1>p, <1>u, <1>v DEF PassVisit, ProcType
  <1>6. CASE PassStatusRefund
    BY <1>6, <1>p, <1>u, GotoType DEF PassStatusRefund, PassLabels
  <1>7. CASE PassStatusPoll
    <2>1. RowType'
      BY <1>7 DEF PassStatusPoll, TryTransition, RowType, WorldType, rowVars, SendStates
    <2> QED BY <1>7, <1>p, <1>w, <2>1, GotoType, FinishType DEF PassStatusPoll, PassLabels
  <1>8. CASE PassMark
    <2>1. RowType'
      BY <1>8, <1>p DEF PassMark, setPreimage, RowType, WorldType, ProcType, rowVars, SendStates
    <2> QED BY <1>8, <1>p, <1>w, <2>1, GotoType, FinishType DEF PassMark, PassLabels
  <1> QED
    BY <1>1, <1>2, <1>3, <1>4, <1>5, <1>6, <1>7, <1>8, CancelTypeStep, RefundTypeStep
       DEF PassNext

\* Actions of the outside world.
LEMMA OutsideTypeStep ==
    ASSUME TypeOK, Outside
    PROVE  TypeOK'
  <1> USE DEF TypeOK
  <1>1. CASE IndexSync
    BY <1>1 DEF IndexSync, View, RowType, WorldType, ProcType, rowVars, boltzVars,
                clockVars, procVars, SpentBy
  <1>2. CASE BoltzAccept
    <2>1. RowType' /\ ProcType'
      BY <1>2 DEF BoltzAccept, RowType, ProcType, rowVars, procVars
    <2>2. WorldType'
      BY <1>2 DEF BoltzAccept, WorldType, arkVars, clockVars
    <2> QED BY <2>1, <2>2
  <1>3. CASE LnSettles
    BY <1>3 DEF LnSettles, RowType, WorldType, ProcType, rowVars, arkVars,
                clockVars, procVars
  <1>4. CASE BoltzRecords
    BY <1>4 DEF BoltzRecords, RowType, WorldType, ProcType, rowVars, arkVars,
                clockVars, procVars
  <1>5. CASE BoltzClaimLands
    BY <1>5 DEF BoltzClaimLands, CoinBecomes, View, SpentBy, RowType, WorldType, ProcType,
                rowVars, boltzVars, clockVars, procVars
  <1>6. CASE Tick
    BY <1>6, BoundsAssumption
       DEF Tick, RowType, WorldType, ProcType, rowVars, arkVars, boltzVars, procVars
  <1>7. CASE ChainReachesT
    BY <1>7 DEF ChainReachesT, RowType, WorldType, ProcType, rowVars, arkVars, boltzVars, procVars
  <1>8. CASE Stabilise
    BY <1>8 DEF Stabilise, RowType, WorldType, ProcType, rowVars, arkVars, boltzVars, procVars
  <1>9. CASE Crash
    <2>1. RowType' /\ WorldType'
      BY <1>9 DEF Crash, RowType, WorldType, rowVars, arkVars, boltzVars, clockVars
    <2>2. /\ inflight' \in BOOLEAN
          /\ seen' \in [Procs -> [state : SendStates \union {"none"},
                                 outpoint : BOOLEAN, updatedAt : 0..MaxNow]]
          /\ variant' \in [Procs -> 0..maxK]
          /\ passNow' \in 0..MaxNow
      BY <1>9, NoRowType DEF Crash
    <2>3. /\ pc' \in [Procs -> SendLabels \union ClickLabels \union PassLabels]
          /\ \A c \in Sends : pc'[c] \in SendLabels
          /\ \A w \in Clicks : pc'[w] \in ClickLabels
          /\ pc'[Pass] \in PassLabels
      BY <1>9, ProcsAssumption DEF Crash, Procs, SendLabels, ClickLabels, PassLabels
    <2> QED BY <2>1, <2>2, <2>3 DEF ProcType
  <1> QED
    BY <1>1, <1>2, <1>3, <1>4, <1>5, <1>6, <1>7, <1>8, <1>9 DEF Outside

LEMMA TypeInit == Init => TypeOK
  <1> SUFFICES ASSUME Init PROVE TypeOK
    OBVIOUS
  <1>0. RowType
    BY NoRowType DEF Init, RowType
  <1>1. WorldType
    BY NoRowType DEF Init, WorldType
  <1>2. /\ inflight \in BOOLEAN
        /\ seen \in [Procs -> [state : SendStates \union {"none"},
                              outpoint : BOOLEAN, updatedAt : 0..MaxNow]]
        /\ variant \in [Procs -> 0..maxK]
        /\ passNow \in 0..MaxNow
    BY NoRowType DEF Init
  <1>3. /\ pc \in [Procs -> SendLabels \union ClickLabels \union PassLabels]
        /\ \A c \in Sends : pc[c] \in SendLabels
        /\ \A w \in Clicks : pc[w] \in ClickLabels
        /\ pc[Pass] \in PassLabels
    BY ProcsAssumption DEF Init, Procs, SendLabels, ClickLabels, PassLabels
  <1> QED BY <1>0, <1>1, <1>2, <1>3 DEF TypeOK, ProcType

LEMMA TypeStep == TypeOK /\ [Next]_vars => TypeOK'
  <1> SUFFICES ASSUME TypeOK, [Next]_vars PROVE TypeOK'
    OBVIOUS
  <1>1. CASE Next
    BY <1>1, SendTypeStep, RefundTypeStep, PassTypeStep, OutsideTypeStep DEF Next
  <1>2. CASE UNCHANGED vars
    BY <1>2 DEF vars, TypeOK, RowType, WorldType, ProcType, rowVars, arkVars,
                boltzVars, clockVars, procVars
  <1> QED BY <1>1, <1>2

\* The type invariant holds whatever the faults are, for any number of calls.
THEOREM TypeCorrect == Spec => []TypeOK
  BY TypeInit, TypeStep, PTL DEF Spec

-----------------------------------------------------------------------------
(* What holds under every fault: what was read off the indexer and what    *)
(* boltz reports stay true.                                                *)

\* cancelAtomicSend: only a row with an outpoint is cancelled, only a dead payment co-signed.
LEMMA CancelBaseStep ==
    ASSUME TypeOK, BaseInv, NEW p \in Sends \union {Pass}, CancelNext(p)
    PROVE  BaseInv'
  <1> USE DEF BaseInv, IndexInv, GraceInv, OutpointInv, PaymentInv, Executing,
              TypeOK, RowType, WorldType, ProcType, Procs,
              rowVars, arkVars, boltzVars, clockVars, procVars,
              Goto, Finish, Refundable, Terminal, SpentBy
  <1>p. p \in Procs /\ p \notin Clicks
    BY ProcsAssumption
  <1>1. CASE CancelStart(p)
    BY <1>1, <1>p, ProcsAssumption DEF CancelStart, Submit
  <1>2. CASE CancelRefused(p)
    BY <1>2, <1>p, ProcsAssumption DEF CancelRefused
  <1>3. CASE CancelLands(p)
    BY <1>3, <1>p, ProcsAssumption DEF CancelLands, CoSign, CoinBecomes, View, Fault
  <1>4. CASE CancelPoisonedAck(p)
    BY <1>4, <1>p, ProcsAssumption DEF CancelPoisonedAck, CoSign
  <1>5. CASE CancelRejected(p)
    BY <1>5, <1>p, ProcsAssumption DEF CancelRejected
  <1>6. CASE CancelRegistered(p)
    BY <1>6, <1>p, ProcsAssumption DEF CancelRegistered, TryTransition, canTransition, SEND_TRANSITIONS, SendStates
  <1>7. CASE CancelNotRegistered(p)
    BY <1>7, <1>p, ProcsAssumption DEF CancelNotRegistered, NotRegistered, Submit
  <1> QED
    BY <1>1, <1>2, <1>3, <1>4, <1>5, <1>6, <1>7 DEF CancelNext

\* refundAtomicSend: only a row with an outpoint is refunded.
LEMMA RefundBaseStep ==
    ASSUME TypeOK, BaseInv, NEW p \in Clicks \union {Pass}, RefundNext(p)
    PROVE  BaseInv'
  <1> USE DEF BaseInv, IndexInv, GraceInv, OutpointInv, PaymentInv, Executing,
              TypeOK, RowType, WorldType, ProcType, Procs,
              rowVars, arkVars, boltzVars, clockVars, procVars,
              Goto, Finish, Refundable, Terminal, SpentBy
  <1>p. p \in Procs /\ p \notin Sends
    BY ProcsAssumption
  <1>1. CASE RefundStart(p)
    BY <1>1, <1>p, ProcsAssumption DEF RefundStart
  <1>2. CASE RefundGate(p)
    BY <1>2, <1>p, ProcsAssumption DEF RefundGate, Submit
  <1>3. CASE RefundLands(p)
    BY <1>3, <1>p, ProcsAssumption DEF RefundLands, CoinBecomes, View, Fault
  <1>4. CASE RefundPoisonedAck(p)
    BY <1>4, <1>p, ProcsAssumption DEF RefundPoisonedAck
  <1>5. CASE RefundRejected(p)
    BY <1>5, <1>p, ProcsAssumption DEF RefundRejected
  <1>6. CASE RefundRegistered(p)
    <2>1. CASE state' = state
      BY <1>6, <2>1, <1>p, ProcsAssumption DEF RefundRegistered, canTransition, SEND_TRANSITIONS, SendStates
    <2>2. CASE state' = "refunded"
      BY <1>6, <2>2, <1>p, ProcsAssumption DEF RefundRegistered, canTransition, SEND_TRANSITIONS, SendStates
    <2> QED
      BY <1>6, <2>1, <2>2 DEF RefundRegistered
  <1>7. CASE RefundNotRegistered(p)
    BY <1>7, <1>p, ProcsAssumption DEF RefundNotRegistered, NotRegistered, Submit
  <1> QED
    BY <1>1, <1>2, <1>3, <1>4, <1>5, <1>6, <1>7 DEF RefundNext

\* atomicSubdustSend: an outpoint is stored before boltz is asked, and 'claimed' is boltz's word.
LEMMA SendBaseStep ==
    ASSUME TypeOK, BaseInv, NEW c \in Sends, SendNext(c)
    PROVE  BaseInv'
  <1> USE DEF BaseInv, IndexInv, GraceInv, OutpointInv, PaymentInv, Executing,
              TypeOK, RowType, WorldType, ProcType, Procs,
              rowVars, arkVars, boltzVars, clockVars, procVars,
              Goto, Finish, Refundable, Terminal, SpentBy
  <1>p. c \in Procs /\ c # Pass /\ c \notin Clicks
    BY ProcsAssumption
  <1>1. CASE SendInit(c)
    BY <1>1, <1>p, ProcsAssumption DEF SendInit
  <1>2. CASE SendCreate(c)
    BY <1>2, <1>p, ProcsAssumption DEF SendCreate
  <1>3. CASE FundLands(c)
    BY <1>3, <1>p, ProcsAssumption DEF FundLands, CoinBecomes, View, Fault
  <1>4. CASE FundOk(c)
    BY <1>4, <1>p, ProcsAssumption DEF FundOk
  <1>5. CASE FundThrows(c)
    BY <1>5, <1>p, ProcsAssumption DEF FundThrows, Fault, View
  <1>6. CASE SendVerify(c)
    BY <1>6, <1>p, ProcsAssumption DEF SendVerify, ApplyVerdict, setFundingOutpoint, TryTransition, canTransition, SEND_TRANSITIONS, SendStates
  <1>7. CASE SendLocate(c)
    BY <1>7, <1>p, ProcsAssumption DEF SendLocate, setFundingOutpoint
  <1>8. CASE SendCapture(c)
    BY <1>8, <1>p, ProcsAssumption DEF SendCapture
  <1>9. CASE SendPresign(c)
    BY <1>9, <1>p, ProcsAssumption DEF SendPresign, canTransition, SEND_TRANSITIONS, SendStates
  <1>10. CASE ReplyClaimed(c)
    BY <1>10, <1>p, ProcsAssumption DEF ReplyClaimed
  <1>11. CASE ReplyFailed(c)
    BY <1>11, <1>p, ProcsAssumption DEF ReplyFailed, TryTransition, canTransition, SEND_TRANSITIONS, SendStates
  <1>12. CASE ReplyOther(c)
    BY <1>12, <1>p, ProcsAssumption DEF ReplyOther, TryTransition, canTransition, SEND_TRANSITIONS, SendStates
  <1>13. CASE ReplyThrows(c)
    BY <1>13, <1>p, ProcsAssumption DEF ReplyThrows
  <1>14. CASE SendConfirm(c)
    BY <1>14, <1>p, ProcsAssumption DEF SendConfirm, setPreimage, TryTransition, canTransition, SEND_TRANSITIONS, SendStates
  <1> QED
    BY <1>1, <1>2, <1>3, <1>4, <1>5, <1>6, <1>7, <1>8, <1>9, <1>10, <1>11, <1>12,
       <1>13, <1>14, CancelBaseStep DEF SendNext

\* resumeAtomicSends: however old its listing, it marks what boltz reports paid.
LEMMA PassBaseStep ==
    ASSUME TypeOK, BaseInv, PassNext
    PROVE  BaseInv'
  <1> USE DEF BaseInv, IndexInv, GraceInv, OutpointInv, PaymentInv, Executing,
              TypeOK, RowType, WorldType, ProcType, Procs,
              rowVars, arkVars, boltzVars, clockVars, procVars,
              Goto, Finish, Refundable, Terminal, SpentBy
  <1>p. Pass \in Procs /\ Pass \notin Sends /\ Pass \notin Clicks
    BY ProcsAssumption
  <1>1. CASE PassStart
    BY <1>1, <1>p, ProcsAssumption DEF PassStart, VisitInit, Fault, PassLabels
  <1>2. CASE PassPre
    BY <1>2, <1>p, ProcsAssumption DEF PassPre, VisitInit, PassLabels
  <1>3. CASE PassClassify
    BY <1>3, <1>p, ProcsAssumption, BoundsAssumption DEF PassClassify, ApplyVerdict, setFundingOutpoint, PassLabels, TryTransition, canTransition, SEND_TRANSITIONS, SendStates
  <1>4. CASE PassList
    BY <1>4, <1>p, ProcsAssumption DEF PassList, VisitRow, Row, classifyResume, Fault,
                                              PassLabels, SendStates
  <1>5. CASE PassVisit
    BY <1>5, <1>p, ProcsAssumption DEF PassVisit, VisitRow, classifyResume, PassLabels, SendStates
  <1>6. CASE PassStatusRefund
    BY <1>6, <1>p, ProcsAssumption DEF PassStatusRefund, PassLabels
  <1>7. CASE PassStatusPoll
    BY <1>7, <1>p, ProcsAssumption DEF PassStatusPoll, PassLabels, TryTransition, canTransition, SEND_TRANSITIONS, SendStates
  <1>8. CASE PassMark
    BY <1>8, <1>p, ProcsAssumption DEF PassMark, setPreimage, PassLabels
  <1> QED
    BY <1>1, <1>2, <1>3, <1>4, <1>5, <1>6, <1>7, <1>8, CancelBaseStep, RefundBaseStep DEF PassNext

\* arkd, the indexer, boltz, the clock and a crash.
LEMMA OutsideBaseStep ==
    ASSUME TypeOK, BaseInv, Outside
    PROVE  BaseInv'
  <1> USE DEF BaseInv, IndexInv, GraceInv, OutpointInv, PaymentInv, Executing,
              TypeOK, RowType, WorldType, ProcType, Procs,
              rowVars, arkVars, boltzVars, clockVars, procVars,
              Goto, Finish, Refundable, Terminal, SpentBy
  <1>p. Pass \in Procs
    BY ProcsAssumption
  <1>1. CASE IndexSync
    BY <1>1, <1>p, ProcsAssumption DEF IndexSync, View
  <1>2. CASE BoltzAccept
    BY <1>2, <1>p, ProcsAssumption DEF BoltzAccept
  <1>3. CASE LnSettles
    BY <1>3, <1>p, ProcsAssumption DEF LnSettles
  <1>4. CASE BoltzRecords
    BY <1>4, <1>p, ProcsAssumption DEF BoltzRecords
  <1>5. CASE BoltzClaimLands
    BY <1>5, <1>p, ProcsAssumption DEF BoltzClaimLands, CoinBecomes, View, Fault
  <1>6. CASE Tick
    BY <1>6, <1>p, ProcsAssumption DEF Tick
  <1>7. CASE ChainReachesT
    BY <1>7, <1>p, ProcsAssumption DEF ChainReachesT
  <1>8. CASE Stabilise
    BY <1>8, <1>p, ProcsAssumption DEF Stabilise
  <1>9. CASE Crash
    BY <1>9, <1>p, ProcsAssumption DEF Crash, PassLabels
  <1> QED
    BY <1>1, <1>2, <1>3, <1>4, <1>5, <1>6, <1>7, <1>8, <1>9 DEF Outside

LEMMA BaseInit == Init => BaseInv
  BY ProcsAssumption
     DEF Init, BaseInv, IndexInv, GraceInv, OutpointInv, PaymentInv, Executing,
         Procs, View, SpentBy, Refundable

LEMMA BaseStep ==
    ASSUME TypeOK, BaseInv, [Next]_vars
    PROVE  BaseInv'
  <1>1. CASE Next
    BY <1>1, SendBaseStep, RefundBaseStep, PassBaseStep, OutsideBaseStep DEF Next
  <1>2. CASE UNCHANGED vars
    BY <1>2 DEF vars, rowVars, arkVars, boltzVars, clockVars, procVars,
         BaseInv, IndexInv, GraceInv, OutpointInv, PaymentInv, Executing, View
  <1> QED BY <1>1, <1>2

\* BaseInv is an invariant whatever the faults are, for any number of calls.
THEOREM BaseInvariance == Spec => []BaseInv
  <1>1. TypeOK /\ BaseInv /\ [Next]_vars => BaseInv'
    BY BaseStep
  <1> QED BY <1>1, BaseInit, TypeCorrect, PTL DEF Spec

-----------------------------------------------------------------------------
(* The invariant is inductive when the faults are tolerable.               *)

\* cancelAtomicSend: what it concludes about the coin it reads off the indexer.
LEMMA CancelInvStep ==
    ASSUME Tolerable, TypeOK, IInv, BaseInv', NEW p \in Sends \union {Pass}, CancelNext(p)
    PROVE  IInv'
  <1> USE DEF IInv, BaseInv, IndexInv, GraceInv, OutpointInv, OwnerInv, SeenInv, PaymentInv,
              FailedInv, LiveSendOwnsRow, NoStrandedFunds, Driving, Visiting, Executing,
              TypeOK, RowType, WorldType, ProcType, Procs,
              rowVars, arkVars, boltzVars, clockVars, procVars,
              Goto, Finish, Refundable, Terminal, SpentBy, Tolerable
  <1>p. p \in Procs /\ p \notin Clicks
    BY ProcsAssumption
  <1>1. CASE CancelStart(p)
    BY <1>1, <1>p, ProcsAssumption DEF CancelStart, Submit
  <1>2. CASE CancelRefused(p)
    BY <1>2, <1>p, ProcsAssumption DEF CancelRefused
  <1>3. CASE CancelLands(p)
    BY <1>3, <1>p, ProcsAssumption DEF CancelLands, CoSign, CoinBecomes, View, Fault
  <1>4. CASE CancelPoisonedAck(p)
    BY <1>4, <1>p, ProcsAssumption DEF CancelPoisonedAck, CoSign
  <1>5. CASE CancelRejected(p)
    BY <1>5, <1>p, ProcsAssumption DEF CancelRejected
  <1>6. CASE CancelRegistered(p)
    BY <1>6, <1>p, ProcsAssumption DEF CancelRegistered, TryTransition, canTransition, SEND_TRANSITIONS, SendStates
  <1>7. CASE CancelNotRegistered(p)
    BY <1>7, <1>p, ProcsAssumption DEF CancelNotRegistered, NotRegistered, Submit
  <1> QED
    BY <1>1, <1>2, <1>3, <1>4, <1>5, <1>6, <1>7 DEF CancelNext

\* refundAtomicSend: it closes the row only when the outpoint is gone.
LEMMA RefundInvStep ==
    ASSUME Tolerable, TypeOK, IInv, BaseInv', NEW p \in Clicks \union {Pass}, RefundNext(p)
    PROVE  IInv'
  <1> USE DEF IInv, BaseInv, IndexInv, GraceInv, OutpointInv, OwnerInv, SeenInv, PaymentInv,
              FailedInv, LiveSendOwnsRow, NoStrandedFunds, Driving, Visiting, Executing,
              TypeOK, RowType, WorldType, ProcType, Procs,
              rowVars, arkVars, boltzVars, clockVars, procVars,
              Goto, Finish, Refundable, Terminal, SpentBy, Tolerable
  <1>p. p \in Procs /\ p \notin Sends
    BY ProcsAssumption
  <1>1. CASE RefundStart(p)
    BY <1>1, <1>p, ProcsAssumption DEF RefundStart
  <1>2. CASE RefundGate(p)
    BY <1>2, <1>p, ProcsAssumption DEF RefundGate, Submit
  <1>3. CASE RefundLands(p)
    BY <1>3, <1>p, ProcsAssumption DEF RefundLands, CoinBecomes, View, Fault
  <1>4. CASE RefundPoisonedAck(p)
    BY <1>4, <1>p, ProcsAssumption DEF RefundPoisonedAck
  <1>5. CASE RefundRejected(p)
    BY <1>5, <1>p, ProcsAssumption DEF RefundRejected
  <1>6. CASE RefundRegistered(p)
    <2>1. CASE state' = state
      BY <1>6, <2>1, <1>p, ProcsAssumption DEF RefundRegistered, canTransition, SEND_TRANSITIONS, SendStates
    <2>2. CASE state' = "refunded"
      BY <1>6, <2>2, <1>p, ProcsAssumption DEF RefundRegistered, canTransition, SEND_TRANSITIONS, SendStates
    <2> QED
      BY <1>6, <2>1, <2>2 DEF RefundRegistered
  <1>7. CASE RefundNotRegistered(p)
    BY <1>7, <1>p, ProcsAssumption DEF RefundNotRegistered, NotRegistered, Submit
  <1> QED
    BY <1>1, <1>2, <1>3, <1>4, <1>5, <1>6, <1>7 DEF RefundNext

\* atomicSubdustSend: it owns the row from SendCreate to Finish.
LEMMA SendInvStep ==
    ASSUME Tolerable, TypeOK, IInv, BaseInv', NEW c \in Sends, SendNext(c)
    PROVE  IInv'
  <1> USE DEF IInv, BaseInv, IndexInv, GraceInv, OutpointInv, OwnerInv, SeenInv, PaymentInv,
              FailedInv, LiveSendOwnsRow, NoStrandedFunds, Driving, Visiting, Executing,
              TypeOK, RowType, WorldType, ProcType, Procs,
              rowVars, arkVars, boltzVars, clockVars, procVars,
              Goto, Finish, Refundable, Terminal, SpentBy, Tolerable
  <1>p. c \in Procs /\ c # Pass /\ c \notin Clicks /\ \A d \in Sends : d = c
    BY ProcsAssumption
  <1>1. CASE SendInit(c)
    BY <1>1, <1>p, ProcsAssumption DEF SendInit
  <1>2. CASE SendCreate(c)
    BY <1>2, <1>p, ProcsAssumption DEF SendCreate
  <1>3. CASE FundLands(c)
    BY <1>3, <1>p, ProcsAssumption DEF FundLands, CoinBecomes, View, Fault
  <1>4. CASE FundOk(c)
    BY <1>4, <1>p, ProcsAssumption DEF FundOk
  <1>5. CASE FundThrows(c)
    BY <1>5, <1>p, ProcsAssumption DEF FundThrows, Fault, View
  <1>6. CASE SendVerify(c)
    BY <1>6, <1>p, ProcsAssumption DEF SendVerify, ApplyVerdict, setFundingOutpoint, TryTransition, canTransition, SEND_TRANSITIONS, SendStates
  <1>7. CASE SendLocate(c)
    BY <1>7, <1>p, ProcsAssumption DEF SendLocate, setFundingOutpoint
  <1>8. CASE SendCapture(c)
    BY <1>8, <1>p, ProcsAssumption DEF SendCapture
  <1>9. CASE SendPresign(c)
    BY <1>9, <1>p, ProcsAssumption DEF SendPresign, canTransition, SEND_TRANSITIONS, SendStates
  <1>10. CASE ReplyClaimed(c)
    BY <1>10, <1>p, ProcsAssumption DEF ReplyClaimed
  <1>11. CASE ReplyFailed(c)
    BY <1>11, <1>p, ProcsAssumption DEF ReplyFailed, TryTransition, canTransition, SEND_TRANSITIONS, SendStates
  <1>12. CASE ReplyOther(c)
    BY <1>12, <1>p, ProcsAssumption DEF ReplyOther, Fault
  <1>13. CASE ReplyThrows(c)
    BY <1>13, <1>p, ProcsAssumption DEF ReplyThrows
  <1>14. CASE SendConfirm(c)
    BY <1>14, <1>p, ProcsAssumption DEF SendConfirm, setPreimage, TryTransition, canTransition, SEND_TRANSITIONS, SendStates
  <1> QED
    BY <1>1, <1>2, <1>3, <1>4, <1>5, <1>6, <1>7, <1>8, <1>9, <1>10, <1>11, <1>12,
       <1>13, <1>14, CancelInvStep DEF SendNext

\* resumeAtomicSends: it touches only rows that no live call drives.
LEMMA PassInvStep ==
    ASSUME Tolerable, TypeOK, IInv, BaseInv', PassNext
    PROVE  IInv'
  <1> USE DEF IInv, BaseInv, IndexInv, GraceInv, OutpointInv, OwnerInv, SeenInv, PaymentInv,
              FailedInv, LiveSendOwnsRow, NoStrandedFunds, Driving, Visiting, Executing,
              TypeOK, RowType, WorldType, ProcType, Procs,
              rowVars, arkVars, boltzVars, clockVars, procVars,
              Goto, Finish, Refundable, Terminal, SpentBy, Tolerable
  <1>p. Pass \in Procs /\ Pass \notin Sends /\ Pass \notin Clicks
    BY ProcsAssumption
  <1>1. CASE PassStart
    BY <1>1, <1>p, ProcsAssumption DEF PassStart, VisitInit, Fault, PassLabels
  <1>2. CASE PassPre
    BY <1>2, <1>p, ProcsAssumption DEF PassPre, VisitInit, PassLabels
  <1>3. CASE PassClassify
    BY <1>3, <1>p, ProcsAssumption, BoundsAssumption DEF PassClassify, ApplyVerdict, setFundingOutpoint, PassLabels, TryTransition, canTransition, SEND_TRANSITIONS, SendStates
  <1>4. CASE PassList
    BY <1>4, <1>p, ProcsAssumption DEF PassList, VisitRow, Row, classifyResume, Fault,
                                              PassLabels, SendStates
  <1>5. CASE PassVisit
    BY <1>5, <1>p, ProcsAssumption DEF PassVisit
  <1>6. CASE PassStatusRefund
    BY <1>6, <1>p, ProcsAssumption DEF PassStatusRefund, PassLabels
  <1>7. CASE PassStatusPoll
    BY <1>7, <1>p, ProcsAssumption DEF PassStatusPoll, PassLabels, TryTransition, canTransition, SEND_TRANSITIONS, SendStates
  <1>8. CASE PassMark
    BY <1>8, <1>p, ProcsAssumption DEF PassMark, setPreimage, PassLabels
  <1> QED
    BY <1>1, <1>2, <1>3, <1>4, <1>5, <1>6, <1>7, <1>8, CancelInvStep, RefundInvStep DEF PassNext

\* arkd, the indexer, boltz, the clock and a crash.
LEMMA OutsideInvStep ==
    ASSUME Tolerable, TypeOK, IInv, BaseInv', Outside
    PROVE  IInv'
  <1> USE DEF IInv, BaseInv, IndexInv, GraceInv, OutpointInv, OwnerInv, SeenInv, PaymentInv,
              FailedInv, LiveSendOwnsRow, NoStrandedFunds, Driving, Visiting, Executing,
              TypeOK, RowType, WorldType, ProcType, Procs,
              rowVars, arkVars, boltzVars, clockVars, procVars,
              Goto, Finish, Refundable, Terminal, SpentBy, Tolerable
  <1>p. Pass \in Procs
    BY ProcsAssumption
  <1>1. CASE IndexSync
    BY <1>1, <1>p, ProcsAssumption DEF IndexSync, View
  <1>2. CASE BoltzAccept
    BY <1>2, <1>p, ProcsAssumption DEF BoltzAccept
  <1>3. CASE LnSettles
    BY <1>3, <1>p, ProcsAssumption DEF LnSettles
  <1>4. CASE BoltzRecords
    BY <1>4, <1>p, ProcsAssumption DEF BoltzRecords
  <1>5. CASE BoltzClaimLands
    BY <1>5, <1>p, ProcsAssumption DEF BoltzClaimLands, CoinBecomes, View, Fault
  <1>6. CASE Tick
    BY <1>6, <1>p, ProcsAssumption DEF Tick
  <1>7. CASE ChainReachesT
    BY <1>7, <1>p, ProcsAssumption DEF ChainReachesT
  <1>8. CASE Stabilise
    BY <1>8, <1>p, ProcsAssumption DEF Stabilise
  <1>9. CASE Crash
    BY <1>9, <1>p, ProcsAssumption DEF Crash, PassLabels
  <1> QED
    BY <1>1, <1>2, <1>3, <1>4, <1>5, <1>6, <1>7, <1>8, <1>9 DEF Outside

LEMMA InvInit == Init => IInv
  BY BaseInit, ProcsAssumption
     DEF Init, IInv, OwnerInv, SeenInv, FailedInv, LiveSendOwnsRow, NoStrandedFunds, Driving, Visiting, Executing,
         Procs, View, SpentBy, Refundable, Terminal, NoRow

LEMMA InvStep ==
    ASSUME Tolerable, TypeOK, IInv, [Next]_vars
    PROVE  IInv'
  <1>0. BaseInv'
    BY BaseStep DEF IInv
  <1>1. CASE Next
    BY <1>0, <1>1, SendInvStep, RefundInvStep, PassInvStep, OutsideInvStep DEF Next
  <1>2. CASE UNCHANGED vars
    BY <1>0, <1>2 DEF vars, rowVars, arkVars, boltzVars, clockVars, procVars,
         IInv, OwnerInv, SeenInv, FailedInv, LiveSendOwnsRow, NoStrandedFunds, Driving, Executing, View
  <1> QED BY <1>1, <1>2

\* IInv is an invariant of the specification.
THEOREM Invariance ==
    ASSUME Tolerable
    PROVE  Spec => []IInv
  <1>1. TypeOK /\ IInv /\ [Next]_vars => IInv'
    BY InvStep
  <1> QED BY <1>1, InvInit, TypeCorrect, PTL DEF Spec

-----------------------------------------------------------------------------
(* What follows from the invariant.                                        *)

\* No path closes the row over funding that is still in the shared vtxo.
THEOREM FundsAreNeverStranded ==
    ASSUME Tolerable
    PROVE  Spec => []NoStrandedFunds
  <1>1. IInv => NoStrandedFunds
    BY DEF IInv
  <1> QED BY <1>1, Invariance, PTL

\* The only funded row that nobody picks up while no call is live is the one whose outpoint
\* was stored before it left 'init' (send.ts 459-462, 735-740): every other can be refunded,
\* cancelled or found by the pre-pass.
THEOREM OrphanIsTheOnlyGap ==
    ASSUME Tolerable
    PROVE  Spec => [](RecoverableWhenIdle \/ (state = "init" /\ outpoint))
  <1>1. TypeOK /\ IInv => RecoverableWhenIdle \/ (state = "init" /\ outpoint)
    BY DEF TypeOK, RowType, IInv, BaseInv, OutpointInv, NoStrandedFunds, RecoverableWhenIdle,
           SendStates, Terminal, Refundable
  <1> QED BY <1>1, Invariance, TypeCorrect, PTL

\* The row stays 'init' under a live call until the call moves it on (F19).
THEOREM LiveSendKeepsRow ==
    ASSUME Tolerable
    PROVE  Spec => []LiveSendOwnsRow
  <1>1. IInv => LiveSendOwnsRow
    BY DEF IInv
  <1> QED BY <1>1, Invariance, PTL

\* A closed row tells the truth about the Lightning payment.
THEOREM VerdictIsRight ==
    ASSUME Tolerable
    PROVE  Spec => []VerdictMatchesPayment
  <1>1. IInv => VerdictMatchesPayment
    BY DEF IInv, BaseInv, PaymentInv, FailedInv, VerdictMatchesPayment
  <1> QED BY <1>1, Invariance, PTL

\* The exit material of the shared vtxo is given up only once it is spent, under every
\* fault and with any number of calls at once.
THEOREM VaultIsHeld ==
    Spec => VaultHeldWhileUnspent
  <1>1. ASSUME TypeOK, BaseInv, [Next]_vars, vault, ~vault'
        PROVE  coin # "unspent"
    <2> USE <1>1 DEF BaseInv, OutpointInv, IndexInv, SpentBy, TypeOK, WorldType, Executing, Procs
    <2>1. ASSUME NEW p \in Procs, pc[p] \in {"rWait", "cWait"}, indexed # "unspent"
          PROVE  coin # "unspent"
      BY <2>1
    <2>2. ASSUME NEW c \in Sends, SendNext(c)
          PROVE  coin # "unspent"
      BY <2>1, <2>2
         DEF SendNext, SendInit, SendCreate, FundLands, FundOk, FundThrows, SendVerify,
             SendLocate, SendCapture, SendPresign, ReplyClaimed, ReplyFailed, ReplyOther,
             ReplyThrows, SendConfirm, CancelNext, CancelStart, CancelRefused, CancelLands,
             CancelPoisonedAck, CancelRejected, CancelRegistered, CancelNotRegistered,
             NotRegistered
    <2>3. ASSUME NEW p \in Procs, RefundNext(p)
          PROVE  coin # "unspent"
      BY <2>1, <2>3
         DEF RefundNext, RefundStart, RefundGate, RefundLands, RefundPoisonedAck,
             RefundRejected, RefundRegistered, RefundNotRegistered, NotRegistered
    <2>4. ASSUME CancelNext(Pass)
          PROVE  coin # "unspent"
      BY <2>1, <2>4
         DEF CancelNext, CancelStart, CancelRefused, CancelLands,
             CancelPoisonedAck, CancelRejected, CancelRegistered, CancelNotRegistered,
             NotRegistered
    <2>5. CASE PassNext
      BY <2>3, <2>4, <2>5
         DEF PassNext, PassStart, PassPre, PassClassify, PassList, PassVisit,
             PassStatusRefund, PassStatusPoll, PassMark
    <2>6. CASE Outside
      BY <2>6 DEF Outside, IndexSync, BoltzAccept, LnSettles, BoltzRecords, BoltzClaimLands,
             Tick, ChainReachesT, Stabilise, Crash
    <2>7. CASE UNCHANGED vars
      BY <2>7 DEF vars
    <2> QED BY <2>2, <2>3, <2>5, <2>6, <2>7 DEF Next
  <1>2. TypeOK /\ BaseInv /\ [Next]_vars => [vault /\ ~vault' => coin # "unspent"]_vars
    BY <1>1
  <1> QED BY <1>2, BaseInvariance, TypeCorrect, PTL DEF Spec, VaultHeldWhileUnspent

\* Money that left the shared vtxo for boltz was paid for, money that came back by a cancel
\* was not, and the row says so: with lost answers, a lagging indexer, outdated listings,
\* crashes and several calls for one invoice too.
SpendsMatchPayment ==
    /\ coin = "claimed" \/ state = "claimed" => ln = "paid"
    /\ coin = "cancelled" \/ state = "cancelled" => ln = "failed"

\* Neither side of the swap loses its money to a fault (send.ts markClaimed,
\* cancelAtomicSend, refundAtomicSend).
THEOREM SpendsArePaidFor == Spec => []SpendsMatchPayment
  <1>1. BaseInv => SpendsMatchPayment
    BY DEF BaseInv, PaymentInv, SpendsMatchPayment
  <1> QED BY <1>1, BaseInvariance, PTL

\* The pass changes nothing in a row that a live call is driving.
THEOREM PassLeavesLiveRows ==
    ASSUME Tolerable
    PROVE  Spec => PassKeepsOffLiveRow
  <1>1. ASSUME TypeOK, IInv, [Next]_vars, pc'[Pass] # pc[Pass], rowVars' # rowVars,
               NEW c \in Sends
        PROVE  pc[c] \in {"idle", "inited", "done"}
    <2> USE <1>1 DEF TypeOK, ProcType, Procs
    <2>1. pc[Pass] \in Visiting => pc[c] \in {"idle", "inited", "done"}
      BY DEF IInv, OwnerInv, Driving
    <2>2. ASSUME NEW d \in Sends, SendNext(d)
          PROVE  pc'[Pass] = pc[Pass]
      BY <2>2, ProcsAssumption
         DEF SendNext, SendInit, SendCreate, FundLands, FundOk, FundThrows, SendVerify,
             SendLocate, SendCapture, SendPresign, ReplyClaimed, ReplyFailed, ReplyOther,
             ReplyThrows, SendConfirm, CancelNext, CancelStart, CancelRefused, CancelLands,
             CancelPoisonedAck, CancelRejected, CancelRegistered, CancelNotRegistered,
             NotRegistered, Goto, Finish, Submit, procVars
    <2>3. ASSUME NEW w \in Clicks, RefundNext(w)
          PROVE  pc'[Pass] = pc[Pass]
      BY <2>3, ProcsAssumption
         DEF RefundNext, RefundStart, RefundGate, RefundLands, RefundPoisonedAck,
             RefundRejected, RefundRegistered, RefundNotRegistered, NotRegistered,
             Goto, Finish, Submit
    <2>4. CASE PassNext
      <3>1. CASE pc[Pass] \in Visiting
        BY <2>1, <3>1
      <3>2. CASE pc[Pass] \in {"idle", "pre", "list", "visit"}
        BY <2>4, <3>2
           DEF PassNext, PassStart, PassPre, PassClassify, PassList, PassVisit,
               PassStatusRefund, PassStatusPoll, PassMark, CancelNext, CancelStart,
               CancelRefused, CancelLands, CancelPoisonedAck, CancelRejected,
               CancelRegistered, CancelNotRegistered, NotRegistered, RefundNext,
               RefundStart, RefundGate, RefundLands, RefundPoisonedAck,
               RefundRejected, RefundRegistered, RefundNotRegistered
      <3> QED BY <3>1, <3>2 DEF Visiting
    <2>5. CASE Outside
      BY <2>5 DEF Outside, IndexSync, BoltzAccept, LnSettles, BoltzRecords,
                  BoltzClaimLands, Tick, ChainReachesT, Stabilise, Crash
    <2>6. CASE UNCHANGED vars
      BY <2>6 DEF vars
    <2> QED BY <2>2, <2>3, <2>4, <2>5, <2>6 DEF Next
  <1>2. TypeOK /\ IInv /\ [Next]_vars =>
          [(pc'[Pass] # pc[Pass] /\ rowVars' # rowVars) =>
             \A c \in Sends : pc[c] \in {"idle", "inited", "done"}]_vars
    BY <1>1
  <1> QED BY <1>2, Invariance, TypeCorrect, PTL DEF Spec, PassKeepsOffLiveRow

-----------------------------------------------------------------------------
(* The swap keeps its contract.                                            *)

\* The ways a step changes what the contract speaks of: the coin is funded,
\* the coin is spent, the invoice is paid, or the row is closed.
ContractStep ==
    \/ UNCHANGED <<LockOf(coin), ln = "paid", BookOf(state)>>
    \/ Contract!Next

\* A step that leaves the coin and the payment alone keeps the contract if
\* it leaves the books open or closes them over unlocked money, truthfully.
LEMMA BookStep ==
    ASSUME TypeOK, coin' = coin, (ln' = "paid") = (ln = "paid"),
           \/ BookOf(state') = BookOf(state)
           \/ /\ state \notin Terminal /\ coin # "unspent"
              /\ \/ state' = "claimed" /\ ln = "paid"
                 \/ state' \in {"cancelled", "failed"} /\ ln # "paid"
                 \/ state' = "refunded" /\ coin # "none"
    PROVE  ContractStep
  BY DEF ContractStep, Contract!Next, Contract!Close, BookOf, LockOf, Terminal,
         TypeOK, WorldType, SpentBy

\* A step that spends or funds the coin and leaves row and payment alone.
LEMMA CoinStep ==
    ASSUME TypeOK, BookOf(state') = BookOf(state), (ln' = "paid") = (ln = "paid"),
           \/ coin = "none" /\ coin' = "unspent" /\ state \notin Terminal
           \/ coin = "unspent" /\ coin' \in {"refunded", "cancelled"}
           \/ coin = "unspent" /\ coin' = "claimed" /\ ln = "paid"
    PROVE  ContractStep
  BY DEF ContractStep, Contract!Next, Contract!Lock, Contract!Take, Contract!Return,
         BookOf, LockOf, Terminal, TypeOK, WorldType, SpentBy

\* A settled payment: the coin is there and the row does not deny it.
LEMMA PayStep ==
    ASSUME TypeOK, coin # "none", state \notin {"cancelled", "failed"},
           ln' = "paid", UNCHANGED <<coin, state>>
    PROVE  ContractStep
  BY DEF ContractStep, Contract!Next, Contract!Pay, BookOf, LockOf, TypeOK, WorldType, SpentBy

\* A step that touches none of the three.
LEMMA QuietStep ==
    ASSUME UNCHANGED <<coin, ln, state>>
    PROVE  ContractStep
  BY DEF ContractStep

\* cancelAtomicSend.
LEMMA CancelContract ==
    ASSUME TypeOK, IInv, NEW p \in Sends \union {Pass}, CancelNext(p)
    PROVE  ContractStep
  <1> USE DEF IInv, BaseInv, IndexInv, OutpointInv, OwnerInv, PaymentInv, FailedInv, Executing,
              TypeOK, RowType, WorldType, Procs, Refundable, Terminal, SpentBy,
              rowVars, arkVars, boltzVars
  <1>1. CASE CancelStart(p) \/ CancelRefused(p) \/ CancelRejected(p) \/ CancelNotRegistered(p)
    BY <1>1, QuietStep
       DEF CancelStart, CancelRefused, CancelRejected, CancelNotRegistered, NotRegistered
  <1>2. CASE CancelLands(p)
    BY <1>2, CoinStep DEF CancelLands, CoSign, CoinBecomes, BookOf
  <1>3. CASE CancelPoisonedAck(p)
    BY <1>3, BookStep DEF CancelPoisonedAck, CoSign
  <1>4. CASE CancelRegistered(p)
    <2>1. ln # "paid" /\ coin # "unspent"
      BY <1>4 DEF CancelRegistered
    <2> QED BY <1>4, <2>1, BookStep
            DEF CancelRegistered, TryTransition, canTransition, SEND_TRANSITIONS, SendStates
  <1> QED BY <1>1, <1>2, <1>3, <1>4 DEF CancelNext

\* refundAtomicSend.
LEMMA RefundContract ==
    ASSUME TypeOK, IInv, NEW p \in Clicks \union {Pass}, RefundNext(p)
    PROVE  ContractStep
  <1> USE DEF IInv, BaseInv, IndexInv, OutpointInv, Executing,
              TypeOK, RowType, WorldType, Procs, Refundable, Terminal, SpentBy,
              rowVars, arkVars, boltzVars
  <1>1. CASE RefundStart(p) \/ RefundGate(p) \/ RefundPoisonedAck(p) \/ RefundRejected(p)
             \/ RefundNotRegistered(p)
    BY <1>1, QuietStep
       DEF RefundStart, RefundGate, RefundPoisonedAck, RefundRejected, RefundNotRegistered,
           NotRegistered
  <1>2. CASE RefundLands(p)
    BY <1>2, CoinStep DEF RefundLands, CoinBecomes
  <1>3. CASE RefundRegistered(p)
    <2>1. coin \notin {"none", "unspent"}
      BY <1>3 DEF RefundRegistered
    <2> QED BY <1>3, <2>1, BookStep
            DEF RefundRegistered, canTransition, SEND_TRANSITIONS, SendStates
  <1> QED BY <1>1, <1>2, <1>3 DEF RefundNext

\* atomicSubdustSend.
LEMMA SendContract ==
    ASSUME Tolerable, TypeOK, IInv, NEW c \in Sends, SendNext(c)
    PROVE  ContractStep
  <1> USE DEF TypeOK, RowType, WorldType, Procs, Terminal, SpentBy, rowVars, arkVars, boltzVars
  <1>1. CASE \/ SendInit(c) \/ FundOk(c) \/ FundThrows(c) \/ SendLocate(c) \/ SendCapture(c)
             \/ ReplyClaimed(c) \/ ReplyThrows(c)
    BY <1>1, QuietStep
       DEF SendInit, FundOk, FundThrows, SendLocate, SendCapture, ReplyClaimed, ReplyThrows
  <1>2. CASE SendCreate(c) \/ SendPresign(c)
    BY <1>2, BookStep
       DEF SendCreate, SendPresign, BookOf, canTransition, SEND_TRANSITIONS, SendStates
  <1>3. CASE FundLands(c)
    <2>1. state = "init"
      BY <1>3 DEF FundLands, IInv, LiveSendOwnsRow
    <2> QED BY <1>3, <2>1, CoinStep DEF FundLands, CoinBecomes
  <1>4. CASE SendVerify(c)
    <2>1. indexed = "none" => coin = "none" /\ ln # "paid"
      BY <1>4 DEF SendVerify, IInv, BaseInv, OwnerInv, PaymentInv
    <2> QED BY <1>4, <2>1, BookStep
            DEF SendVerify, ApplyVerdict, TryTransition, canTransition, SEND_TRANSITIONS,
                SendStates, BookOf
  <1>5. CASE ReplyFailed(c)
    BY <1>5, BookStep
       DEF ReplyFailed, TryTransition, canTransition, SEND_TRANSITIONS, SendStates, BookOf
  <1>6. CASE ReplyOther(c)
    BY <1>6 DEF ReplyOther, Fault, Tolerable
  <1>7. CASE SendConfirm(c)
    <2>1. ln = "paid" /\ (indexed = "spent" => coin # "unspent")
      BY <1>7 DEF SendConfirm, IInv, BaseInv, PaymentInv, IndexInv
    <2> QED BY <1>7, <2>1, BookStep
            DEF SendConfirm, TryTransition, canTransition, SEND_TRANSITIONS, SendStates
  <1> QED BY <1>1, <1>2, <1>3, <1>4, <1>5, <1>6, <1>7, CancelContract DEF SendNext

\* resumeAtomicSends.
LEMMA PassContract ==
    ASSUME TypeOK, IInv, PassNext
    PROVE  ContractStep
  <1> USE DEF TypeOK, RowType, WorldType, Procs, Terminal, SpentBy, rowVars, arkVars, boltzVars
  <1>1. CASE PassStart \/ PassPre \/ PassList \/ PassVisit \/ PassStatusRefund
    BY <1>1, QuietStep DEF PassStart, PassPre, PassList, PassVisit, PassStatusRefund
  <1>2. CASE PassClassify
    <2>1. (indexed = "none" /\ passNow - createdAt > UNFUNDED_GRACE) => coin = "none"
      BY BoundsAssumption DEF IInv, BaseInv, GraceInv, ProcType
    <2>2. coin = "none" => ln # "paid"
      BY DEF IInv, BaseInv, PaymentInv
    <2> QED BY <1>2, <2>1, <2>2, BookStep
            DEF PassClassify, ApplyVerdict, TryTransition, canTransition, SEND_TRANSITIONS,
                SendStates, BookOf
  <1>3. CASE PassStatusPoll
    BY <1>3, BookStep
       DEF PassStatusPoll, TryTransition, canTransition, SEND_TRANSITIONS, SendStates, BookOf
  <1>4. CASE PassMark
    <2>1. ln = "paid" /\ (indexed = "spent" => coin # "unspent")
      BY <1>4 DEF PassMark, IInv, BaseInv, PaymentInv, IndexInv
    <2>2. ~seen[Pass].outpoint => state = "init"
      BY <1>4 DEF PassMark, IInv, SeenInv
    <2> QED BY <1>4, <2>1, <2>2, BookStep DEF PassMark
  <1> QED BY <1>1, <1>2, <1>3, <1>4, CancelContract, RefundContract DEF PassNext

\* arkd, the indexer, boltz, the clock and a crash.
LEMMA OutsideContract ==
    ASSUME TypeOK, IInv, Outside
    PROVE  ContractStep
  <1> USE DEF rowVars, arkVars, boltzVars
  <1>1. CASE \/ IndexSync \/ BoltzRecords \/ Tick \/ ChainReachesT \/ Stabilise \/ Crash
    BY <1>1, QuietStep DEF IndexSync, BoltzRecords, Tick, ChainReachesT, Stabilise, Crash
  <1>2. CASE BoltzAccept
    BY <1>2, BookStep DEF BoltzAccept, IInv, BaseInv, PaymentInv
  <1>3. CASE LnSettles
    <2>1. coin # "none" /\ state \notin {"cancelled", "failed"}
      BY <1>3 DEF LnSettles, IInv, BaseInv, PaymentInv, FailedInv
    <2> QED BY <1>3, <2>1, PayStep, BookStep DEF LnSettles
  <1>4. CASE BoltzClaimLands
    BY <1>4, CoinStep DEF BoltzClaimLands, CoinBecomes
  <1> QED BY <1>1, <1>2, <1>3, <1>4 DEF Outside

\* Whatever drives the row, and wherever a crash cuts in, the swap keeps the
\* contract: AtomicSend implements SwapContract.
THEOREM KeepsContract ==
    ASSUME Tolerable
    PROVE  Spec => RefinesContract
  <1>1. Init => Contract!Init
    BY DEF Init, Contract!Init, LockOf, BookOf
  <1>2. ASSUME TypeOK, IInv, [Next]_vars
        PROVE  [Contract!Next]_<<LockOf(coin), ln = "paid", BookOf(state)>>
    <2>1. CASE Next
      <3>1. ContractStep
        BY <1>2, <2>1, SendContract, RefundContract, PassContract, OutsideContract DEF Next
      <3> QED BY <3>1 DEF ContractStep
    <2>2. CASE UNCHANGED vars
      BY <2>2 DEF vars, rowVars, arkVars, boltzVars
    <2> QED BY <1>2, <2>1, <2>2
  <1> QED BY <1>1, <1>2, Invariance, TypeCorrect, PTL DEF Spec, RefinesContract, Contract!Spec
=============================================================================
