------------------------------- MODULE MCWallet ------------------------------
(***************************************************************************)
(* The wallet's parts share no state that their properties look at, so     *)
(* each behaviour runs one of them: a state machine, or one computation on *)
(* one input.                                                              *)
(***************************************************************************)
EXTENDS History, Boarding, Refresh, Noffer, WalletMath, Views

VARIABLE part

NoInput == [kind |-> "none"]

Pools(n, coins) == UNION {[1..m -> coins] : m \in 1..n}

Vtxo(v, s) == [value |-> v, spent |-> s = "spent", swept |-> s = "swept", expired |-> s = "expired"]

\* Three transactions, one of them listed again, each naming any of them or one that is not
\* in the chain (0).
ChainOf(spends, again_) == [i \in 1..4 |-> LET tx == IF i = 4 THEN again_ ELSE i
                                           IN  [tx |-> tx, spends |-> spends[tx]]]

AnyInput ==
  \/ \E p \in Pools(3, [value : {1, 2, 4, 5}, cost : {0, 2, 5}]), t \in 1..8 :
        input = [kind |-> "send", pool |-> p, target |-> t]
  \/ \E f \in [pct : {0, 1, 10, 50}, base : 0..1], t \in 1..40, o \in -1..1 :
        input = [kind |-> "drain", fees |-> f, target |-> t, off |-> o]
  \/ \E f \in [pct : {0, 10, 30}, base : 0..1], r \in 1..24,
        p \in [1..2 -> {Vtxo(v, s) : v \in {1, 4, 9, 20}, s \in {"plain", "spent", "swept", "expired"}}] :
        input = [kind |-> "offboard", fees |-> f, pool |-> p, asked |-> r]
  \/ \E v \in 1..10, a \in 0..4, f \in 0..3, t \in BOOLEAN :
        input = [kind |-> "split", value |-> v, amount |-> a, fee |-> f, third |-> t]
  \/ \E p \in Pools(3, [value : {1, 4, 5, 9, 14}]) : input = [kind |-> "pockets", pool |-> p]

AnyChain == \E s \in [1..3 -> SUBSET (0..3)], d \in 1..3 : chain = ChainOf(s, d)

wvars == <<part, input, historyVars, boardingVars, refreshVars, offerVars, layoutVars, pageVars>>

MCInit ==
  /\ part \in {"history", "boarding", "refresh", "offer", "math", "layout", "pages"}
  /\ HistoryInit /\ (part = "history" \/ inv = [c \in Confirms |-> CHOOSE h \in Invoices : TRUE])
  /\ BoardingInit /\ (part = "boarding" \/ \A u \in Outpoints : coin[u] = "none")
  /\ RefreshInit /\ (part = "refresh" \/ \A v \in Vtxos : vtxo[v] = "absent")
  /\ NofferInit /\ (part = "offer" \/ <<outbox, account>> = CHOOSE c \in OfferRelays \X OfferKeys : TRUE)
  /\ IF part = "math" THEN AnyInput ELSE input = NoInput
  /\ IF part = "layout" THEN AnyChain ELSE chain = <<>>
  /\ LayoutInit /\ PagesInit

MCNext ==
  /\ UNCHANGED <<part, input>>
  /\ \/ part = "history" /\ HistoryNext /\ UNCHANGED <<boardingVars, refreshVars, offerVars, layoutVars, pageVars>>
     \/ part = "boarding" /\ BoardingNext /\ UNCHANGED <<historyVars, refreshVars, offerVars, layoutVars, pageVars>>
     \/ part = "refresh" /\ RefreshNext /\ UNCHANGED <<historyVars, boardingVars, offerVars, layoutVars, pageVars>>
     \/ part = "offer" /\ NofferNext /\ UNCHANGED <<historyVars, boardingVars, refreshVars, layoutVars, pageVars>>
     \/ part = "layout" /\ LayoutNext /\ UNCHANGED <<historyVars, boardingVars, refreshVars, offerVars, pageVars>>
     \/ part = "pages" /\ PagesNext /\ UNCHANGED <<historyVars, boardingVars, refreshVars, offerVars, layoutVars>>

MCSpec == MCInit /\ [][MCNext]_wvars

TypeOK == InputOK /\ HistoryTypeOK /\ BoardingTypeOK /\ RefreshTypeOK /\ NofferTypeOK /\ LayoutTypeOK /\ PagesTypeOK
=============================================================================
