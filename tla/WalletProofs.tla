----------------------------- MODULE WalletProofs -----------------------------
(***************************************************************************)
(* Proofs about modules History, Noffer, Boarding, Refresh, WalletMath and *)
(* Views, for any number of invoices, posts, restarts, offers, relays,     *)
(* payers, deposits, rotations, vtxos, coins and history rows, any         *)
(* interval, silences and rounds, any amounts and fees, any chain of       *)
(* transactions and any page size.                                         *)
(***************************************************************************)
EXTENDS History, Noffer, Boarding, Refresh, WalletMath, Views, FiniteSetTheorems, FunctionTheorems,
        NaturalsInduction, WellFoundedInduction, TLAPS

-----------------------------------------------------------------------------
(* History. While an invoice was confirmed only once, its one handler has a *)
(* pending row in front of it; a process that boots has no handler at all;  *)
(* and a promise that runs has a pending offboard row.                      *)

OneTry ==
  \A c \in Confirms : post[c] = "ln" /\ ~again[inv[c]] =>
    /\ web[inv[c]] = "pending"
    /\ \A d \in Confirms : post[d] = "ln" /\ inv[d] = inv[c] => d = c
BootIsEmpty == mode = "boot" => \A c \in Confirms : post[c] # "ln"
PromiseIsPending == \A o \in Offboards : promise[o] => src[o] = "pending"

HistoryInv == HistoryTypeOK /\ OneTry /\ BootIsEmpty /\ PromiseIsPending /\ HistoryIsTrue

\* The part about the web rows, and the part about the mirrored ones.
WebInv == OneTry /\ BootIsEmpty /\ NoRowStranded /\ RowsMatchPayments
MirrorInv == PromiseIsPending /\ MirrorIsBehindOnly

LEMMA WebKept ==
  ASSUME WebInv, UNCHANGED <<mode, post, inv, web, paid, told, again>>
  PROVE  WebInv'
BY DEF WebInv, OneTry, BootIsEmpty, NoRowStranded, RowsMatchPayments, Trying

LEMMA MirrorKept ==
  ASSUME MirrorInv, UNCHANGED <<src, mirror, promise, rewritten>>
  PROVE  MirrorInv'
BY DEF MirrorInv, PromiseIsPending, MirrorIsBehindOnly

LEMMA LnTypes ==
  ASSUME HistoryTypeOK, NEW c \in Confirms, ConfirmLn(c) \/ LnReturns(c) \/ LnThrows(c) \/ ConfirmArk(c) \/ ArkEnds(c)
  PROVE  HistoryTypeOK'
<1>1. inv[c] \in Invoices
  BY DEF HistoryTypeOK
<1>2. UNCHANGED <<mode, inv, paid, src, mirror, promise, paying, rewritten, crashes>>
  BY DEF ConfirmLn, LnReturns, LnThrows, ConfirmArk, ArkEnds, nwc
<1>3. post' \in [Confirms -> {"idle", "ln", "ark", "done", "killed"}]
  BY DEF ConfirmLn, LnReturns, LnThrows, ConfirmArk, ArkEnds, HistoryTypeOK
<1>4. web' \in [Invoices -> RowStates]
  BY <1>1 DEF ConfirmLn, LnReturns, LnThrows, ConfirmArk, ArkEnds, HistoryTypeOK, recordWebLnPending, endWebLn, RowStates, Ends
<1>5. told' \in [Invoices -> BOOLEAN]
  BY <1>1 DEF ConfirmLn, LnReturns, LnThrows, ConfirmArk, ArkEnds, HistoryTypeOK
<1>6. again' \in [Invoices -> BOOLEAN]
  <2>1. CASE ConfirmLn(c)
    <3>1. \E b \in BOOLEAN : again' = [again EXCEPT ![inv[c]] = b]
      BY <1>1, <2>1 DEF ConfirmLn, HistoryTypeOK, Trying
    <3> QED
      BY <1>1, <3>1 DEF HistoryTypeOK
  <2> QED
    BY <2>1 DEF LnReturns, LnThrows, ConfirmArk, ArkEnds, HistoryTypeOK
<1>7. ark' \in [Confirms -> {"none"} \cup Ends]
  BY DEF ConfirmLn, LnReturns, LnThrows, ConfirmArk, ArkEnds, HistoryTypeOK, Ends
<1> QED
  BY <1>2, <1>3, <1>4, <1>5, <1>6, <1>7 DEF HistoryTypeOK

LEMMA ConfirmLnKeeps ==
  ASSUME HistoryTypeOK, WebInv, NEW c \in Confirms, ConfirmLn(c)
  PROVE  WebInv'
<1> DEFINE h == inv[c]
<1>1. /\ h \in Invoices /\ mode = "ready" /\ UNCHANGED <<mode, inv, paid, told>>
      /\ post' = [post EXCEPT ![c] = "ln"] /\ post[c] = "idle" /\ web' = [web EXCEPT ![h] = "pending"]
  BY DEF ConfirmLn, recordWebLnPending, HistoryTypeOK
<1>2. \A g \in Invoices : again'[g] = IF g = h THEN again[g] \/ Trying(g) \/ told[g] ELSE again[g]
  BY <1>1 DEF ConfirmLn, HistoryTypeOK
<1>3. \A d \in Confirms : post'[d] = "ln" <=> d = c \/ post[d] = "ln"
  BY <1>1 DEF HistoryTypeOK
<1>4. OneTry'
  <2> SUFFICES ASSUME NEW d \in Confirms, post'[d] = "ln", ~again'[inv[d]]
               PROVE  /\ web'[inv[d]] = "pending"
                      /\ \A e \in Confirms : post'[e] = "ln" /\ inv[e] = inv[d] => e = d
    BY <1>1 DEF OneTry
  <2>1. inv[d] \in Invoices /\ ~again[inv[d]]
    BY <1>2 DEF HistoryTypeOK
  <2>2. CASE inv[d] = h
    <3>1. ~Trying(h)
      BY <1>2, <2>1, <2>2
    <3>2. \A e \in Confirms : post'[e] = "ln" /\ inv[e] = h => e = c
      BY <1>3, <3>1 DEF Trying
    <3> QED
      BY <1>1, <2>2, <3>2 DEF HistoryTypeOK
  <2>3. CASE inv[d] # h
    BY <1>1, <1>3, <2>1, <2>3 DEF WebInv, OneTry, HistoryTypeOK
  <2> QED
    BY <2>2, <2>3
<1>5. BootIsEmpty'
  BY <1>1 DEF BootIsEmpty
<1>6. NoRowStranded'
  BY <1>1, <1>3 DEF WebInv, NoRowStranded, Trying, HistoryTypeOK
<1>7. RowsMatchPayments'
  BY <1>1, <1>2 DEF WebInv, RowsMatchPayments, HistoryTypeOK
<1> QED
  BY <1>4, <1>5, <1>6, <1>7 DEF WebInv

LEMMA LnEndsKeeps ==
  ASSUME HistoryTypeOK, WebInv, NEW c \in Confirms, LnReturns(c) \/ LnThrows(c)
  PROVE  WebInv'
<1> DEFINE h == inv[c]
<1>1. /\ h \in Invoices /\ UNCHANGED <<mode, inv, paid, again>>
      /\ post' = [post EXCEPT ![c] = "done"] /\ post[c] = "ln"
  BY DEF LnReturns, LnThrows, HistoryTypeOK
<1>2. PICK end \in Ends :
        /\ web' = [web EXCEPT ![h] = IF @ = "pending" THEN end ELSE @]
        /\ end = "settled" => paid[h] /\ told' = [told EXCEPT ![h] = TRUE]
        /\ end = "failed" => told' = told
  BY DEF LnReturns, LnThrows, endWebLn, Ends
<1>3. \A d \in Confirms : post'[d] = "ln" <=> post[d] = "ln" /\ d # c
  BY <1>1 DEF HistoryTypeOK
<1>4. /\ \A g \in Invoices : g # h => web'[g] = web[g] /\ told'[g] = told[g]
      /\ web'[h] # "pending" /\ (web[h] = "pending" => web'[h] = end) /\ (web[h] # "pending" => web'[h] = web[h])
  BY <1>1, <1>2 DEF HistoryTypeOK, Ends
<1>5. OneTry'
  <2> SUFFICES ASSUME NEW d \in Confirms, post'[d] = "ln", ~again[inv[d]]
               PROVE  /\ web'[inv[d]] = "pending"
                      /\ \A e \in Confirms : post'[e] = "ln" /\ inv[e] = inv[d] => e = d
    BY <1>1 DEF OneTry
  <2>1. post[d] = "ln" /\ d # c /\ inv[d] \in Invoices
    BY <1>3 DEF HistoryTypeOK
  <2>2. inv[d] # h /\ web[inv[d]] = "pending"
    BY <1>1, <2>1 DEF WebInv, OneTry
  <2> QED
    BY <1>3, <1>4, <2>1, <2>2 DEF WebInv, OneTry
<1>6. BootIsEmpty'
  BY <1>1, <1>3 DEF WebInv, BootIsEmpty
<1>7. NoRowStranded'
  BY <1>1, <1>3, <1>4 DEF WebInv, NoRowStranded, Trying
<1>8. RowsMatchPayments'
  <2> SUFFICES ASSUME NEW g \in Invoices
               PROVE  (web'[g] = "settled" => paid[g]) /\ (told'[g] /\ ~again[g] => web'[g] = "settled")
    BY <1>1 DEF RowsMatchPayments
  <2>1. CASE g # h
    BY <1>4, <2>1 DEF WebInv, RowsMatchPayments
  <2>2. CASE g = h
    <3>1. web'[h] = "settled" => paid[h]
      BY <1>1, <1>2, <1>4 DEF WebInv, RowsMatchPayments, Ends
    <3>2. ASSUME told'[h], ~again[h] PROVE web'[h] = "settled"
      <4>1. web[h] = "pending"
        BY <1>1, <3>2 DEF WebInv, OneTry
      <4>2. ~told[h]
        BY <1>1, <3>2, <4>1 DEF WebInv, RowsMatchPayments
      <4>3. end = "settled"
        BY <1>2, <3>2, <4>2 DEF Ends
      <4> QED
        BY <1>4, <4>1, <4>3
    <3> QED
      BY <2>2, <3>1, <3>2
  <2> QED
    BY <2>1, <2>2
<1> QED
  BY <1>5, <1>6, <1>7, <1>8 DEF WebInv

LEMMA ConfirmKeeps ==
  ASSUME HistoryInv, NEW c \in Confirms, ConfirmLn(c) \/ LnReturns(c) \/ LnThrows(c) \/ ConfirmArk(c) \/ ArkEnds(c)
  PROVE  HistoryTypeOK' /\ WebInv' /\ MirrorInv'
<1>1. HistoryTypeOK /\ WebInv /\ MirrorInv
  BY DEF HistoryInv, WebInv, MirrorInv, HistoryIsTrue
<1>2. MirrorInv'
  BY <1>1, MirrorKept DEF ConfirmLn, LnReturns, LnThrows, ConfirmArk, ArkEnds, nwc
<1>3. CASE ConfirmArk(c) \/ ArkEnds(c)
  <2>1. /\ UNCHANGED <<mode, inv, web, paid, told, again>>
        /\ \A d \in Confirms : post'[d] = "ln" <=> post[d] = "ln"
    BY <1>1, <1>3 DEF ConfirmArk, ArkEnds, HistoryTypeOK
  <2>2. WebInv'
    BY <1>1, <2>1 DEF WebInv, OneTry, BootIsEmpty, NoRowStranded, RowsMatchPayments, Trying
  <2> QED
    BY <1>1, <1>2, <2>2, LnTypes
<1> QED
  BY <1>1, <1>2, <1>3, LnTypes, ConfirmLnKeeps, LnEndsKeeps

LEMMA SourcesKeep ==
  ASSUME HistoryInv,
         \/ \E c \in Confirms, o \in Offboards : ConfirmOnchain(c, o)
         \/ \E o \in Offboards : OffboardEnds(o)
         \/ \E r \in Requests : NwcOpens(r) \/ NwcReturns(r) \/ NwcReconciled(r)
         \/ syncHistoryFromSources
  PROVE  HistoryTypeOK' /\ WebInv' /\ MirrorInv'
<1>1. HistoryTypeOK /\ WebInv /\ MirrorInv
  BY DEF HistoryInv, WebInv, MirrorInv, HistoryIsTrue
<1>2. UNCHANGED <<mode, inv, web, paid, told, again, ark, crashes>>
  BY DEF ConfirmOnchain, OffboardEnds, NwcOpens, NwcReturns, NwcReconciled, syncHistoryFromSources, opened
<1>3. /\ post' \in [Confirms -> {"idle", "ln", "ark", "done", "killed"}]
      /\ \A c \in Confirms : post'[c] = "ln" <=> post[c] = "ln"
  BY <1>1 DEF ConfirmOnchain, OffboardEnds, NwcOpens, NwcReturns, NwcReconciled, syncHistoryFromSources, HistoryTypeOK
<1>4. WebInv'
  BY <1>1, <1>2, <1>3 DEF WebInv, OneTry, BootIsEmpty, NoRowStranded, RowsMatchPayments, Trying
<1>5. /\ paying' \subseteq Requests /\ rewritten' \subseteq Requests
      /\ src' \in [Sources -> RowStates] /\ mirror' \in [Sources -> RowStates] /\ promise' \in [Offboards -> BOOLEAN]
      /\ MirrorInv'
  <2>1. CASE \E c \in Confirms, o \in Offboards : ConfirmOnchain(c, o)
    <3>1. PICK o \in Offboards : src[o] = "none" /\ opened(o) /\ promise' = [promise EXCEPT ![o] = TRUE] /\ UNCHANGED <<paying, rewritten>>
      BY <2>1 DEF ConfirmOnchain, nwc
    <3> QED
      BY <1>1, <3>1 DEF opened, HistoryTypeOK, Sources, RowStates, Ends, MirrorInv, PromiseIsPending, MirrorIsBehindOnly
  <2>2. CASE \E o \in Offboards : OffboardEnds(o)
    <3>1. PICK o \in Offboards : OffboardEnds(o)
      BY <2>2
    <3>2. PICK end \in Ends : src' = [src EXCEPT ![o] = end]
      BY <3>1 DEF OffboardEnds
    <3> QED
      BY <1>1, <3>1, <3>2 DEF OffboardEnds, nwc, HistoryTypeOK, Sources, RowStates, Ends, MirrorInv, PromiseIsPending, MirrorIsBehindOnly
  <2>3. CASE \E r \in Requests : NwcOpens(r)
    <3>1. PICK r \in Requests : NwcOpens(r)
      BY <2>3
    <3> QED
      BY <1>1, <3>1, HistoryAssumption
      DEF NwcOpens, opened, HistoryTypeOK, Sources, RowStates, Ends, MirrorInv, PromiseIsPending, MirrorIsBehindOnly
  <2>4. CASE \E r \in Requests : NwcReturns(r) \/ NwcReconciled(r)
    <3>1. PICK r \in Requests : NwcReturns(r) \/ NwcReconciled(r)
      BY <2>4
    <3>2. PICK end \in Ends : /\ src' = [src EXCEPT ![r] = end]
                              /\ src[r] \in Ends /\ src[r] # end => r \in rewritten'
      BY <3>1 DEF NwcReturns, NwcReconciled, Ends
    <3>3. /\ UNCHANGED <<mirror, promise>> /\ paying' \subseteq Requests
          /\ rewritten' \subseteq Requests /\ rewritten \subseteq rewritten' /\ r \notin Offboards /\ r \in Sources
      BY <1>1, <3>1, HistoryAssumption DEF NwcReturns, NwcReconciled, nwc, HistoryTypeOK, Sources
    <3>4. MirrorIsBehindOnly'
      BY <1>1, <3>2, <3>3 DEF HistoryTypeOK, MirrorInv, MirrorIsBehindOnly
    <3>5. PromiseIsPending'
      BY <1>1, <3>2, <3>3 DEF HistoryTypeOK, MirrorInv, PromiseIsPending, Sources
    <3> QED
      BY <1>1, <3>2, <3>3, <3>4, <3>5 DEF HistoryTypeOK, RowStates, MirrorInv
  <2>5. CASE syncHistoryFromSources
    BY <1>1, <2>5
    DEF syncHistoryFromSources, nwc, HistoryTypeOK, RowStates, Ends, MirrorInv, PromiseIsPending, MirrorIsBehindOnly
  <2> QED
    BY <2>1, <2>2, <2>3, <2>4, <2>5
<1> QED
  BY <1>1, <1>2, <1>3, <1>4, <1>5 DEF HistoryTypeOK

LEMMA ProcessKeeps ==
  ASSUME HistoryInv, BringUp \/ Crash \/ \E h \in Invoices : BoltzPays(h)
  PROVE  HistoryTypeOK' /\ WebInv' /\ MirrorInv'
<1>1. HistoryTypeOK /\ WebInv /\ MirrorInv
  BY DEF HistoryInv, WebInv, MirrorInv, HistoryIsTrue
<1>2. CASE BringUp
  <2>1. UNCHANGED <<post, inv, paid, told, again, ark, src, mirror, promise, paying, rewritten, crashes>> /\ mode = "boot"
    BY <1>2 DEF BringUp, nwc
  <2>2. /\ web' \in [Invoices -> RowStates]
        /\ \A h \in Invoices : web'[h] # "pending" /\ (web[h] # "pending" => web'[h] = web[h])
                               /\ (web[h] = "pending" => web'[h] = "failed")
    BY <1>1, <1>2 DEF BringUp, sweepInterruptedWebSends, HistoryTypeOK, RowStates, Ends
  <2>3. HistoryTypeOK'
    BY <1>1, <1>2, <2>1, <2>2 DEF BringUp, HistoryTypeOK
  <2>4. \A c \in Confirms : post[c] # "ln"
    BY <1>1, <2>1 DEF WebInv, BootIsEmpty
  <2>5. OneTry' /\ BootIsEmpty'
    BY <2>1, <2>4 DEF OneTry, BootIsEmpty
  <2>6. NoRowStranded' /\ RowsMatchPayments'
    BY <1>1, <2>1, <2>2 DEF WebInv, NoRowStranded, RowsMatchPayments
  <2> QED
    BY <1>1, <2>1, <2>3, <2>5, <2>6, MirrorKept DEF WebInv
<1>3. CASE Crash
  <2>1. UNCHANGED <<inv, web, paid, told, again, ark, src, mirror, rewritten>> /\ mode' = "boot" /\ paying' = {}
    BY <1>3 DEF Crash
  <2>2. /\ post' \in [Confirms -> {"idle", "ln", "ark", "done", "killed"}] /\ \A c \in Confirms : post'[c] # "ln"
        /\ promise' \in [Offboards -> BOOLEAN] /\ \A o \in Offboards : ~promise'[o]
    BY <1>1, <1>3 DEF Crash, HistoryTypeOK
  <2>3. crashes' \in 0..MaxCrashes
    BY <1>1, <1>3, HistoryAssumption DEF Crash, HistoryTypeOK
  <2>4. HistoryTypeOK'
    BY <1>1, <2>1, <2>2, <2>3 DEF HistoryTypeOK
  <2>5. WebInv'
    BY <1>1, <2>1, <2>2 DEF WebInv, OneTry, BootIsEmpty, NoRowStranded, RowsMatchPayments
  <2> QED
    BY <1>1, <2>1, <2>2, <2>4, <2>5 DEF MirrorInv, PromiseIsPending, MirrorIsBehindOnly
<1>4. CASE \E h \in Invoices : BoltzPays(h)
  <2>1. PICK h \in Invoices : BoltzPays(h)
    BY <1>4
  <2>2. /\ UNCHANGED <<mode, post, inv, web, told, again, ark, src, mirror, promise, paying, rewritten, crashes>>
        /\ paid' \in [Invoices -> BOOLEAN] /\ \A g \in Invoices : paid[g] => paid'[g]
    BY <1>1, <2>1 DEF BoltzPays, nwc, HistoryTypeOK
  <2>3. HistoryTypeOK'
    BY <1>1, <2>2 DEF HistoryTypeOK
  <2>4. WebInv'
    BY <1>1, <2>2 DEF WebInv, OneTry, BootIsEmpty, NoRowStranded, RowsMatchPayments, Trying
  <2> QED
    BY <1>1, <2>2, <2>3, <2>4, MirrorKept
<1> QED
  BY <1>2, <1>3, <1>4

\* The history's invariant, across tries, restarts and late settlements
\* (history.ts, offboards.ts, /send/confirm of web/server.ts).
THEOREM HistoryInvariance == HistorySpec => []HistoryInv
<1>1. HistoryInit => HistoryInv
  <2> SUFFICES ASSUME HistoryInit PROVE HistoryInv
    OBVIOUS
  <2>1. HistoryTypeOK
    <3>1. crashes \in 0..MaxCrashes
      BY HistoryAssumption DEF HistoryInit
    <3>2. \A h \in Invoices : ~paid[h] /\ ~told[h] /\ ~again[h]
      BY DEF HistoryInit
    <3>3. paid \in [Invoices -> BOOLEAN] /\ told \in [Invoices -> BOOLEAN] /\ again \in [Invoices -> BOOLEAN]
      BY DEF HistoryInit
    <3>4. promise \in [Offboards -> BOOLEAN] /\ src \in [Sources -> RowStates] /\ mirror \in [Sources -> RowStates]
      BY DEF HistoryInit, RowStates
    <3> QED
      BY <3>1, <3>3, <3>4 DEF HistoryInit, HistoryTypeOK, RowStates
  <2> QED
    BY <2>1 DEF HistoryInit, HistoryInv, OneTry, BootIsEmpty, PromiseIsPending, HistoryIsTrue,
                NoRowStranded, RowsMatchPayments, MirrorIsBehindOnly, Ends
<1>2. HistoryInv /\ [HistoryNext]_historyVars => HistoryInv'
  <2> SUFFICES ASSUME HistoryInv, [HistoryNext]_historyVars PROVE HistoryTypeOK' /\ WebInv' /\ MirrorInv'
    BY DEF HistoryInv, WebInv, MirrorInv, HistoryIsTrue
  <2>1. CASE UNCHANGED historyVars
    <3>1. UNCHANGED <<mode, post, inv, web, paid, told, again, ark, src, mirror, promise, paying, rewritten, crashes>>
      BY <2>1 DEF historyVars, nwc
    <3>2. HistoryTypeOK'
      BY <3>1 DEF HistoryInv, HistoryTypeOK
    <3> QED
      BY <3>1, <3>2, WebKept, MirrorKept DEF HistoryInv, WebInv, MirrorInv, HistoryIsTrue
  <2> QED
    BY <2>1, ConfirmKeeps, SourcesKeep, ProcessKeeps DEF HistoryNext
<1> QED
  BY <1>1, <1>2, PTL DEF HistorySpec

\* No row is stranded, no settled row lies, and no mirrored row tells an end that its source
\* does not have, unless pay_invoice wrote it over another, for any number of posts, requests
\* and restarts (history.ts).
THEOREM HistoryTellsTheTruth == HistorySpec => []HistoryIsTrue
<1>1. HistoryInv => HistoryIsTrue
  BY DEF HistoryInv
<1> QED
  BY <1>1, HistoryInvariance, PTL

-----------------------------------------------------------------------------
(* Offers. Only a living service listens; a request that was taken up came   *)
(* over the relay of its offer, which its handler keeps through every        *)
(* regeneration; an answer ends its handler, so the receipt row it was given *)
(* for is never written again.                                               *)

ServiceInv ==
  /\ ~alive => sub = Nowhere
  /\ alive => sub = serving /\ stored = [relay |-> serving, key |-> account]

\* The request of an attempt went over this relay.
CameBy(e, relay) == \E r \in wire : r.id = e /\ r.code.relay = relay

HandlerInv ==
  \A e \in Attempts :
    /\ handler[e].at # "none" => CameBy(e, handler[e].relay)
    /\ handler[e].at = "invoice" => receipt[e] = handler[e].relay

AnswerInv ==
  \A a \in answers :
    /\ handler[a.id].at = "done" /\ CameBy(a.id, a.relay)
    /\ a.body = "bolt11" => receipt[a.id] = a.relay

\* An invoice on a payer's page is an answer that was sent.
PageInv ==
  \A p \in Pages :
    page[p].at = "bolt11" /\ page[p].code.key # Elsewhere =>
      \E a \in answers : a.id = <<p, page[p].n>> /\ a.relay = page[p].code.relay /\ a.body = "bolt11"

OfferInv == NofferTypeOK /\ ServiceInv /\ HandlerInv /\ AnswerInv /\ PageInv

PageType == [at : {"idle", "waiting", "bolt11", "error", "timeout", "decode"},
             n : 1..2, code : Codes \cup Foreign \cup {NoCode}]
HandlerType == [at : {"none", "issue", "invoice", "refuse", "done"}, relay : OfferRelays \cup {Nowhere}]

LEMMA ServeKeeps ==
  ASSUME OfferInv, (\E k \in OfferKeys : startOfferService(k)) \/ regenerate
  PROVE  OfferInv'
<1>1. PICK code \in Codes : serve(code) /\ code.key = account'
  <2>1. CASE regenerate
    <3>1. [relay |-> outbox, key |-> account] \in Codes
      BY DEF OfferInv, NofferTypeOK, Codes
    <3> QED
      BY <2>1, <3>1 DEF regenerate
  <2>2. CASE \E k \in OfferKeys : startOfferService(k)
    <3>1. PICK k \in OfferKeys : startOfferService(k)
      BY <2>2
    <3>2. stored.key = k => stored \in Codes
      BY NofferAssumption DEF OfferInv, NofferTypeOK, NoCode
    <3>3. [relay |-> outbox, key |-> k] \in Codes /\ [relay |-> outbox, key |-> k].key = k
      BY DEF OfferInv, NofferTypeOK, Codes
    <3> QED
      BY <3>1, <3>2, <3>3 DEF startOfferService
  <2> QED
    BY <2>1, <2>2
<1>2. UNCHANGED <<outbox, page, wire, handler, receipt, answers, open, deaths>> /\ alive' = TRUE /\ account' \in OfferKeys
  BY DEF startOfferService, regenerate, OfferInv, NofferTypeOK
<1>3. /\ stored' = code /\ serving' = code.relay /\ sub' = code.relay /\ shown' = shown \cup {code}
      /\ code.relay \in OfferRelays /\ code = [relay |-> code.relay, key |-> code.key]
  BY <1>1 DEF serve, Codes
<1>4. NofferTypeOK'
  BY <1>2, <1>3 DEF OfferInv, NofferTypeOK
<1>5. ServiceInv'
  BY <1>1, <1>2, <1>3 DEF ServiceInv
<1>6. HandlerInv' /\ AnswerInv' /\ PageInv'
  BY <1>2 DEF OfferInv, HandlerInv, AnswerInv, PageInv, CameBy
<1> QED
  BY <1>4, <1>5, <1>6 DEF OfferInv

LEMMA RequestTaken ==
  ASSUME OfferInv, NEW r \in wire, handleOfferRequest(r)
  PROVE  OfferInv'
<1>1. UNCHANGED <<alive, account, stored, serving, sub, shown, deaths, outbox, page, wire, receipt, answers, open>>
  BY DEF handleOfferRequest, service
<1>2. r.id \in Attempts /\ r.code.relay \in OfferRelays /\ handler[r.id].at = "none" /\ sub = r.code.relay
  BY DEF handleOfferRequest, OfferInv, NofferTypeOK, Codes
<1>3. serving = r.code.relay
  BY <1>2, NofferAssumption DEF OfferInv, ServiceInv
<1>4. PICK q \in HandlerType :
        /\ handler' = [handler EXCEPT ![r.id] = q]
        /\ q.relay = serving /\ q.at \in {"issue", "refuse", "done"}
  <2>1. PICK step \in {"issue", "refuse", "done"} :
          handler' = [handler EXCEPT ![r.id] = [relay |-> serving, at |-> step]]
    <3>1. CASE r.content = "good"
      BY <3>1 DEF handleOfferRequest
    <3>2. CASE r.content = "invalid"
      BY <3>2 DEF handleOfferRequest
    <3>3. CASE r.content = "foreign"
      BY <3>3 DEF handleOfferRequest
    <3>4. r.content \in Contents
      BY DEF OfferInv, NofferTypeOK
    <3> QED
      BY <3>1, <3>2, <3>3, <3>4 DEF Contents
  <2>2. [relay |-> serving, at |-> step] \in HandlerType
    BY DEF HandlerType, OfferInv, NofferTypeOK
  <2> QED
    BY <2>1, <2>2
<1>5. handler' \in [Attempts -> HandlerType]
  BY <1>2, <1>4 DEF OfferInv, NofferTypeOK, HandlerType
<1>6. NofferTypeOK'
  BY <1>1, <1>5 DEF OfferInv, NofferTypeOK, HandlerType
<1>7. HandlerInv'
  BY <1>1, <1>2, <1>3, <1>4 DEF OfferInv, HandlerInv, CameBy, NofferTypeOK
<1>8. AnswerInv'
  <2>1. \A a \in answers : a.id # r.id /\ a.id \in Attempts
    BY <1>2 DEF OfferInv, AnswerInv, NofferTypeOK
  <2> QED
    BY <1>1, <1>4, <2>1 DEF OfferInv, AnswerInv, CameBy, NofferTypeOK
<1> QED
  BY <1>1, <1>6, <1>7, <1>8 DEF OfferInv, ServiceInv, PageInv

LEMMA HandlerSteps ==
  ASSUME OfferInv, NEW e \in Attempts, Issued(e) \/ NotIssued(e) \/ respond(e)
  PROVE  OfferInv'
<1>1. UNCHANGED <<alive, account, stored, serving, sub, shown, deaths, outbox, page, wire, open>>
  BY DEF Issued, NotIssued, respond, service
<1>2. handler[e].at \in {"issue", "invoice", "refuse"}
  BY DEF Issued, NotIssued, respond
<1>3. PICK step \in {"invoice", "refuse", "done"} : handler' = [handler EXCEPT ![e].at = step]
  BY DEF Issued, NotIssued, respond
<1>4. /\ handler' \in [Attempts -> HandlerType] /\ handler'[e].at = step
      /\ \A d \in Attempts : handler'[d].relay = handler[d].relay /\ (d # e => handler'[d] = handler[d])
  BY <1>3 DEF OfferInv, NofferTypeOK, HandlerType
<1>5. \A a \in answers : a.id # e /\ a.id \in Attempts
  BY <1>2 DEF OfferInv, AnswerInv, NofferTypeOK
<1>6. CASE Issued(e)
  <2>1. UNCHANGED answers /\ receipt' = [receipt EXCEPT ![e] = handler[e].relay]
    BY <1>6 DEF Issued
  <2>2. handler[e].relay \in OfferRelays \cup {Nowhere}
    BY DEF OfferInv, NofferTypeOK
  <2>3. NofferTypeOK'
    BY <1>1, <1>4, <2>1, <2>2 DEF OfferInv, NofferTypeOK, HandlerType
  <2>4. HandlerInv'
    BY <1>1, <1>2, <1>4, <2>1 DEF OfferInv, HandlerInv, CameBy, NofferTypeOK
  <2>5. AnswerInv'
    BY <1>1, <1>4, <1>5, <2>1 DEF OfferInv, AnswerInv, CameBy, NofferTypeOK
  <2> QED
    BY <1>1, <2>1, <2>3, <2>4, <2>5 DEF OfferInv, ServiceInv, PageInv
<1>7. CASE NotIssued(e)
  <2>1. UNCHANGED <<answers, receipt>> /\ handler'[e].at # "invoice"
    BY <1>4, <1>7 DEF NotIssued, OfferInv, NofferTypeOK
  <2>2. NofferTypeOK'
    BY <1>1, <1>4, <2>1 DEF OfferInv, NofferTypeOK, HandlerType
  <2>3. HandlerInv' /\ AnswerInv'
    BY <1>1, <1>2, <1>4, <1>5, <2>1 DEF OfferInv, HandlerInv, AnswerInv, CameBy
  <2> QED
    BY <1>1, <2>1, <2>2, <2>3 DEF OfferInv, ServiceInv, PageInv
<1>8. CASE respond(e)
  <2> DEFINE relay == handler[e].relay
             new == [id |-> e, relay |-> relay, body |-> IF handler[e].at = "invoice" THEN "bolt11" ELSE "error"]
  <2>1. UNCHANGED receipt /\ handler'[e].at = "done"
    BY <1>8 DEF respond, OfferInv, NofferTypeOK
  <2>2. answers' = answers \/ (relay \in OfferRelays /\ answers' = answers \cup {new})
    BY <1>8 DEF respond, respondTo, OfferInv, NofferTypeOK
  <2>3. /\ new.id = e /\ new.relay = relay /\ (new.body = "bolt11" => handler[e].at = "invoice")
        /\ (relay \in OfferRelays => new \in [id : Attempts, relay : OfferRelays, body : {"bolt11", "error"}])
    OBVIOUS
  <2> HIDE DEF new
  <2>4. NofferTypeOK'
    BY <1>1, <1>4, <2>1, <2>2, <2>3 DEF OfferInv, NofferTypeOK, HandlerType
  <2>5. HandlerInv'
    BY <1>1, <1>2, <1>4, <2>1 DEF OfferInv, HandlerInv, CameBy
  <2>6. CameBy(e, relay) /\ (handler[e].at = "invoice" => receipt[e] = relay)
    BY <1>2 DEF OfferInv, HandlerInv
  <2>7. AnswerInv'
    BY <1>1, <1>4, <1>5, <2>1, <2>2, <2>3, <2>6 DEF OfferInv, AnswerInv, CameBy
  <2>8. PageInv'
    BY <1>1, <2>2 DEF OfferInv, PageInv
  <2> QED
    BY <1>1, <2>4, <2>5, <2>7, <2>8 DEF OfferInv, ServiceInv
<1> QED
  BY <1>6, <1>7, <1>8

LEMMA DeathKeeps == OfferInv /\ ServiceDies => OfferInv'
<1> SUFFICES ASSUME OfferInv, ServiceDies PROVE OfferInv'
  OBVIOUS
<1>1. /\ UNCHANGED <<account, stored, serving, outbox, shown, page, wire, receipt, answers, open>>
      /\ alive' = FALSE /\ sub' = Nowhere
  BY DEF ServiceDies
<1>2. deaths' \in 0..MaxDeaths
  BY NofferAssumption DEF ServiceDies, OfferInv, NofferTypeOK
<1>3. /\ handler' \in [Attempts -> HandlerType]
      /\ \A e \in Attempts : IF handler[e].at = "none" THEN handler'[e].at = "none"
                              ELSE handler'[e].at = "done" /\ handler'[e].relay = handler[e].relay
  BY DEF ServiceDies, Resting, OfferInv, NofferTypeOK, HandlerType
<1>4. NofferTypeOK'
  BY <1>1, <1>2, <1>3 DEF OfferInv, NofferTypeOK, HandlerType
<1>5. HandlerInv'
  BY <1>1, <1>3 DEF OfferInv, HandlerInv, CameBy
<1>6. AnswerInv'
  BY <1>1, <1>3 DEF OfferInv, AnswerInv, CameBy, NofferTypeOK
<1> QED
  BY <1>1, <1>4, <1>5, <1>6 DEF OfferInv, ServiceInv, PageInv

\* Steps of a page that touch nothing else.
LEMMA PageMoves ==
  ASSUME OfferInv, NEW p \in Pages, NEW q \in PageType,
         page' = [page EXCEPT ![p] = q],
         q.at = "bolt11" /\ q.code.key # Elsewhere =>
           \E a \in answers : a.id = <<p, q.n>> /\ a.relay = q.code.relay /\ a.body = "bolt11",
         UNCHANGED <<service, outbox, wire, handler, receipt, answers, open>>
  PROVE  OfferInv'
<1>1. UNCHANGED <<alive, account, stored, serving, sub, shown, deaths>>
  BY DEF service
<1>2. page' \in [Pages -> PageType]
  BY DEF OfferInv, NofferTypeOK, PageType
<1>3. NofferTypeOK'
  BY <1>1, <1>2 DEF OfferInv, NofferTypeOK, PageType
<1>4. PageInv'
  BY DEF OfferInv, PageInv, NofferTypeOK
<1> QED
  BY <1>1, <1>3, <1>4 DEF OfferInv, ServiceInv, HandlerInv, AnswerInv, CameBy

LEMMA PageSteps ==
  ASSUME OfferInv, NEW p \in Pages,
         \/ \E code \in shown \cup Foreign \cup {NoCode} : requestNofferInvoice(p, code)
         \/ Hears(p) \/ TimesOut(p)
         \/ \E body \in {"bolt11", "error"} : OtherAnswers(p, body)
         \/ \E latest \in shown \cup Foreign : OtherMoved(p, latest)
  PROVE  OfferInv'
<1>0. page[p] \in PageType /\ shown \subseteq Codes
  BY DEF OfferInv, NofferTypeOK, PageType
<1>1. CASE \E code \in shown \cup Foreign \cup {NoCode} : requestNofferInvoice(p, code)
  <2>1. PICK code \in shown \cup Foreign \cup {NoCode} : requestNofferInvoice(p, code)
    BY <1>1
  <2> DEFINE q == [at |-> IF code = NoCode THEN "decode" ELSE "waiting", n |-> 1, code |-> code]
  <2>2. q \in PageType /\ q.at # "bolt11"
    BY <1>0 DEF PageType
  <2>3. page' = [page EXCEPT ![p] = q] /\ UNCHANGED <<service, outbox, wire, handler, receipt, answers, open>>
    BY <2>1 DEF requestNofferInvoice
  <2> HIDE DEF q
  <2> QED
    BY <2>2, <2>3, PageMoves
<1>2. ASSUME NEW body \in {"bolt11", "error", "timeout"}, goto(p, body),
             body = "bolt11" /\ page[p].code.key # Elsewhere =>
               \E a \in answers : a.id = <<p, page[p].n>> /\ a.relay = page[p].code.relay /\ a.body = "bolt11"
      PROVE  OfferInv'
  <2> DEFINE q == [page[p] EXCEPT !.at = body]
  <2>1. q \in PageType /\ q.at = body /\ q.n = page[p].n /\ q.code = page[p].code
    BY <1>0 DEF PageType
  <2>2. page' = [page EXCEPT ![p] = q] /\ UNCHANGED <<service, outbox, wire, handler, receipt, answers, open>>
    BY <1>2 DEF goto, OfferInv, NofferTypeOK
  <2> HIDE DEF q
  <2> QED
    BY <1>2, <2>1, <2>2, PageMoves
<1>3. CASE Hears(p)
  <2>1. PICK a \in answers : a.id = <<p, page[p].n>> /\ a.relay = page[p].code.relay /\ goto(p, a.body)
    BY <1>3 DEF Hears
  <2>2. a.body \in {"bolt11", "error"}
    BY DEF OfferInv, NofferTypeOK
  <2> QED
    BY <1>2, <2>1, <2>2
<1>4. CASE TimesOut(p)
  BY <1>2, <1>4 DEF TimesOut
<1>5. CASE \E body \in {"bolt11", "error"} : OtherAnswers(p, body)
  BY <1>2, <1>5 DEF OtherAnswers
<1>6. CASE \E latest \in shown \cup Foreign : OtherMoved(p, latest)
  <2>1. PICK latest \in shown \cup Foreign : OtherMoved(p, latest)
    BY <1>6
  <2>2. PICK q \in PageType : page' = [page EXCEPT ![p] = q] /\ q.at # "bolt11"
    <3>1. [at |-> "waiting", n |-> 2, code |-> latest] \in PageType
      BY <1>0 DEF PageType
    <3>2. [page[p] EXCEPT !.at = "error"] \in PageType /\ [page[p] EXCEPT !.at = "error"].at = "error"
      BY <1>0 DEF PageType
    <3> QED
      BY <2>1, <3>1, <3>2 DEF OtherMoved
  <2> QED
    BY <2>1, <2>2, PageMoves DEF OtherMoved
<1> QED
  BY <1>1, <1>3, <1>4, <1>5, <1>6

LEMMA PublishKeeps ==
  ASSUME OfferInv, NEW p \in Pages, NEW content \in Contents, Publishes(p, content)
  PROVE  OfferInv'
<1> DEFINE new == [id |-> <<p, page[p].n>>, code |-> page[p].code, content |-> content]
<1>1. UNCHANGED <<alive, account, stored, serving, sub, shown, deaths, outbox, page, handler, receipt, answers, open>>
      /\ wire' = wire \cup {new}
  BY DEF Publishes, service
<1>2. new \in [id : Attempts, code : Codes, content : Contents]
  <2>1. page[p].code \in Codes
    BY DEF Publishes, OfferInv, NofferTypeOK, Foreign, NoCode
  <2> QED
    BY <2>1 DEF OfferInv, NofferTypeOK, Attempts
<1> HIDE DEF new
<1>3. NofferTypeOK'
  BY <1>1, <1>2 DEF OfferInv, NofferTypeOK
<1>4. ServiceInv' /\ HandlerInv'
  BY <1>1 DEF OfferInv, ServiceInv, HandlerInv, CameBy
<1>5. AnswerInv' /\ PageInv'
  BY <1>1 DEF OfferInv, AnswerInv, PageInv, CameBy
<1> QED
  BY <1>3, <1>4, <1>5 DEF OfferInv

LEMMA DriftKeeps ==
  ASSUME OfferInv, \E r \in OfferRelays : OutboxDrifts(r) \/ RelayFlips(r)
  PROVE  OfferInv'
<1>1. UNCHANGED <<alive, account, stored, serving, sub, shown, deaths, page, wire, handler, receipt, answers>>
  BY DEF OutboxDrifts, RelayFlips, service
<1>2. outbox' \in OfferRelays /\ open' \subseteq OfferRelays
  BY DEF OutboxDrifts, RelayFlips, OfferInv, NofferTypeOK
<1>3. NofferTypeOK'
  BY <1>1, <1>2 DEF OfferInv, NofferTypeOK
<1> QED
  BY <1>1, <1>3 DEF OfferInv, ServiceInv, HandlerInv, AnswerInv, PageInv, CameBy

\* The offer service and its payers keep their invariant through regenerations,
\* drifting outboxes, lost relays and restarts (clink/offers.ts, clink/send.ts).
THEOREM OfferInvariance == NofferSpec => []OfferInv
<1>1. NofferInit => OfferInv
  <2> SUFFICES ASSUME NofferInit PROVE OfferInv
    OBVIOUS
  <2>1. page \in [Pages -> PageType]
    BY DEF NofferInit, PageType
  <2>2. handler \in [Attempts -> HandlerType]
    BY DEF NofferInit, HandlerType, Resting
  <2>3. deaths \in 0..MaxDeaths
    BY NofferAssumption DEF NofferInit
  <2>4. NofferTypeOK
    BY <2>1, <2>2, <2>3 DEF NofferInit, NofferTypeOK, PageType, HandlerType
  <2> QED
    BY <2>4 DEF NofferInit, OfferInv, ServiceInv, HandlerInv, AnswerInv, PageInv, Resting
<1>2. OfferInv /\ [NofferNext]_offerVars => OfferInv'
  <2> SUFFICES ASSUME OfferInv, [NofferNext]_offerVars PROVE OfferInv'
    OBVIOUS
  <2>1. CASE UNCHANGED offerVars
    <3>1. NofferTypeOK'
      BY <2>1 DEF offerVars, OfferInv, NofferTypeOK
    <3>2. ServiceInv' /\ HandlerInv'
      BY <2>1 DEF offerVars, OfferInv, ServiceInv, HandlerInv, CameBy
    <3>3. AnswerInv' /\ PageInv'
      BY <2>1 DEF offerVars, OfferInv, AnswerInv, PageInv, CameBy
    <3> QED
      BY <3>1, <3>2, <3>3 DEF OfferInv
  <2> QED
    BY <2>1, ServeKeeps, RequestTaken, HandlerSteps, DeathKeeps, PageSteps, PublishKeeps, DriftKeeps DEF NofferNext
<1> QED
  BY <1>1, <1>2, PTL DEF NofferSpec

\* What is shown is what is served, answers go where their payers listen, and an
\* invoice in a payer's hand has its receipt row, for any number of payers, codes
\* and restarts (clink/offers.ts).
THEOREM OffersStayKept == NofferSpec => []OffersAreKept
<1>1. OfferInv => OffersAreKept
  <2> SUFFICES ASSUME OfferInv PROVE OffersAreKept
    OBVIOUS
  <2>1. \A p \in Pages : <<p, page[p].n>> \in Attempts
    BY DEF OfferInv, NofferTypeOK, Attempts
  <2> QED
    BY <2>1 DEF OfferInv, ServiceInv, AnswerInv, PageInv, CameBy, OffersAreKept
<1> QED
  BY <1>1, OfferInvariance, PTL

-----------------------------------------------------------------------------
(* The watcher of on-chain deposits. A pass works on a list and a table it  *)
(* read earlier; what makes that harmless is that a row of boarding_seen    *)
(* never goes away and that a rotation's parent had one before the          *)
(* rotation was there to be listed.                                         *)

\* The passes that have read the table.
Reading == {p \in Passes : at[p] \in {"arrive", "leave"}}

\* A rotation on the chain spent an outpoint that the table knows.
RotationsKnown ==
  \A r \in Rotations : coin[r] # "none" => from[r] \in Outpoints /\ seen[from[r]] # "none"

\* What a pass was given was on the chain, and what a reading pass read of the
\* parents of its rotations.
ListsReal ==
  /\ \A p \in Passes : \A u \in list[p] : coin[u] # "none"
  /\ \A p \in Reading : \A r \in list[p] \cap Rotations : snap[p][from[r]] # "none"

\* The work left to a pass agrees with what it read.
TodoFits ==
  /\ \A p \in Passes : at[p] = "arrive" => \A u \in todo[p] : u \in list[p] /\ snap[p][u] = "none"
  /\ \A p \in Passes : at[p] = "leave" => \A u \in todo[p] : snap[p][u] \in {"deposit", "sweep", "baseline"}

\* A row of boarding_seen never goes away, and before the baseline there is none.
SeenStays ==
  /\ \A p \in Reading : \A u \in Outpoints : snap[p][u] # "none" => seen[u] # "none"
  /\ ~init => Reading = {} /\ \A u \in Outpoints : seen[u] = "none" /\ onboard[u] = "none"

\* An outpoint of the baseline is announced by nobody.
BaselineSilent ==
  \A u \in Outpoints :
     seen[u] = "baseline" \/ (\E p \in Reading : snap[p][u] = "baseline")
       => onboard[u] = "none" /\ \A q \in Reading : snap[q][u] # "none"

SweepsRotate ==
  \A u \in Outpoints : seen[u] = "sweep" \/ (\E p \in Reading : snap[p][u] = "sweep") => u \in Rotations

RowsRight ==
  /\ \A u \in Rotations \ blind : onboard[u] = "none"
  /\ \A u \in Outpoints : onboard[u] = "settled" => coin[u] = "spent"
  /\ \A u \in Outpoints : seen[u] = "deposit" => onboard[u] # "none"
  /\ \A u \in Deposits : onboard[u] = "pending" => seen[u] = "deposit"

BoardingInv ==
  /\ BoardingTypeOK /\ RotationsKnown /\ ListsReal /\ TodoFits /\ SeenStays
  /\ BaselineSilent /\ SweepsRotate /\ RowsRight
LEMMA BoardingArrives ==
  ASSUME BoardingInv, NEW u \in Outpoints, Arrives(u)
  PROVE  BoardingInv'
<1> USE BoardingAssumption DEF BoardingInv, BoardingTypeOK, Outpoints, Kinds, Passes, chainVars, tableVars, passVars, Arrives
<1>1. BoardingTypeOK'
  OBVIOUS
<1>2. RotationsKnown'
  BY DEF RotationsKnown
<1>3. ListsReal'
  BY DEF ListsReal, Reading
<1>4. TodoFits'
  BY DEF TodoFits, Reading
<1>5. SeenStays'
  BY DEF SeenStays, Reading
<1>6. BaselineSilent'
  BY DEF BaselineSilent, Reading
<1>7. SweepsRotate'
  BY DEF SweepsRotate, Reading
<1>8. RowsRight'
  BY DEF RowsRight
<1> QED  BY <1>1, <1>2, <1>3, <1>4, <1>5, <1>6, <1>7, <1>8

LEMMA BoardingConverted ==
  ASSUME BoardingInv, NEW u \in Outpoints, Converted(u)
  PROVE  BoardingInv'
<1> USE BoardingAssumption DEF BoardingInv, BoardingTypeOK, Outpoints, Kinds, Passes, chainVars, tableVars, passVars, Converted
<1>1. BoardingTypeOK'
  OBVIOUS
<1>2. RotationsKnown'
  BY DEF RotationsKnown
<1>3. ListsReal'
  BY DEF ListsReal, Reading
<1>4. TodoFits'
  BY DEF TodoFits, Reading
<1>5. SeenStays'
  BY DEF SeenStays, Reading
<1>6. BaselineSilent'
  BY DEF BaselineSilent, Reading
<1>7. SweepsRotate'
  BY DEF SweepsRotate, Reading
<1>8. RowsRight'
  BY DEF RowsRight
<1> QED  BY <1>1, <1>2, <1>3, <1>4, <1>5, <1>6, <1>7, <1>8

LEMMA BoardingRotated ==
  ASSUME BoardingInv, NEW u \in Outpoints, NEW r \in Rotations, Rotated(u, r)
  PROVE  BoardingInv'
<1> USE BoardingAssumption DEF BoardingInv, BoardingTypeOK, Outpoints, Kinds, Passes, chainVars, tableVars, passVars, Rotated
<1>1. BoardingTypeOK'
  OBVIOUS
<1>2. RotationsKnown'
  BY DEF RotationsKnown
<1>3. ListsReal'
  BY DEF ListsReal, Reading
<1>4. TodoFits'
  BY DEF TodoFits, Reading
<1>5. SeenStays'
  BY DEF SeenStays, Reading
<1>6. BaselineSilent'
  BY DEF BaselineSilent, Reading
<1>7. SweepsRotate'
  BY DEF SweepsRotate, Reading
<1>8. RowsRight'
  BY DEF RowsRight
<1> QED  BY <1>1, <1>2, <1>3, <1>4, <1>5, <1>6, <1>7, <1>8

LEMMA BoardingPass ==
  ASSUME BoardingInv, runBoardingPass
  PROVE  BoardingInv'
<1> USE BoardingAssumption DEF BoardingInv, BoardingTypeOK, Outpoints, Kinds, Passes, chainVars, tableVars, passVars, runBoardingPass
<1>1. BoardingTypeOK'
  OBVIOUS
<1>2. RotationsKnown'
  BY DEF RotationsKnown
<1>3. ListsReal'
  BY DEF ListsReal, Reading
<1>4. TodoFits'
  BY DEF TodoFits, Reading
<1>5. SeenStays'
  BY DEF SeenStays, Reading
<1>6. BaselineSilent'
  BY DEF BaselineSilent, Reading
<1>7. SweepsRotate'
  BY DEF SweepsRotate, Reading
<1>8. RowsRight'
  BY DEF RowsRight
<1> QED  BY <1>1, <1>2, <1>3, <1>4, <1>5, <1>6, <1>7, <1>8

LEMMA BoardingBaseline ==
  ASSUME BoardingInv, NEW p \in Passes, Baseline(p)
  PROVE  BoardingInv'
<1> USE BoardingAssumption DEF BoardingInv, BoardingTypeOK, Outpoints, Kinds, Passes, chainVars, tableVars, passVars, Baseline, returns, Unseen
<1>1. BoardingTypeOK'
  OBVIOUS
<1>2. RotationsKnown'
  BY DEF RotationsKnown
<1>3. ListsReal'
  BY DEF ListsReal, Reading
<1>4. TodoFits'
  BY DEF TodoFits, Reading
<1>5. SeenStays'
  BY DEF SeenStays, Reading
<1>6. BaselineSilent'
  BY DEF SeenStays, BaselineSilent, Reading
<1>7. SweepsRotate'
  BY DEF SweepsRotate, Reading
<1>8. RowsRight'
  BY DEF SeenStays, RowsRight
<1> QED  BY <1>1, <1>2, <1>3, <1>4, <1>5, <1>6, <1>7, <1>8

LEMMA BoardingLook ==
  ASSUME BoardingInv, NEW p \in Passes, Look(p)
  PROVE  BoardingInv'
<1> USE BoardingAssumption DEF BoardingInv, BoardingTypeOK, Outpoints, Kinds, Passes, chainVars, tableVars, passVars, Look
<1>1. BoardingTypeOK'
  OBVIOUS
<1>2. RotationsKnown'
  BY DEF RotationsKnown
<1>3. ListsReal'
  BY DEF RotationsKnown, ListsReal, Reading
<1>4. TodoFits'
  BY DEF TodoFits, Reading
<1>5. SeenStays'
  BY DEF SeenStays, Reading
<1>6. BaselineSilent'
  BY DEF SeenStays, BaselineSilent, Reading
<1>7. SweepsRotate'
  BY DEF SweepsRotate, Reading
<1>8. RowsRight'
  BY DEF RowsRight
<1> QED  BY <1>1, <1>2, <1>3, <1>4, <1>5, <1>6, <1>7, <1>8

LEMMA BoardingArrival ==
  ASSUME BoardingInv, NEW p \in Passes, NEW u \in Outpoints, Arrival(p, u)
  PROVE  BoardingInv'
<1> USE BoardingAssumption DEF BoardingInv, BoardingTypeOK, Outpoints, Kinds, Passes, chainVars, tableVars, passVars, Arrival, isSweep, recordOnboardPending
<1>1. BoardingTypeOK'
  OBVIOUS
<1>2. RotationsKnown'
  BY DEF RotationsKnown
<1>3. ListsReal'
  BY DEF ListsReal, Reading
<1>4. TodoFits'
  BY DEF TodoFits, Reading
<1>5. SeenStays'
  BY DEF SeenStays, Reading
<1>6. BaselineSilent'
  BY DEF TodoFits, BaselineSilent, Reading
<1>7. SweepsRotate'
  BY DEF SweepsRotate, Reading
<1>8. RowsRight'
  BY DEF ListsReal, TodoFits, RowsRight, Reading
<1> QED  BY <1>1, <1>2, <1>3, <1>4, <1>5, <1>6, <1>7, <1>8

LEMMA BoardingToDepartures ==
  ASSUME BoardingInv, NEW p \in Passes, ToDepartures(p)
  PROVE  BoardingInv'
<1> USE BoardingAssumption DEF BoardingInv, BoardingTypeOK, Outpoints, Kinds, Passes, chainVars, tableVars, passVars, ToDepartures
<1>1. BoardingTypeOK'
  OBVIOUS
<1>2. RotationsKnown'
  BY DEF RotationsKnown
<1>3. ListsReal'
  BY DEF ListsReal, Reading
<1>4. TodoFits'
  BY DEF TodoFits, Reading
<1>5. SeenStays'
  BY DEF SeenStays, Reading
<1>6. BaselineSilent'
  BY DEF BaselineSilent, Reading
<1>7. SweepsRotate'
  BY DEF SweepsRotate, Reading
<1>8. RowsRight'
  BY DEF RowsRight
<1> QED  BY <1>1, <1>2, <1>3, <1>4, <1>5, <1>6, <1>7, <1>8

LEMMA BoardingDeparture ==
  ASSUME BoardingInv, NEW p \in Passes, NEW u \in Outpoints, Departure(p, u)
  PROVE  BoardingInv'
<1> USE BoardingAssumption DEF BoardingInv, BoardingTypeOK, Outpoints, Kinds, Passes, chainVars, tableVars, passVars, Departure, settleOnboard, saysSpent
<1>1. BoardingTypeOK'
  OBVIOUS
<1>2. RotationsKnown'
  BY DEF RotationsKnown
<1>3. ListsReal'
  BY DEF ListsReal, Reading
<1>4. TodoFits'
  BY DEF TodoFits, Reading
<1>5. SeenStays'
  BY DEF SeenStays, Reading
<1>6. BaselineSilent'
  BY DEF BaselineSilent, Reading
<1>7. SweepsRotate'
  BY DEF SweepsRotate, Reading
<1>8. RowsRight'
  BY DEF TodoFits, BaselineSilent, SweepsRotate, RowsRight, Reading
<1> QED  BY <1>1, <1>2, <1>3, <1>4, <1>5, <1>6, <1>7, <1>8

LEMMA BoardingNotDeparted ==
  ASSUME BoardingInv, NEW p \in Passes, NEW u \in Outpoints, NotDeparted(p, u)
  PROVE  BoardingInv'
<1> USE BoardingAssumption DEF BoardingInv, BoardingTypeOK, Outpoints, Kinds, Passes, chainVars, tableVars, passVars, NotDeparted
<1>1. BoardingTypeOK'
  OBVIOUS
<1>2. RotationsKnown'
  BY DEF RotationsKnown
<1>3. ListsReal'
  BY DEF ListsReal, Reading
<1>4. TodoFits'
  BY DEF TodoFits, Reading
<1>5. SeenStays'
  BY DEF SeenStays, Reading
<1>6. BaselineSilent'
  BY DEF BaselineSilent, Reading
<1>7. SweepsRotate'
  BY DEF SweepsRotate, Reading
<1>8. RowsRight'
  BY DEF RowsRight
<1> QED  BY <1>1, <1>2, <1>3, <1>4, <1>5, <1>6, <1>7, <1>8

LEMMA BoardingPassOver ==
  ASSUME BoardingInv, NEW p \in Passes, PassOver(p)
  PROVE  BoardingInv'
<1> USE BoardingAssumption DEF BoardingInv, BoardingTypeOK, Outpoints, Kinds, Passes, chainVars, tableVars, passVars, PassOver, returns, Unseen
<1>1. BoardingTypeOK'
  OBVIOUS
<1>2. RotationsKnown'
  BY DEF RotationsKnown
<1>3. ListsReal'
  BY DEF ListsReal, Reading
<1>4. TodoFits'
  BY DEF TodoFits, Reading
<1>5. SeenStays'
  BY DEF SeenStays, Reading
<1>6. BaselineSilent'
  BY DEF BaselineSilent, Reading
<1>7. SweepsRotate'
  BY DEF SweepsRotate, Reading
<1>8. RowsRight'
  BY DEF RowsRight
<1> QED  BY <1>1, <1>2, <1>3, <1>4, <1>5, <1>6, <1>7, <1>8

LEMMA BoardingBringUpFails ==
  ASSUME BoardingInv, BringUpFails
  PROVE  BoardingInv'
<1> USE BoardingAssumption DEF BoardingInv, BoardingTypeOK, Outpoints, Kinds, Passes, chainVars, tableVars, passVars, BringUpFails, Unseen
<1>0. Unseen \in [Outpoints -> Kinds]
  OBVIOUS
<1>1. BoardingTypeOK'
  <2>1. /\ at' \in [Passes -> {"idle", "listed", "arrive", "leave"}]
        /\ list' \in [Passes -> SUBSET Outpoints] /\ todo' \in [Passes -> SUBSET Outpoints]
    OBVIOUS
  <2>2. snap' \in [Passes -> [Outpoints -> Kinds]]
    BY <1>0
  <2> QED  BY <2>1, <2>2
<1>2. RotationsKnown'
  BY DEF RotationsKnown
<1>3. ListsReal'
  <2>1. \A p \in Passes : \A u \in list'[p] : coin'[u] # "none"
    BY DEF ListsReal
  <2>2. ASSUME NEW p \in Reading', NEW r \in list'[p] \cap Rotations
        PROVE  snap'[p][from'[r]] # "none"
    <3>1. p = "stray" /\ snap'["stray"] = snap["current"] /\ list'["stray"] = list["current"] /\ "current" \in Reading
      BY DEF Reading
    <3> QED  BY <3>1 DEF ListsReal
  <2> QED  BY <2>1, <2>2 DEF ListsReal
<1>4. TodoFits'
  BY DEF TodoFits, Reading
<1>5. SeenStays'
  BY DEF SeenStays, Reading
<1>6. BaselineSilent'
  BY DEF BaselineSilent, Reading
<1>7. SweepsRotate'
  BY DEF SweepsRotate, Reading
<1>8. RowsRight'
  BY DEF RowsRight
<1> QED  BY <1>1, <1>2, <1>3, <1>4, <1>5, <1>6, <1>7, <1>8

LEMMA BoardingDies ==
  ASSUME BoardingInv, Dies
  PROVE  BoardingInv'
<1> USE BoardingAssumption DEF BoardingInv, BoardingTypeOK, Outpoints, Kinds, Passes, chainVars, tableVars, passVars, Dies, Unseen
<1>1. BoardingTypeOK'
  OBVIOUS
<1>2. RotationsKnown'
  BY DEF RotationsKnown
<1>3. ListsReal'
  BY DEF ListsReal, Reading
<1>4. TodoFits'
  BY DEF TodoFits, Reading
<1>5. SeenStays'
  BY DEF SeenStays, Reading
<1>6. BaselineSilent'
  BY DEF BaselineSilent, Reading
<1>7. SweepsRotate'
  BY DEF SweepsRotate, Reading
<1>8. RowsRight'
  BY DEF RowsRight
<1> QED  BY <1>1, <1>2, <1>3, <1>4, <1>5, <1>6, <1>7, <1>8

LEMMA BoardingStutters ==
  ASSUME BoardingInv, UNCHANGED boardingVars
  PROVE  BoardingInv'
BY DEF boardingVars, BoardingInv, BoardingTypeOK, RotationsKnown, ListsReal, TodoFits, SeenStays,
       BaselineSilent, SweepsRotate, RowsRight, Reading

LEMMA BoardingStarts == BoardingInit => BoardingInv
<1> SUFFICES ASSUME BoardingInit PROVE BoardingInv
  OBVIOUS
<1> USE BoardingAssumption DEF BoardingInit, Outpoints, Kinds, Passes
<1>1. BoardingTypeOK
  <2>1. seen \in [Outpoints -> Kinds]
    OBVIOUS
  <2>2. snap \in [Passes -> [Outpoints -> Kinds]]
    BY <2>1
  <2>3. restarts \in 0..MaxRestarts
    OBVIOUS
  <2>4. list \in [Passes -> SUBSET Outpoints] /\ todo \in [Passes -> SUBSET Outpoints]
    OBVIOUS
  <2>5. coin \in [Outpoints -> {"none", "unspent", "spent"}]
    OBVIOUS
  <2>6. /\ onboard \in [Outpoints -> {"none", "pending", "settled"}]
        /\ at \in [Passes -> {"idle", "listed", "arrive", "leave"}]
        /\ from \in [Rotations -> Outpoints \cup {NoOutpoint}] /\ blind \subseteq Outpoints
    OBVIOUS
  <2> QED  BY <2>1, <2>2, <2>3, <2>4, <2>5, <2>6 DEF BoardingTypeOK
<1>2. Reading = {}
  BY DEF Reading
<1>3. RotationsKnown /\ ListsReal /\ TodoFits
  BY <1>2 DEF RotationsKnown, ListsReal, TodoFits
<1>4. SeenStays /\ BaselineSilent /\ SweepsRotate
  BY <1>2 DEF SeenStays, BaselineSilent, SweepsRotate
<1>5. RowsRight
  BY DEF RowsRight
<1> QED  BY <1>1, <1>3, <1>4, <1>5 DEF BoardingInv

LEMMA BoardingInductive == BoardingInv /\ [BoardingNext]_boardingVars => BoardingInv'
BY BoardingArrives, BoardingConverted, BoardingRotated, BoardingPass, BoardingBaseline, BoardingLook,
   BoardingArrival, BoardingToDepartures, BoardingDeparture, BoardingNotDeparted, BoardingPassOver,
   BoardingBringUpFails, BoardingDies, BoardingStutters DEF BoardingNext, PassStep

\* One deposit, one announcement: of the outpoints of a lineage only the deposit itself
\* has a row, unless a rotation was classified while esplora was silent.
LEMMA BoardingImplies == BoardingInv => BoardingIsTrue
<1> SUFFICES ASSUME BoardingInv PROVE BoardingIsTrue
  OBVIOUS
<1> USE BoardingAssumption DEF BoardingInv, BoardingTypeOK, Outpoints
<1>1. ASSUME NEW d \in Deposits
      PROVE  Cardinality({u \in Lineage(d) \ blind : onboard[u] # "none"}) <= 1
  <2> DEFINE Rowed == {u \in Lineage(d) \ blind : onboard[u] # "none"}
  <2>1. Rowed \subseteq {d}
    <3>1. {d} \cup Rotations \in SUBSET Outpoints
      OBVIOUS
    <3>2. Lineage(d) \subseteq {d} \cup Rotations
      BY <3>1 DEF Lineage
    <3> QED  BY <3>2 DEF RowsRight
  <2>2. IsFiniteSet({d}) /\ Cardinality({d}) = 1
    BY FS_Singleton
  <2>3. IsFiniteSet(Rowed) /\ Cardinality(Rowed) <= Cardinality({d})
    BY <2>1, <2>2, FS_Subset
  <2> QED  BY <2>2, <2>3
<1>2. \A u \in Outpoints \ (Rotations \cap blind) : onboard[u] = "pending" => seen[u] = "deposit"
  BY DEF RowsRight
<1> QED  BY <1>1, <1>2 DEF BoardingIsTrue, RowsRight

\* Every state of the watcher is typed, whatever the chain, esplora, failed bring-ups and
\* crashes do (boarding_history.ts).
THEOREM BoardingTyped == BoardingSpec => []BoardingTypeOK
<1>1. BoardingInv => BoardingTypeOK
  BY DEF BoardingInv
<1> QED  BY BoardingStarts, BoardingInductive, <1>1, PTL DEF BoardingSpec

\* For any number of deposits, rotations and restarts a deposit is announced once, a row
\* settles only when its outpoint was spent and a pending row is still watched
\* (boarding_history.ts: reconcileBoardingHistory).
THEOREM BoardingStaysTrue == BoardingSpec => []BoardingIsTrue
BY BoardingStarts, BoardingInductive, BoardingImplies, PTL DEF BoardingSpec

-----------------------------------------------------------------------------
(* The renewal of vtxos. A vtxo waits for a round that missed it, the       *)
(* silence, the interval and a round of its own; the button can make only   *)
(* one more pass fail, early on, for its next round holds the vtxo too or   *)
(* leaves it out.                                                           *)

\* The latest a vtxo that is due is taken up: a round that missed it, the silence, the interval.
TakenUpBy == DoneQuiet + Tick + Round

\* Until the next pass that the silence lets through.
UntilPass == IF quiet <= next THEN next ELSE quiet + Tick

\* A round in flight that cannot renew a vtxo began before the vtxo waited, or left it out,
\* or began before the server came back.
MissedShort ==
  \A s \in Settlers, v \in Vtxos :
     rnd[s].on /\ (rnd[s].bad \/ v \notin rnd[s].batch) => wait[v] <= rnd[s].age

\* The button or a payment took vtxos from under the running pass: what still waits has not
\* waited for long.
BeatenEarly ==
  rnd["auto"].on /\ ~(rnd["auto"].batch \subseteq Here)
    => \A v \in Vtxos : wait[v] <= rnd["auto"].age + Round

\* What waits is taken up in time, or was.
TakenUp ==
  \A v \in Vtxos : IF rnd["auto"].on THEN wait[v] <= rnd["auto"].age + TakenUpBy
                                     ELSE wait[v] + UntilPass <= TakenUpBy

RefreshInv ==
  /\ RefreshTypeOK /\ (busy <=> rnd["auto"].on)
  /\ \A v \in Vtxos : vtxo[v] # "due" \/ refusing => wait[v] = 0
  /\ MissedShort /\ BeatenEarly /\ TakenUp

\* What settle() leaves in the rounds, and that it makes nothing wait longer.
LEMMA SettleSets ==
  ASSUME RefreshTypeOK, NEW s \in Settlers, settle(s)
  PROVE  /\ rnd' \in [Settlers -> [on : BOOLEAN, batch : SUBSET Vtxos, age : 0..Round, bad : BOOLEAN]]
         /\ rnd'[s].on /\ rnd'[s].batch \subseteq Here /\ rnd'[s].age = 0 /\ rnd'[s].bad = refusing
         /\ \A t \in Settlers \ {s} : rnd'[t] = rnd[t]
         /\ wait' \in [Vtxos -> Nat] /\ \A v \in Vtxos : wait'[v] <= wait[v]
         /\ \A v \in Vtxos : v \notin rnd'[s].batch => wait'[v] = 0
<1>1. PICK b \in Batches : /\ rnd' = [rnd EXCEPT ![s] = [on |-> TRUE, batch |-> b, age |-> 0, bad |-> refusing]]
                           /\ wait' = [v \in Vtxos |-> IF v \in b THEN wait[v] ELSE 0]
  BY DEF settle
<1>2. b \subseteq Here /\ b \subseteq Vtxos
  BY DEF Batches, Here
<1> DEFINE new == [on |-> TRUE, batch |-> b, age |-> 0, bad |-> refusing]
<1>3. new \in [on : BOOLEAN, batch : SUBSET Vtxos, age : 0..Round, bad : BOOLEAN]
  BY <1>2, RefreshAssumption DEF RefreshTypeOK
<1>4. new.on /\ new.batch = b /\ new.age = 0 /\ new.bad = refusing
  OBVIOUS
<1> HIDE DEF new
<1>5. /\ rnd' \in [Settlers -> [on : BOOLEAN, batch : SUBSET Vtxos, age : 0..Round, bad : BOOLEAN]]
      /\ rnd'[s] = new /\ \A t \in Settlers \ {s} : rnd'[t] = rnd[t]
  BY <1>1, <1>3 DEF RefreshTypeOK, new
<1>6. /\ wait' \in [Vtxos -> Nat] /\ \A v \in Vtxos : wait'[v] <= wait[v]
      /\ \A v \in Vtxos : v \notin b => wait'[v] = 0
  BY <1>1 DEF RefreshTypeOK
<1> QED  BY <1>2, <1>4, <1>5, <1>6

\* The rest of the invariant after settle().
LEMMA SettleKeeps ==
  ASSUME RefreshInv, NEW s \in Settlers, settle(s), s = "auto" => quiet = 0 /\ next = 0 /\ ~rnd["auto"].on,
         UNCHANGED <<vtxo, quiet, refusing>>, s = "button" => UNCHANGED <<next, busy>>
  PROVE  /\ \A v \in Vtxos : vtxo'[v] # "due" \/ refusing' => wait'[v] = 0
         /\ MissedShort' /\ BeatenEarly' /\ TakenUp'
<1> USE RefreshAssumption DEF RefreshInv, Settlers
<1>1. /\ rnd' \in [Settlers -> [on : BOOLEAN, batch : SUBSET Vtxos, age : 0..Round, bad : BOOLEAN]]
      /\ rnd'[s].on /\ rnd'[s].batch \subseteq Here /\ rnd'[s].age = 0 /\ rnd'[s].bad = refusing
      /\ \A t \in Settlers \ {s} : rnd'[t] = rnd[t]
      /\ wait' \in [Vtxos -> Nat] /\ \A v \in Vtxos : wait'[v] <= wait[v]
      /\ \A v \in Vtxos : v \notin rnd'[s].batch => wait'[v] = 0
  BY SettleSets
<1>2. \A v \in Vtxos : wait[v] \in Nat /\ wait'[v] \in Nat /\ wait'[v] <= wait[v]
  BY <1>1 DEF RefreshTypeOK
<1>3. \A v \in Vtxos : vtxo'[v] # "due" \/ refusing' => wait'[v] = 0
  BY <1>2
<1>4. MissedShort'
  <2> SUFFICES ASSUME NEW t \in Settlers, NEW v \in Vtxos, rnd'[t].on, rnd'[t].bad \/ v \notin rnd'[t].batch
               PROVE  wait'[v] <= rnd'[t].age
    BY DEF MissedShort
  <2>1. CASE t = s
    BY <1>1, <1>3, <2>1
  <2>2. CASE t # s
    <3>1. rnd'[t] = rnd[t] /\ wait[v] <= rnd[t].age /\ rnd[t].age \in Nat
      BY <1>1, <2>2 DEF MissedShort, RefreshTypeOK
    <3> QED  BY <1>2, <3>1
  <2> QED  BY <2>1, <2>2
<1>5. BeatenEarly'
  <2>1. Here' = Here
    BY DEF Here
  <2>2. CASE s = "auto"
    BY <1>1, <2>1, <2>2 DEF BeatenEarly
  <2>3. CASE s = "button"
    <3>1. rnd'["auto"] = rnd["auto"] /\ rnd["auto"].age \in Nat
      BY <1>1, <2>3 DEF RefreshTypeOK
    <3> QED  BY <1>2, <2>1, <3>1 DEF BeatenEarly
  <2> QED  BY <2>2, <2>3
<1>6. TakenUp'
  <2>1. CASE s = "auto"
    BY <1>1, <1>2, <2>1 DEF TakenUp, UntilPass, TakenUpBy
  <2>2. CASE s = "button"
    <3>1. rnd'["auto"] = rnd["auto"] /\ rnd["auto"].age \in Nat /\ quiet \in Nat /\ next \in Nat
      BY <1>1, <2>2 DEF RefreshTypeOK
    <3> QED  BY <1>2, <2>2, <3>1 DEF TakenUp, UntilPass, TakenUpBy
  <2> QED  BY <2>1, <2>2
<1> QED  BY <1>3, <1>4, <1>5, <1>6

LEMMA RefreshPassKept ==
  ASSUME RefreshInv, runAutoRefreshPass
  PROVE  RefreshInv'
<1>1. CASE UNCHANGED <<busy, rnd, wait>>
  <2> USE RefreshAssumption DEF RefreshInv, RefreshTypeOK, Settlers, Idle, Here, runAutoRefreshPass, needsRefresh
  <2>1. RefreshTypeOK' /\ (busy' <=> rnd'["auto"].on) /\ MissedShort' /\ BeatenEarly'
    BY <1>1 DEF MissedShort, BeatenEarly
  <2>2. TakenUp'
    BY <1>1 DEF TakenUp, UntilPass, TakenUpBy
  <2> QED  BY <1>1, <2>1, <2>2
<1>2. CASE ~busy /\ quiet = 0 /\ needsRefresh /\ busy' = TRUE /\ settle("auto")
  <2>1. "auto" \in Settlers /\ next = 0 /\ next' = Tick /\ UNCHANGED <<vtxo, quiet, refusing>>
    BY DEF Settlers, runAutoRefreshPass
  <2>2. /\ rnd' \in [Settlers -> [on : BOOLEAN, batch : SUBSET Vtxos, age : 0..Round, bad : BOOLEAN]]
        /\ rnd'["auto"].on /\ wait' \in [Vtxos -> Nat]
    BY <1>2, <2>1, SettleSets DEF RefreshInv
  <2>3. RefreshTypeOK' /\ (busy' <=> rnd'["auto"].on)
    BY <1>2, <2>1, <2>2, RefreshAssumption DEF RefreshInv, RefreshTypeOK
  <2>4. /\ \A v \in Vtxos : vtxo'[v] # "due" \/ refusing' => wait'[v] = 0
        /\ MissedShort' /\ BeatenEarly' /\ TakenUp'
    BY <1>2, <2>1, SettleKeeps DEF RefreshInv
  <2> QED  BY <2>3, <2>4 DEF RefreshInv
<1> QED  BY <1>1, <1>2 DEF runAutoRefreshPass

LEMMA RefreshPressKept ==
  ASSUME RefreshInv, PressRefresh
  PROVE  RefreshInv'
<1>1. "button" \in Settlers /\ settle("button") /\ UNCHANGED <<vtxo, busy, quiet, next, refusing>>
  BY DEF Settlers, PressRefresh
<1>2. /\ rnd' \in [Settlers -> [on : BOOLEAN, batch : SUBSET Vtxos, age : 0..Round, bad : BOOLEAN]]
      /\ rnd'["auto"] = rnd["auto"] /\ wait' \in [Vtxos -> Nat]
  BY <1>1, SettleSets DEF RefreshInv, Settlers
<1>3. RefreshTypeOK' /\ (busy' <=> rnd'["auto"].on)
  BY <1>1, <1>2 DEF RefreshInv, RefreshTypeOK
<1>4. /\ \A v \in Vtxos : vtxo'[v] # "due" \/ refusing' => wait'[v] = 0
      /\ MissedShort' /\ BeatenEarly' /\ TakenUp'
  BY <1>1, SettleKeeps
<1> QED  BY <1>3, <1>4 DEF RefreshInv

LEMMA RefreshAutoKept ==
  ASSUME RefreshInv, autoRefreshPass
  PROVE  RefreshInv'
<1> USE RefreshAssumption DEF RefreshInv, RefreshTypeOK, Settlers, Idle, Here, autoRefreshPass, Commits, folded, passOver
<1>1. RefreshTypeOK'
  <2>1. /\ vtxo' \in [Vtxos -> {"absent", "early", "due"}] /\ wait' \in [Vtxos -> Nat]
    <3>1. CASE folded("auto")
      BY <3>1
    <3>2. CASE UNCHANGED <<vtxo, wait>>
      BY <3>2
    <3> QED  BY <3>1, <3>2
  <2>0. busy' \in BOOLEAN /\ quiet' \in 0..DoneQuiet
    <3>1. passOver("refreshed") \/ passOver("failed")
      OBVIOUS
    <3>2. FailQuiet \in 0..DoneQuiet /\ DoneQuiet \in 0..DoneQuiet
      OBVIOUS
    <3> QED  BY <3>1, <3>2
  <2>2. Idle \in [on : BOOLEAN, batch : SUBSET Vtxos, age : 0..Round, bad : BOOLEAN]
    OBVIOUS
  <2>3. rnd' \in [Settlers -> [on : BOOLEAN, batch : SUBSET Vtxos, age : 0..Round, bad : BOOLEAN]]
    BY <2>2
  <2> QED  BY <2>0, <2>1, <2>3
<1>2. (busy <=> rnd["auto"].on)'
  OBVIOUS
<1>3. (\A x \in Vtxos : vtxo[x] # "due" \/ refusing => wait[x] = 0)'
  OBVIOUS
<1>4. MissedShort'
  BY DEF MissedShort
<1>5. BeatenEarly'
  BY DEF BeatenEarly
<1>6. TakenUp'
  BY DEF TakenUp, UntilPass, TakenUpBy, MissedShort, BeatenEarly
<1> QED  BY <1>1, <1>2, <1>3, <1>4, <1>5, <1>6

LEMMA RefreshButtonKept ==
  ASSUME RefreshInv, ButtonDone
  PROVE  RefreshInv'
<1> USE RefreshAssumption DEF RefreshInv, RefreshTypeOK, Settlers, Idle, Here, ButtonDone, Commits, folded
<1>1. RefreshTypeOK'
  OBVIOUS
<1>2. (busy <=> rnd["auto"].on)'
  OBVIOUS
<1>3. (\A x \in Vtxos : vtxo[x] # "due" \/ refusing => wait[x] = 0)'
  OBVIOUS
<1>4. MissedShort'
  BY DEF MissedShort
<1>5. BeatenEarly'
  BY DEF BeatenEarly, MissedShort
<1>6. TakenUp'
  BY DEF TakenUp, UntilPass, TakenUpBy
<1> QED  BY <1>1, <1>2, <1>3, <1>4, <1>5, <1>6

LEMMA RefreshReceivesKept ==
  ASSUME RefreshInv, NEW v \in Vtxos, Receives(v)
  PROVE  RefreshInv'
<1> USE RefreshAssumption DEF RefreshInv, RefreshTypeOK, Settlers, Idle, Here, Receives
<1>1. RefreshTypeOK'
  OBVIOUS
<1>2. (busy <=> rnd["auto"].on)'
  OBVIOUS
<1>3. (\A x \in Vtxos : vtxo[x] # "due" \/ refusing => wait[x] = 0)'
  OBVIOUS
<1>4. MissedShort'
  BY DEF MissedShort
<1>5. BeatenEarly'
  BY DEF BeatenEarly
<1>6. TakenUp'
  BY DEF TakenUp, UntilPass, TakenUpBy
<1> QED  BY <1>1, <1>2, <1>3, <1>4, <1>5, <1>6

LEMMA RefreshDueKept ==
  ASSUME RefreshInv, NEW v \in Vtxos, FallsDue(v)
  PROVE  RefreshInv'
<1> USE RefreshAssumption DEF RefreshInv, RefreshTypeOK, Settlers, Idle, Here, FallsDue
<1>1. RefreshTypeOK'
  OBVIOUS
<1>2. (busy <=> rnd["auto"].on)'
  OBVIOUS
<1>3. (\A x \in Vtxos : vtxo[x] # "due" \/ refusing => wait[x] = 0)'
  OBVIOUS
<1>4. MissedShort'
  BY DEF MissedShort
<1>5. BeatenEarly'
  BY DEF BeatenEarly
<1>6. TakenUp'
  BY DEF TakenUp, UntilPass, TakenUpBy
<1> QED  BY <1>1, <1>2, <1>3, <1>4, <1>5, <1>6

LEMMA RefreshSpendsKept ==
  ASSUME RefreshInv, NEW v \in Vtxos, Spends(v)
  PROVE  RefreshInv'
<1> USE RefreshAssumption DEF RefreshInv, RefreshTypeOK, Settlers, Here
<1>1. RefreshTypeOK' /\ UNCHANGED <<rnd, busy, quiet, next, refusing>>
  BY DEF Spends
<1>2. /\ \A w \in Vtxos : wait'[w] \in Nat /\ wait'[w] <= wait[w]
      /\ wait'[v] = 0 /\ vtxo'[v] = "absent" /\ \A w \in Vtxos : w # v => vtxo'[w] = vtxo[w]
      /\ v \in rnd["auto"].batch => \A w \in rnd["auto"].batch : wait'[w] = 0
  BY DEF Spends
<1>3. (\A x \in Vtxos : vtxo[x] # "due" \/ refusing => wait[x] = 0)'
  BY <1>1, <1>2
<1>4. MissedShort'
  BY <1>1, <1>2 DEF MissedShort
<1>5. BeatenEarly'
  <2> SUFFICES ASSUME rnd["auto"].on, ~(rnd["auto"].batch \subseteq Here'), NEW w \in Vtxos
               PROVE  wait'[w] <= rnd["auto"].age + Round
    BY <1>1 DEF BeatenEarly
  <2>1. CASE ~(rnd["auto"].batch \subseteq Here)
    BY <1>1, <1>2, <2>1 DEF BeatenEarly
  <2>2. CASE rnd["auto"].batch \subseteq Here
    <3>1. v \in rnd["auto"].batch
      BY <1>2, <2>2
    <3>2. w \notin rnd["auto"].batch => wait[w] <= rnd["auto"].age
      BY DEF MissedShort
    <3> QED  BY <1>2, <3>1, <3>2
  <2> QED  BY <2>1, <2>2
<1>6. TakenUp'
  BY <1>1, <1>2 DEF TakenUp, UntilPass, TakenUpBy
<1> QED  BY <1>1, <1>3, <1>4, <1>5, <1>6

LEMMA RefreshFlipsKept ==
  ASSUME RefreshInv, ServerFlips
  PROVE  RefreshInv'
<1> USE RefreshAssumption DEF RefreshInv, RefreshTypeOK, Settlers, Idle, Here, ServerFlips
<1>1. RefreshTypeOK'
  OBVIOUS
<1>2. (busy <=> rnd["auto"].on)'
  OBVIOUS
<1>3. (\A x \in Vtxos : vtxo[x] # "due" \/ refusing => wait[x] = 0)'
  OBVIOUS
<1>4. MissedShort'
  BY DEF MissedShort
<1>5. BeatenEarly'
  BY DEF BeatenEarly
<1>6. TakenUp'
  BY DEF TakenUp, UntilPass, TakenUpBy
<1> QED  BY <1>1, <1>2, <1>3, <1>4, <1>5, <1>6

LEMMA RefreshTimeKept ==
  ASSUME RefreshInv, RefreshTime
  PROVE  RefreshInv'
<1> USE RefreshAssumption DEF RefreshInv, RefreshTypeOK, Settlers, Idle, Here, RefreshTime
<1>1. RefreshTypeOK'
  OBVIOUS
<1>2. (busy <=> rnd["auto"].on)'
  OBVIOUS
<1>3. (\A x \in Vtxos : vtxo[x] # "due" \/ refusing => wait[x] = 0)'
  OBVIOUS
<1>4. MissedShort'
  BY DEF MissedShort
<1>5. BeatenEarly'
  BY DEF BeatenEarly
<1>6. TakenUp'
  BY DEF TakenUp, UntilPass, TakenUpBy
<1> QED  BY <1>1, <1>2, <1>3, <1>4, <1>5, <1>6

LEMMA RefreshStutters ==
  ASSUME RefreshInv, UNCHANGED refreshVars
  PROVE  RefreshInv'
BY DEF refreshVars, RefreshInv, RefreshTypeOK, MissedShort, BeatenEarly, TakenUp, UntilPass, Here

LEMMA RefreshStarts == RefreshInit => RefreshInv
<1> SUFFICES ASSUME RefreshInit PROVE RefreshInv
  OBVIOUS
<1> USE RefreshAssumption DEF RefreshInit, Settlers, Idle
<1>1. RefreshTypeOK
  <2>1. Idle \in [on : BOOLEAN, batch : SUBSET Vtxos, age : 0..Round, bad : BOOLEAN]
    OBVIOUS
  <2>2. rnd \in [Settlers -> [on : BOOLEAN, batch : SUBSET Vtxos, age : 0..Round, bad : BOOLEAN]]
    BY <2>1
  <2>3. wait \in [Vtxos -> Nat]
    OBVIOUS
  <2>4. quiet \in 0..DoneQuiet /\ next \in 0..Tick
    OBVIOUS
  <2> QED  BY <2>2, <2>3, <2>4 DEF RefreshTypeOK
<1>2. MissedShort /\ BeatenEarly /\ TakenUp
  BY DEF MissedShort, BeatenEarly, TakenUp, UntilPass, TakenUpBy
<1> QED  BY <1>1, <1>2 DEF RefreshInv

LEMMA RefreshInductive == RefreshInv /\ [RefreshNext]_refreshVars => RefreshInv'
BY RefreshPassKept, RefreshPressKept, RefreshAutoKept, RefreshButtonKept, RefreshReceivesKept,
   RefreshDueKept, RefreshSpendsKept, RefreshFlipsKept, RefreshTimeKept, RefreshStutters DEF RefreshNext

LEMMA RefreshImplies == RefreshInv => RenewedInTime
<1> SUFFICES ASSUME RefreshInv, NEW v \in Vtxos PROVE wait[v] <= LongestWait
  BY DEF RenewedInTime
<1> USE RefreshAssumption DEF RefreshInv, RefreshTypeOK, Settlers, TakenUp, TakenUpBy, LongestWait
<1>1. CASE rnd["auto"].on
  BY <1>1
<1>2. CASE ~rnd["auto"].on
  BY <1>2 DEF UntilPass
<1> QED  BY <1>1, <1>2

\* Every state of the renewal timers is typed: the silences and the interval stay within their
\* bounds and a round within its longest (index.ts: runAutoRefreshPass).
THEOREM RefreshTyped == RefreshSpec => []RefreshTypeOK
<1>1. RefreshInv => RefreshTypeOK
  BY DEF RefreshInv
<1> QED  BY RefreshStarts, RefreshInductive, <1>1, PTL DEF RefreshSpec

\* For any finite set of vtxos, any number of them to a settlement and any interval, silences
\* and length of a round, with a failed pass and a round shorter than the silence after a
\* renewal, a vtxo that is due is renewed within one silence, one interval and two rounds since
\* a round last left it out or a payment broke the round that held it (index.ts:
\* runAutoRefreshPass).
THEOREM RefreshIsInTime == RefreshSpec => []RenewedInTime
BY RefreshStarts, RefreshInductive, RefreshImplies, PTL DEF RefreshSpec

-----------------------------------------------------------------------------
(* Amounts. A sum counts sats, so a larger set of coins has no smaller sum, *)
(* and no part but the whole adds up to the total.                          *)

\* A set of numbers with a member has a least one.
LEMMA LeastNumber ==
  ASSUME NEW S \in SUBSET Nat, S # {}
  PROVE  \E m \in S : \A n \in S : m <= n
<1> DEFINE R == {ss \in Nat \X Nat : ss[1] < ss[2]}
<1>1. IsWellFoundedOn(R, Nat)
  BY NatLessThanWellFounded, Zenon DEF OpToRel
<1>2. \A x, y \in Nat : (<<y, x>> \in R) <=> y < x
  OBVIOUS
<1> HIDE DEF R
<1>3. PICK m \in S : \A n \in S : ~(<<n, m>> \in R)
  BY <1>1, WFMin
<1>4. \A n \in S : m <= n
  <2> SUFFICES ASSUME NEW n \in S PROVE m <= n
    OBVIOUS
  <2>1. n \in Nat /\ m \in Nat
    OBVIOUS
  <2>2. ~(n < m)
    BY <1>2, <1>3, <2>1
  <2> QED
    BY <2>1, <2>2
<1> QED
  BY <1>4

\* The sats of some coins.
Sats(pool, some) == UNION {{c} \X (1..pool[c].value) : c \in some}

\* A coin has as many sats as its value says.
LEMMA SatsOfOne ==
  ASSUME NEW c, NEW n \in Nat
  PROVE  IsFiniteSet({c} \X (1..n)) /\ Cardinality({c} \X (1..n)) = n
<1>1. IsFiniteSet({c}) /\ Cardinality({c}) = 1
  BY FS_Singleton
<1>2. IsFiniteSet(1..n) /\ Cardinality(1..n) = n
  BY FS_Interval
<1>3. /\ IsFiniteSet({c} \X (1..n))
      /\ Cardinality({c} \X (1..n)) = Cardinality({c}) * Cardinality(1..n)
  BY <1>1, <1>2, FS_Product
<1> QED
  BY <1>1, <1>2, <1>3

\* Finitely many coins have finitely many sats.
LEMMA SatsFinite ==
  ASSUME NEW pool, NEW some, IsFiniteSet(some), \A c \in some : pool[c].value \in Nat
  PROVE  IsFiniteSet(Sats(pool, some))
<1> DEFINE f == [c \in some |-> {c} \X (1..pool[c].value)]
           T == {{c} \X (1..pool[c].value) : c \in some}
<1>1. f \in Surjection(some, T)
  BY DEF Surjection
<1>2. IsFiniteSet(T)
  <2> HIDE DEF f, T
  <2> QED
    BY <1>1, FS_Surjection
<1>3. \A t \in T : IsFiniteSet(t)
  <2> SUFFICES ASSUME NEW c \in some PROVE IsFiniteSet({c} \X (1..pool[c].value))
    OBVIOUS
  <2> QED
    BY SatsOfOne
<1>4. IsFiniteSet(UNION T)
  <2> HIDE DEF T
  <2> QED
    BY <1>2, <1>3, FS_UNION
<1> QED
  BY <1>4 DEF Sats

\* What a part of a pool is worth is a number.
LEMMA PartOfPool ==
  ASSUME NEW pool, IsPool(pool), NEW some \in SUBSET DOMAIN pool
  PROVE  /\ IsFiniteSet(some) /\ IsFiniteSet(Sats(pool, some))
         /\ Part(pool, some) = Cardinality(Sats(pool, some)) /\ Part(pool, some) \in Nat
<1>1. IsFiniteSet(some)
  BY FS_Subset DEF IsPool
<1>2. IsFiniteSet(Sats(pool, some))
  BY <1>1, SatsFinite DEF IsPool
<1>3. Part(pool, some) = Cardinality(Sats(pool, some))
  BY DEF Part, Sats
<1> QED
  BY <1>1, <1>2, <1>3, FS_CardinalityType

\* More coins are worth no less.
LEMMA PartMonotone ==
  ASSUME NEW pool, IsPool(pool), NEW more \in SUBSET DOMAIN pool, NEW some \in SUBSET more
  PROVE  Part(pool, some) <= Part(pool, more)
<1>1. Sats(pool, some) \in SUBSET Sats(pool, more)
  BY DEF Sats
<1>2. some \in SUBSET DOMAIN pool
  OBVIOUS
<1> QED
  BY <1>1, <1>2, PartOfPool, FS_Subset

\* One coin is worth its value, none nothing.
LEMMA PartOfOne ==
  ASSUME NEW pool, IsPool(pool), NEW c \in DOMAIN pool
  PROVE  Part(pool, {c}) = pool[c].value
<1>1. Sats(pool, {c}) = {c} \X (1..pool[c].value)
  BY DEF Sats
<1>2. pool[c].value \in Nat /\ {c} \in SUBSET DOMAIN pool
  BY DEF IsPool
<1>3. Part(pool, {c}) = Cardinality(Sats(pool, {c}))
  BY <1>2, PartOfPool
<1> QED
  BY <1>1, <1>2, <1>3, SatsOfOne

LEMMA PartOfNone ==
  ASSUME NEW pool
  PROVE  Part(pool, {}) = 0
<1>1. UNION {{c} \X (1..pool[c].value) : c \in {}} = {}
  OBVIOUS
<1> QED
  BY <1>1, FS_EmptySet DEF Part

\* Only the whole pool adds up to the total: no coin is worth nothing.
LEMMA PartIsAll ==
  ASSUME NEW pool, IsPool(pool), NEW some \in SUBSET DOMAIN pool, Part(pool, some) = Total(pool)
  PROVE  some = DOMAIN pool
<1> DEFINE S == Sats(pool, some)
           T == Sats(pool, DOMAIN pool)
<1>1. S \in SUBSET T
  BY DEF Sats
<1>2. IsFiniteSet(T) /\ Cardinality(S) = Cardinality(T)
  <2>1. DOMAIN pool \in SUBSET DOMAIN pool
    OBVIOUS
  <2>2. IsFiniteSet(T) /\ Total(pool) = Cardinality(T)
    BY <2>1, PartOfPool DEF Total
  <2>3. Part(pool, some) = Cardinality(S)
    BY PartOfPool
  <2> QED
    BY <2>2, <2>3
<1>3. S = T
  <2> HIDE DEF S, T
  <2> QED
    BY <1>1, <1>2, FS_Subset
<1>4. ASSUME NEW c \in DOMAIN pool PROVE c \in some
  <2>1. <<c, 1>> \in T
    <3>1. 1 \in 1..pool[c].value
      BY DEF IsPool
    <3>2. <<c, 1>> \in {c} \X (1..pool[c].value)
      BY <3>1
    <3> QED
      BY <3>2 DEF Sats
  <2>2. PICK d \in some : <<c, 1>> \in {d} \X (1..pool[d].value)
    BY <1>3, <2>1 DEF Sats
  <2> QED
    BY <2>2
<1> QED
  BY <1>4

-----------------------------------------------------------------------------
(* Selection. The order of the coins is total, so the prefixes of the       *)
(* sorted coins are a chain, with a shortest one among those that cover the *)
(* target and the whole set as the longest.                                 *)

\* Subsets of S, named by the members of I, each of them comparable with each.
IsChain(up, I, S) ==
  /\ IsFiniteSet(S) /\ I # {} /\ \A i \in I : up[i] \in SUBSET S
  /\ \A i, j \in I : up[i] \subseteq up[j] \/ up[j] \subseteq up[i]

\* A chain has a least and a greatest set.
LEMMA ChainEnds ==
  ASSUME NEW S, NEW I, NEW up, IsChain(up, I, S)
  PROVE  /\ \E i \in I : \A j \in I : up[i] \subseteq up[j]
         /\ \E i \in I : \A j \in I : up[j] \subseteq up[i]
<1> DEFINE sizes == {Cardinality(up[x]) : x \in I}
           rests == {Cardinality(S) - Cardinality(up[x]) : x \in I}
<1>1. \A x \in I : IsFiniteSet(up[x]) /\ Cardinality(up[x]) \in Nat /\ Cardinality(up[x]) <= Cardinality(S)
  BY FS_Subset, FS_CardinalityType DEF IsChain
<1>2. Cardinality(S) \in Nat
  BY FS_CardinalityType DEF IsChain
<1>3. ASSUME NEW x \in I, NEW y \in I, Cardinality(up[x]) <= Cardinality(up[y])
      PROVE  up[x] \subseteq up[y]
  <2>1. CASE up[y] \subseteq up[x]
    <3>1. Cardinality(up[y]) <= Cardinality(up[x]) /\ (Cardinality(up[y]) = Cardinality(up[x]) => up[y] = up[x])
      BY <1>1, <2>1, FS_Subset
    <3> QED
      BY <1>1, <1>3, <3>1
  <2> QED
    BY <2>1 DEF IsChain
<1>4. \E x \in I : \A y \in I : Cardinality(up[x]) <= Cardinality(up[y])
  <2>1. sizes \in SUBSET Nat /\ sizes # {}
    BY <1>1 DEF IsChain
  <2>2. PICK m \in sizes : \A n \in sizes : m <= n
    <3> HIDE DEF sizes
    <3> QED
      BY <2>1, LeastNumber
  <2> QED
    BY <2>2
<1>5. \E x \in I : \A y \in I : Cardinality(up[y]) <= Cardinality(up[x])
  <2>1. rests \in SUBSET Nat /\ rests # {}
    BY <1>1, <1>2 DEF IsChain
  <2>2. PICK m \in rests : \A n \in rests : m <= n
    <3> HIDE DEF rests
    <3> QED
      BY <2>1, LeastNumber
  <2>3. PICK x \in I : m = Cardinality(S) - Cardinality(up[x])
    OBVIOUS
  <2>4. ASSUME NEW y \in I PROVE Cardinality(up[y]) <= Cardinality(up[x])
    <3>1. Cardinality(S) - Cardinality(up[x]) <= Cardinality(S) - Cardinality(up[y])
      BY <2>2, <2>3
    <3> QED
      BY <1>1, <1>2, <3>1
  <2> QED
    BY <2>4
<1> QED
  BY <1>3, <1>4, <1>5

\* A pool whose coins have exit costs.
IsCoins(pool) == IsPool(pool) /\ \A c \in DOMAIN pool : pool[c].cost \in Nat

\* byChainThenSize breaks every tie, and is transitive.
LEMMA CoinOrder ==
  ASSUME NEW pool, IsCoins(pool)
  PROVE  /\ \A c, d \in DOMAIN pool : c = d \/ byChainThenSize(pool, c, d) \/ byChainThenSize(pool, d, c)
         /\ \A c, d, e \in DOMAIN pool :
               byChainThenSize(pool, c, d) /\ byChainThenSize(pool, d, e) => byChainThenSize(pool, c, e)
<1>1. \A c \in DOMAIN pool : c \in Int /\ pool[c].cost \in Int /\ -pool[c].value \in Int
  BY DEF IsCoins, IsPool
<1>2. ASSUME NEW c \in DOMAIN pool, NEW d \in DOMAIN pool
      PROVE  c = d \/ byChainThenSize(pool, c, d) \/ byChainThenSize(pool, d, c)
  BY <1>1 DEF byChainThenSize, Before
<1>3. ASSUME NEW c \in DOMAIN pool, NEW d \in DOMAIN pool, NEW e \in DOMAIN pool,
             byChainThenSize(pool, c, d), byChainThenSize(pool, d, e)
      PROVE  byChainThenSize(pool, c, e)
  BY <1>1, <1>3 DEF byChainThenSize, Before
<1> QED
  BY <1>2, <1>3

\* The prefixes of the sorted coins are a chain.
LEMMA Prefixes ==
  ASSUME NEW pool, IsCoins(pool), NEW some \in SUBSET DOMAIN pool
  PROVE  /\ \A c \in some : c \in upTo(pool, some, c) /\ upTo(pool, some, c) \subseteq some
         /\ \A c, d \in some : \/ upTo(pool, some, c) \subseteq upTo(pool, some, d)
                               \/ upTo(pool, some, d) \subseteq upTo(pool, some, c)
<1>1. ASSUME NEW c \in some, NEW d \in some, byChainThenSize(pool, c, d)
      PROVE  upTo(pool, some, c) \subseteq upTo(pool, some, d)
  BY <1>1, CoinOrder DEF upTo
<1>2. ASSUME NEW c \in some, NEW d \in some
      PROVE  c = d \/ byChainThenSize(pool, c, d) \/ byChainThenSize(pool, d, c)
  BY CoinOrder
<1>3. \A c \in some : c \in upTo(pool, some, c) /\ upTo(pool, some, c) \subseteq some
  BY DEF upTo
<1> QED
  BY <1>1, <1>2, <1>3

\* What the accumulation returns covers the target; it returns nothing only if not even
\* all the coins do.
LEMMA Accumulated ==
  ASSUME NEW pool, IsCoins(pool), NEW some \in SUBSET DOMAIN pool, NEW target \in Nat \ {0}, NEW dust \in Nat
  PROVE  LET taken == accumulate(pool, some, target, dust)
         IN  /\ taken \subseteq some
             /\ taken # {} => covers(Part(pool, taken), target, dust)
             /\ taken = {} => ~covers(Part(pool, some), target, dust)
<1> DEFINE taken == accumulate(pool, some, target, dust)
           up == [c \in some |-> upTo(pool, some, c)]
           enough == {c \in some : covers(Part(pool, up[c]), target, dust)}
           first == CHOOSE c \in enough : \A d \in enough : up[c] \subseteq up[d]
<1> SUFFICES /\ taken \subseteq some
             /\ taken # {} => covers(Part(pool, taken), target, dust)
             /\ taken = {} => ~covers(Part(pool, some), target, dust)
  OBVIOUS
<1>0. taken = IF enough = {} THEN {} ELSE upTo(pool, some, first)
  <2>1. enough = {c \in some : covers(Part(pool, upTo(pool, some, c)), target, dust)}
    OBVIOUS
  <2>2. first = CHOOSE c \in enough : \A d \in enough : upTo(pool, some, c) \subseteq upTo(pool, some, d)
    OBVIOUS
  <2> HIDE DEF first, enough
  <2> QED
    BY <2>1, <2>2 DEF accumulate
<1>7. \A c \in some : up[c] = upTo(pool, some, c)
  OBVIOUS
<1>1. IsFiniteSet(some)
  BY PartOfPool DEF IsCoins
<1>2. /\ \A c \in some : c \in up[c] /\ up[c] \subseteq some
      /\ \A c, d \in some : up[c] \subseteq up[d] \/ up[d] \subseteq up[c]
  BY Prefixes
<1> HIDE DEF up
<1>3. ASSUME enough # {} PROVE first \in enough
  <2>1. IsChain(up, enough, some)
    BY <1>1, <1>2, <1>3 DEF IsChain
  <2>2. \E c \in enough : \A d \in enough : up[c] \subseteq up[d]
    <3> HIDE DEF enough, up
    <3> QED
      BY <2>1, ChainEnds
  <2> QED
    BY <2>2
<1>4. ASSUME enough = {} PROVE ~covers(Part(pool, some), target, dust)
  <2>1. CASE some = {}
    <3>1. Part(pool, some) = 0
      BY <2>1, PartOfNone
    <3> QED
      BY <3>1 DEF covers
  <2>2. CASE some # {}
    <3>1. IsChain(up, some, some)
      BY <1>1, <1>2, <2>2 DEF IsChain
    <3>3. PICK c \in some : \A d \in some : up[d] \subseteq up[c]
      BY <3>1, ChainEnds
    <3>4. up[c] = some
      BY <1>2, <3>3
    <3> QED
      BY <1>4, <3>4
  <2> QED
    BY <2>1, <2>2
<1>5. CASE enough = {}
  BY <1>0, <1>4, <1>5
<1>6. CASE enough # {}
  <2>1. first \in enough
    BY <1>3, <1>6
  <2> HIDE DEF first, taken
  <2>2. taken = up[first] /\ first \in taken
    BY <1>0, <1>2, <1>6, <1>7, <2>1
  <2> QED
    BY <1>2, <2>1, <2>2
<1> QED
  BY <1>5, <1>6

\* The single coin taken covers the target, and none that does loses less exit value.
LEMMA BestSingle ==
  ASSUME NEW pool, IsCoins(pool), NEW singles \in SUBSET DOMAIN pool, singles # {}
  PROVE  /\ bestSingle(pool, singles) \in singles
         /\ \A c \in singles : net(pool[bestSingle(pool, singles)]) <= net(pool[c])
<1> DEFINE key(c) == <<net(pool[c]), pool[c].value, c>>
           less(c, d) == Before(key(c), key(d))
           up == [c \in singles |-> {d \in singles : d = c \/ less(d, c)}]
<1>1. \A c \in singles : c \in Int /\ net(pool[c]) \in Int /\ pool[c].value \in Int
  BY DEF IsCoins, IsPool, net
<1>2. \A c, d \in singles : c = d \/ less(c, d) \/ less(d, c)
  BY <1>1 DEF Before
<1>3. \A c, d, e \in singles : less(c, d) /\ less(d, e) => less(c, e)
  BY <1>1 DEF Before
<1>4. \A c, d \in singles : less(c, d) => net(pool[c]) <= net(pool[d])
  BY <1>1 DEF Before
<1>5. \A c, d \in singles : less(c, d) => ~less(d, c)
  BY <1>1 DEF Before
<1>6. \A c \in singles : net(pool[c]) <= net(pool[c])
  BY <1>1
<1>7. bestSingle(pool, singles) = CHOOSE c \in singles : \A d \in singles \ {c} : less(c, d)
  BY DEF bestSingle
<1> HIDE DEF less
<1>8. \A c \in singles : up[c] = {d \in singles : d = c \/ less(d, c)}
  OBVIOUS
<1> HIDE DEF up
<1>9. \A c, d \in singles : less(c, d) => up[c] \subseteq up[d]
  BY <1>3, <1>8
<1>10. IsChain(up, singles, singles)
  <2>1. IsFiniteSet(singles)
    BY PartOfPool DEF IsCoins
  <2> QED
    BY <1>2, <1>8, <1>9, <2>1 DEF IsChain
<1>11. PICK c \in singles : \A d \in singles : up[c] \subseteq up[d]
  BY <1>10, ChainEnds
<1>12. \A d \in singles \ {c} : less(c, d)
  BY <1>8, <1>11
<1> DEFINE best == CHOOSE e \in singles : \A d \in singles \ {e} : less(e, d)
<1>13. best \in singles /\ \A d \in singles \ {best} : less(best, d)
  BY <1>12
<1> HIDE DEF best
<1>14. bestSingle(pool, singles) = best
  BY <1>7 DEF best
<1> QED
  BY <1>4, <1>6, <1>13, <1>14

\* How the selection comes to what it picks.
LEMMA Selected ==
  ASSUME NEW pool, IsCoins(pool), NEW target \in Nat \ {0}, NEW dust \in Nat
  PROVE  LET picked == selectSpendInputs(pool, target, dust)
             singles == {c \in DOMAIN pool : covers(pool[c].value, target, dust)}
             worth == {c \in DOMAIN pool : net(pool[c]) > 0}
         IN  /\ picked \subseteq DOMAIN pool
             /\ picked # {} => covers(Part(pool, picked), target, dust)
             /\ picked = {} => ~covers(Total(pool), target, dust)
             /\ singles # {} => \E c \in singles : picked = {c} /\ \A d \in singles : net(pool[c]) <= net(pool[d])
             /\ singles = {} /\ ~(picked \subseteq worth) => ~covers(Part(pool, worth), target, dust)
<1> DEFINE picked == selectSpendInputs(pool, target, dust)
           singles == {c \in DOMAIN pool : covers(pool[c].value, target, dust)}
           worth == {c \in DOMAIN pool : net(pool[c]) > 0}
           merged == accumulate(pool, worth, target, dust)
           all == accumulate(pool, DOMAIN pool, target, dust)
           best == bestSingle(pool, singles)
<1> SUFFICES
      /\ picked \subseteq DOMAIN pool
      /\ picked # {} => covers(Part(pool, picked), target, dust)
      /\ picked = {} => ~covers(Total(pool), target, dust)
      /\ singles # {} => \E c \in singles : picked = {c} /\ \A d \in singles : net(pool[c]) <= net(pool[d])
      /\ singles = {} /\ ~(picked \subseteq worth) => ~covers(Part(pool, worth), target, dust)
  OBVIOUS
<1>1. picked = IF singles # {} THEN {best} ELSE IF merged # {} THEN merged ELSE all
  BY DEF selectSpendInputs
<1>2. /\ merged \subseteq worth
      /\ merged # {} => covers(Part(pool, merged), target, dust)
      /\ merged = {} => ~covers(Part(pool, worth), target, dust)
  <2>1. worth \in SUBSET DOMAIN pool
    OBVIOUS
  <2> HIDE DEF worth
  <2> QED
    BY <2>1, Accumulated
<1>3. /\ all \subseteq DOMAIN pool
      /\ all # {} => covers(Part(pool, all), target, dust)
      /\ all = {} => ~covers(Total(pool), target, dust)
  <2>1. DOMAIN pool \in SUBSET DOMAIN pool
    OBVIOUS
  <2> QED
    BY <2>1, Accumulated DEF Total
<1>4. CASE singles # {}
  <2>1. best \in singles /\ \A d \in singles : net(pool[best]) <= net(pool[d])
    <3>1. singles \in SUBSET DOMAIN pool
      OBVIOUS
    <3> HIDE DEF singles
    <3> QED
      BY <1>4, <3>1, BestSingle
  <2> HIDE DEF best, picked
  <2>2. picked = {best}
    BY <1>1, <1>4
  <2>3. Part(pool, {best}) = pool[best].value
    BY <2>1, PartOfOne DEF IsCoins
  <2> QED
    BY <1>4, <2>1, <2>2, <2>3
<1>5. CASE singles = {}
  <2>1. worth \subseteq DOMAIN pool
    OBVIOUS
  <2> HIDE DEF best, merged, all, picked, worth, singles
  <2> QED
    BY <2>1, <1>1, <1>2, <1>3, <1>5
<1> QED
  BY <1>4, <1>5

\* selectSpendInputs, for every pool, target and dust: the change is none or at least dust,
\* a refusal means that the whole pool does not cover the target, a coin that covers it is
\* taken alone at the least loss, and a written-off coin is merged only where it must be
\* (coin_select.ts).
THEOREM SelectionRight ==
  ASSUME NEW pool, IsPool(pool), \A c \in DOMAIN pool : pool[c].cost \in Nat,
         NEW target \in Nat \ {0}, NEW dust \in Nat
  PROVE  SelectionIsRight(pool, target, dust)
<1> DEFINE picked == selectSpendInputs(pool, target, dust)
           some == {c \in DOMAIN pool : covers(pool[c].value, target, dust)}
           left == {c \in DOMAIN pool : net(pool[c]) > 0}
           singles == {c \in DOMAIN pool : pool[c].value = target \/ pool[c].value >= target + dust}
           worth == {c \in DOMAIN pool : pool[c].value > pool[c].cost}
<1>1. IsCoins(pool)
  BY DEF IsCoins
<1>2. some = singles
  BY DEF covers
<1>3. left = worth
  <2>1. \A c \in DOMAIN pool : net(pool[c]) > 0 <=> pool[c].value > pool[c].cost
    BY DEF net, IsPool
  <2> QED
    BY <2>1
<1>4. /\ picked \subseteq DOMAIN pool
      /\ picked # {} => covers(Part(pool, picked), target, dust)
      /\ picked = {} => ~covers(Total(pool), target, dust)
      /\ singles # {} => \E c \in singles : picked = {c} /\ \A d \in singles : net(pool[c]) <= net(pool[d])
      /\ singles = {} /\ ~(picked \subseteq worth) => ~covers(Part(pool, worth), target, dust)
  BY <1>1, <1>2, <1>3, Selected
<1> HIDE DEF picked, some, left
<1>5. Part(pool, picked) \in Nat /\ Part(pool, worth) \in Nat /\ Total(pool) \in Nat
  <2>1. picked \in SUBSET DOMAIN pool /\ worth \in SUBSET DOMAIN pool /\ DOMAIN pool \in SUBSET DOMAIN pool
    BY <1>4
  <2> HIDE DEF worth
  <2> QED
    BY <2>1, PartOfPool DEF Total
<1> HIDE DEF singles, worth
<1>6. picked # {} => Part(pool, picked) - target = 0 \/ Part(pool, picked) - target >= dust
  BY <1>4, <1>5 DEF covers
<1>7. picked = {} => Total(pool) < target + dust /\ Total(pool) # target
  BY <1>4, <1>5 DEF covers
<1>8. \A c \in singles : Cardinality(picked) = 1 /\ \A d \in picked : net(pool[d]) <= net(pool[c])
  <2> SUFFICES ASSUME NEW c \in singles
               PROVE  Cardinality(picked) = 1 /\ \A d \in picked : net(pool[d]) <= net(pool[c])
    OBVIOUS
  <2>1. PICK b \in singles : picked = {b} /\ \A d \in singles : net(pool[b]) <= net(pool[d])
    BY <1>4
  <2>2. Cardinality({b}) = 1
    BY FS_Singleton
  <2> QED
    BY <2>1, <2>2
<1>9. Cardinality(picked) > 1 /\ ~(picked \subseteq worth) =>
         Part(pool, worth) < target + dust /\ Part(pool, worth) # target
  <2>1. CASE singles = {}
    BY <1>4, <1>5, <2>1 DEF covers
  <2>2. CASE singles # {}
    BY <1>8, <2>2
  <2> QED
    BY <2>1, <2>2
<1> QED
  BY <1>6, <1>7, <1>8, <1>9 DEF SelectionIsRight, picked, singles, worth

\* fundingAmount, for every pool and slack: a payment within the slack of the balance spends
\* every coin and is never refused over its change (ln_send.ts).
THEOREM FundingRight ==
  ASSUME NEW pool, IsPool(pool), \A c \in DOMAIN pool : pool[c].cost \in Nat,
         NEW required \in Nat \ {0}, NEW dust \in Nat, NEW slack \in Nat
  PROVE  FundingIsRight(pool, required, dust, slack)
<1> DEFINE total == Total(pool)
           amount == fundingAmount(required, total, slack)
           picked == selectSpendInputs(pool, total, dust)
<1>1. total \in Nat
  <2>1. DOMAIN pool \in SUBSET DOMAIN pool
    OBVIOUS
  <2> QED
    BY <2>1, PartOfPool DEF Total
<1> HIDE DEF total
<1>2. amount # Throws => amount - required \in 0..slack /\ required <= total
  BY <1>1 DEF fundingAmount, Throws
<1>3. amount # Throws /\ total - required <= slack => amount = total
  BY <1>1 DEF fundingAmount, Throws
<1>4. ASSUME required <= total PROVE picked = DOMAIN pool
  <2>1. total \in Nat \ {0} /\ IsCoins(pool)
    BY <1>1, <1>4 DEF IsCoins
  <2>2. /\ picked \subseteq DOMAIN pool
        /\ picked # {} => covers(Part(pool, picked), total, dust)
        /\ picked = {} => ~covers(total, total, dust)
    BY <2>1, Selected DEF total
  <2> HIDE DEF picked
  <2>3. covers(Part(pool, picked), total, dust)
    BY <2>2 DEF covers
  <2>4. DOMAIN pool \in SUBSET DOMAIN pool /\ picked \in SUBSET DOMAIN pool
    BY <2>2
  <2>5. Part(pool, picked) <= total /\ Part(pool, picked) \in Nat
    BY <2>4, PartMonotone, PartOfPool DEF total, Total
  <2>6. Part(pool, picked) = total
    BY <1>1, <2>3, <2>5 DEF covers
  <2> QED
    BY <2>4, <2>6, PartIsAll DEF total
<1> QED
  BY <1>2, <1>3, <1>4 DEF FundingIsRight, total

-----------------------------------------------------------------------------
(* Fees and rounding. *)

\* lnDrainInvoiceSat, for all fees and every target: the invoice offered for emptying the
\* wallet is the largest that fits (send.ts). The walk ends at the first amount above which the total exceeds the target:
\* there is one, since the total is never below the amount.
THEOREM DrainRight ==
  ASSUME NEW fees, IsFees(fees), NEW target \in Nat, NEW off \in -1..1
  PROVE  DrainIsRight(fees, target, off)
<1> DEFINE total(x) == submarineTotal(fees, x)
           start == (100 * (target - fees.base)) \div (100 + fees.pct) + off
           ends(x) == total(x + 1) > target /\ \A y \in (start + 1)..x : total(y) <= target
           up == CHOOSE x \in start..(target + 1) : ends(x)
           down == {x \in 1..up : total(x) <= target}
           top == CHOOSE x \in down : \A y \in down : y <= x
           result == lnDrainInvoiceSat(fees, target, off)
<1>0. result = IF target < fees.base \/ start <= 0 \/ down = {} THEN 0 ELSE top
  BY DEF lnDrainInvoiceSat
<1>f. fees.pct \in Nat /\ fees.base \in Nat
  BY DEF IsFees
<1>1. ASSUME NEW x \in Nat PROVE total(x) \in Int /\ total(x) >= x
  <2>1. fees.pct * x \in Nat
    BY <1>f
  <2>2. (fees.pct * x + 99) \div 100 \in Nat
    BY <2>1
  <2> QED
    BY <1>f, <2>2 DEF submarineTotal, ceilPct
<1> HIDE DEF result, total
<1>2. CASE result = 0
  BY <1>2 DEF DrainIsRight, result
<1>3. ASSUME result # 0 PROVE total(result) <= target /\ total(result + 1) > target
  <2>1. ~(target < fees.base) /\ ~(start <= 0) /\ down # {} /\ result = top
    <3> HIDE DEF start, down, top
    <3> QED
      BY <1>0, <1>3
  <2>0. target >= fees.base
    <3>1. ~(target < fees.base)
      BY <2>1
    <3> QED
      BY <1>f, <3>1
  <2>2. start \in Nat /\ start <= target + 1
    <3> DEFINE a == 100 * (target - fees.base)
               d == 100 + fees.pct
               q == a \div d
    <3>1. a \in Nat /\ d \in Nat /\ d >= 100 /\ a <= 100 * target
      BY <1>f, <2>0
    <3>2. q \in Nat /\ d * q <= a
      <4> HIDE DEF a, d
      <4> QED
        BY <3>1
    <3>3. 100 * q <= d * q
      <4> HIDE DEF a, d, q
      <4> QED
        BY <3>1, <3>2
    <3>4. q <= target
      <4>1. d * q \in Nat
        <5> HIDE DEF a, d, q
        <5> QED
          BY <3>1, <3>2
      <4> HIDE DEF a, d, q
      <4> QED
        BY <3>1, <3>2, <3>3, <4>1
    <3>5. start = q + off
      OBVIOUS
    <3>6. ~(start <= 0)
      BY <2>1
    <3> HIDE DEF q, start
    <3> QED
      BY <3>2, <3>4, <3>5, <3>6
  <2> HIDE DEF start
  <2>3. up \in start..(target + 1) /\ ends(up)
    <3> DEFINE over == {x \in start..(target + 1) : total(x + 1) > target}
    <3>1. target + 1 \in over
      <4>1. total(target + 2) \in Int /\ total(target + 2) >= target + 2
        BY <1>1
      <4> QED
        BY <2>2, <4>1
    <3>2. over \in SUBSET Nat
      BY <2>2
    <3>3. PICK x \in over : \A y \in over : x <= y
      <4> HIDE DEF over
      <4> QED
        BY <3>1, <3>2, LeastNumber
    <3>4. ASSUME NEW y \in (start + 1)..x PROVE total(y) <= target
      <4>1. y - 1 \in start..(target + 1) /\ y \in Nat /\ y - 1 < x
        BY <2>2, <3>3
      <4>2. y - 1 \notin over
        BY <3>3, <4>1
      <4>3. ~(total((y - 1) + 1) > target)
        BY <4>1, <4>2
      <4>4. (y - 1) + 1 = y
        BY <4>1
      <4> QED
        BY <1>1, <4>1, <4>3, <4>4
    <3>5. x \in start..(target + 1) /\ ends(x)
      BY <3>3, <3>4
    <3> HIDE DEF ends
    <3> QED
      BY <3>5
  <2> HIDE DEF up
  <2>4. top \in down /\ \A y \in down : y <= top
    <3> DEFINE gaps == {up - x : x \in down}
    <3>1. up \in Nat
      BY <2>2, <2>3
    <3>2. down \in SUBSET Nat /\ \A x \in down : x <= up
      BY <3>1
    <3>3. gaps \in SUBSET Nat /\ gaps # {}
      <4>1. down # {}
        BY <2>1
      <4> HIDE DEF down
      <4>2. \A x \in down : up - x \in Nat
        BY <3>1, <3>2
      <4> QED
        BY <4>1, <4>2
    <3>4. PICK g \in gaps : \A h \in gaps : g <= h
      <4> HIDE DEF gaps
      <4> QED
        BY <3>3, LeastNumber
    <3> HIDE DEF down
    <3>5. PICK x \in down : g = up - x
      OBVIOUS
    <3>6. ASSUME NEW y \in down PROVE y <= x
      <4>1. up - x <= up - y
        BY <3>4, <3>5
      <4> QED
        BY <3>1, <3>2, <4>1
    <3> QED
      BY <3>6
  <2> HIDE DEF top
  <2>5. top \in 1..up /\ total(top) <= target /\ up \in Nat
    BY <2>2, <2>3, <2>4
  <2>6. total(top + 1) > target
    <3>1. CASE top = up
      BY <2>3, <3>1
    <3>2. CASE top # up
      <4>1. top + 1 \in 1..up /\ top + 1 \notin down /\ top + 1 \in Nat
        BY <2>4, <2>5, <3>2
      <4>2. ~(total(top + 1) <= target)
        BY <4>1
      <4> QED
        BY <1>1, <4>1, <4>2
    <3> QED
      BY <3>1, <3>2
  <2> QED
    BY <2>1, <2>5, <2>6
<1> QED
  BY <1>2, <1>3 DEF DrainIsRight, result, total

\* A larger amount has no smaller fee.
LEMMA FeeGrows ==
  ASSUME NEW fees, IsFees(fees), NEW a \in Nat, NEW b \in Nat, a <= b
  PROVE  /\ offboardFeeSat(fees, a) \in Nat /\ offboardFeeSat(fees, b) \in Nat
         /\ offboardFeeSat(fees, a) <= offboardFeeSat(fees, b)
<1>f. fees.pct \in Nat /\ fees.base \in Nat
  BY DEF IsFees
<1>1. fees.pct * a \in Nat /\ fees.pct * b \in Nat /\ fees.pct * a <= fees.pct * b
  BY <1>f
<1>2. /\ (fees.pct * a) \div 100 \in Nat /\ (fees.pct * b) \div 100 \in Nat
      /\ (fees.pct * a) \div 100 <= (fees.pct * b) \div 100
  BY <1>1
<1> QED
  BY <1>f, <1>2 DEF offboardFeeSat

\* An on-chain send, for all fees, pools and amounts: what is let through leaves no change the
\* server refuses, the amount advised instead is let through, and what is submitted is what was
\* reviewed (send.ts, web/server.ts). The candidates of the advice swing around the largest
\* amount with room for dust, below it at every other one, and the fifth is one of those.
THEOREM OffboardRight ==
  ASSUME NEW fees, IsFees(fees), NEW pool, IsPool(pool), NEW dust \in Nat \ {0}, NEW asked \in Nat \ {0}
  PROVE  OffboardIsRight(fees, pool, dust, asked)
<1> DEFINE total == roundTotalSat(pool, dust)
           fee(c) == offboardFeeSat(fees, c)
           rest(c) == total - c - fee(c)
           after(c) == total - dust - fee(c)
           step(c) == IF c > 0 THEN after(c) ELSE c
           max == offboardMaxSat(fees, total, dust)
           dusty == offboardDustChange(fees, total, dust, asked)
           seen_(isMax) == review(fees, total, dust, isMax, asked)
           sent(isMax) == submit(fees, total, dust, isMax, asked)
<1>1. total \in Nat
  <2>1. {c \in DOMAIN pool : bucketOf(pool[c], dust) # "none"} \in SUBSET DOMAIN pool
    OBVIOUS
  <2> QED
    BY <2>1, PartOfPool DEF roundTotalSat
<1>2. \A c, d \in Nat : fee(c) \in Nat /\ (c <= d => fee(c) <= fee(d))
  <2> SUFFICES ASSUME NEW c \in Nat, NEW d \in Nat PROVE fee(c) \in Nat /\ (c <= d => fee(c) <= fee(d))
    OBVIOUS
  <2>1. c <= c
    OBVIOUS
  <2> QED
    BY <2>1, FeeGrows
<1> HIDE DEF total
<1>3. max # Throws => max >= dust /\ max + fee(total) = total
  BY <1>1, <1>2 DEF offboardMaxSat, Throws
<1>4. /\ rest(asked) \in Int
      /\ dusty = IF rest(asked) <= 0 \/ rest(asked) >= dust THEN [hit |-> FALSE, advice |-> 0]
                 ELSE [hit |-> TRUE, advice |-> step(step(step(step(after(asked)))))]
  <2>1. rest(asked) \in Int
    BY <1>1, <1>2
  <2>2. dusty = IF rest(asked) <= 0 \/ rest(asked) >= dust THEN [hit |-> FALSE, advice |-> 0]
                ELSE [hit |-> TRUE, advice |-> step(step(step(step(after(asked)))))]
    BY DEF offboardDustChange
  <2> QED
    BY <2>1, <2>2
<1>5. ~dusty.hit => rest(asked) \notin 1..(dust - 1)
  <2> HIDE DEF dusty, rest, after
  <2> QED
    BY <1>4
<1>6. dusty.hit /\ dusty.advice > 0 => rest(dusty.advice) >= dust
  <2> SUFFICES ASSUME dusty.hit, dusty.advice > 0 PROVE rest(dusty.advice) >= dust
    OBVIOUS
  <2> DEFINE c1 == after(asked)
             c2 == step(c1)
             c3 == step(c2)
             c4 == step(c3)
             c5 == step(c4)
  <2>1. dusty.advice = c5 /\ rest(asked) < dust
    <3> HIDE DEF dusty, rest, after
    <3> QED
      BY <1>4
  <2>2. ASSUME NEW c \in Int, step(c) > 0 PROVE c > 0 /\ step(c) = after(c)
    BY <1>1, <1>2, <2>2
  <2>3. ASSUME NEW c \in Int, NEW d \in Int, c > 0, d > 0, c <= d PROVE after(d) <= after(c)
    BY <1>1, <1>2, <2>3
  <2>4. \A c \in Int : step(c) \in Int
    BY <1>1, <1>2
  <2>5. c1 \in Int /\ c1 < asked
    <3>1. asked \in Nat /\ fee(asked) \in Nat
      BY <1>2
    <3> HIDE DEF fee
    <3> QED
      BY <1>1, <2>1, <3>1
  <2>6. \A c \in Int : c > 0 => (after(c) >= c <=> rest(c) >= dust)
    BY <1>1, <1>2
  <2> HIDE DEF after, rest, step, c1, c2, c3, c4, c5, dusty
  <2>7. c2 \in Int /\ c3 \in Int /\ c4 \in Int /\ c5 \in Int
    BY <2>4, <2>5 DEF c2, c3, c4, c5
  <2>8. c5 > 0
    BY <2>1
  <2>9. c4 > 0 /\ c5 = after(c4)
    BY <2>2, <2>7, <2>8 DEF c5
  <2>10. c3 > 0 /\ c4 = after(c3)
    BY <2>2, <2>7, <2>9 DEF c4
  <2>11. c2 > 0 /\ c3 = after(c2)
    BY <2>2, <2>7, <2>10 DEF c3
  <2>12. c1 > 0 /\ c2 = after(c1)
    BY <2>2, <2>5, <2>11 DEF c2
  <2>13. c1 <= c2
    BY <2>3, <2>5, <2>12 DEF c1
  <2>14. c3 <= c2
    BY <2>3, <2>5, <2>7, <2>11, <2>12, <2>13
  <2>15. c3 <= c4
    BY <2>3, <2>7, <2>10, <2>11, <2>14
  <2>16. c5 <= c4
    BY <2>3, <2>7, <2>9, <2>10, <2>15
  <2>17. c5 <= after(c5)
    BY <2>3, <2>7, <2>8, <2>9, <2>16
  <2> QED
    BY <2>1, <2>6, <2>7, <2>8, <2>17
<1>7. ASSUME NEW isMax \in BOOLEAN
      PROVE  /\ seen_(isMax).to = sent(isMax).to
             /\ sent(isMax).to # Throws =>
                   /\ seen_(isMax).to + seen_(isMax).fee = seen_(isMax).out
                   /\ (IF sent(isMax).gross = 0 THEN total ELSE sent(isMax).gross) = seen_(isMax).out
  <2> HIDE DEF max, dusty, fee
  <2>1. CASE isMax
    <3>1. seen_(isMax) = [to |-> max, fee |-> fee(total), out |-> total]
      BY <2>1 DEF review, max, fee
    <3>2. sent(isMax) = [to |-> max, gross |-> 0]
      BY <2>1 DEF submit, max
    <3> QED
      BY <1>3, <3>1, <3>2
  <2>2. CASE ~isMax
    <3> DEFINE to == IF dusty.hit THEN Throws ELSE asked
    <3>1. seen_(isMax) = [to |-> to, fee |-> fee(asked), out |-> asked + fee(asked)]
      BY <2>2 DEF review, dusty, fee
    <3>2. sent(isMax) = [to |-> to, gross |-> to + fee(to)]
      BY <2>2 DEF submit, dusty, fee
    <3>3. asked \in Nat /\ fee(asked) \in Nat /\ asked + fee(asked) # 0
      BY <1>2
    <3>4. to # Throws => to = asked
      OBVIOUS
    <3> HIDE DEF to
    <3> QED
      BY <3>1, <3>2, <3>3, <3>4
  <2> QED
    BY <2>1, <2>2
<1> QED
  BY <1>3, <1>5, <1>6, <1>7 DEF OffboardIsRight, total

-----------------------------------------------------------------------------
(* The claim split and the pockets. *)

\* computeClaimSplit, for all amounts: it pays out what was funded, and folded fees are never
\* refused over the number of sub-dust outputs (atomic/split.ts).
THEOREM SplitRight ==
  ASSUME NEW value \in Nat, NEW amount \in Nat, NEW fee \in Nat, NEW dust \in Nat \ {0},
         NEW third \in BOOLEAN, NEW maxOpReturns \in Nat, maxOpReturns >= 2
  PROVE  SplitIsRight(value, amount, fee, dust, third, maxOpReturns)
<1> DEFINE change == value - amount - fee
           plan == [claimer |-> IF third THEN amount ELSE amount + fee,
                    fee     |-> IF third THEN fee ELSE 0,
                    change  |-> change]
           split == computeClaimSplit(value, amount, fee, dust, third, maxOpReturns)
<1>1. split = IF amount <= 0 \/ amount >= dust \/ fee < 0 \/ change < 0 THEN NoSplit
              ELSE IF opReturns(plan, dust) > maxOpReturns THEN NoSplit
              ELSE plan
  BY DEF computeClaimSplit
<1>2. opReturns(plan, dust) \in Nat /\ (~third => opReturns(plan, dust) <= 2)
  <2> DEFINE small == {o \in DOMAIN plan : plan[o] \in 1..(dust - 1)}
  <2>1. small \subseteq {"claimer", "fee", "change"}
    OBVIOUS
  <2>2. ~third => small \subseteq {"claimer", "change"}
    OBVIOUS
  <2> HIDE DEF small
  <2>3. IsFiniteSet({"claimer", "fee", "change"}) /\ IsFiniteSet({"claimer", "change"})
        /\ Cardinality({"claimer", "change"}) <= 2
    <3>1. IsFiniteSet({"claimer"}) /\ Cardinality({"claimer"}) = 1
      BY FS_Singleton
    <3>2. /\ IsFiniteSet({"claimer"} \union {"change"})
          /\ Cardinality({"claimer"} \union {"change"}) = 2
      BY <3>1, FS_AddElement
    <3>3. IsFiniteSet({"claimer", "change"} \union {"fee"})
      BY <3>2, FS_AddElement
    <3>4. {"claimer"} \union {"change"} = {"claimer", "change"}
      OBVIOUS
    <3>5. {"claimer", "change"} \union {"fee"} = {"claimer", "fee", "change"}
      OBVIOUS
    <3> QED
      BY <3>2, <3>3, <3>4, <3>5
  <2>4. Cardinality(small) \in Nat
    BY <2>1, <2>3, FS_Subset, FS_CardinalityType
  <2>5. ~third => Cardinality(small) <= Cardinality({"claimer", "change"})
    BY <2>2, <2>3, FS_Subset
  <2>6. Cardinality({"claimer", "change"}) \in Nat
    BY <2>3, FS_CardinalityType
  <2>7. opReturns(plan, dust) = Cardinality(small)
    BY DEF opReturns, small
  <2> HIDE DEF plan
  <2> QED
    BY <2>3, <2>4, <2>5, <2>6, <2>7
<1>3. /\ plan.claimer + plan.fee + plan.change = value
      /\ plan.claimer >= amount /\ plan.fee >= 0
      /\ plan.change = value - amount - fee
  OBVIOUS
<1> DEFINE n == opReturns(plan, dust)
<1> HIDE DEF plan, split
<1>4. split # NoSplit =>
        /\ split.claimer + split.fee + split.change = value
        /\ split.claimer >= amount /\ split.fee >= 0 /\ split.change >= 0
        /\ opReturns(split, dust) <= maxOpReturns
  <2> SUFFICES ASSUME split # NoSplit
               PROVE  /\ split.claimer + split.fee + split.change = value
                      /\ split.claimer >= amount /\ split.fee >= 0 /\ split.change >= 0
                      /\ opReturns(split, dust) <= maxOpReturns
    OBVIOUS
  <2>1. split = plan /\ ~(change < 0) /\ ~(n > maxOpReturns)
    BY <1>1
  <2> HIDE DEF n
  <2>2. n <= maxOpReturns
    BY <1>2, <2>1 DEF n
  <2>3. change >= 0
    BY <2>1
  <2> QED
    BY <1>3, <2>1, <2>2, <2>3 DEF n
<1>5. split = NoSplit /\ ~third => amount \notin 1..(dust - 1) \/ amount + fee > value
  <2> SUFFICES ASSUME split = NoSplit, ~third, amount \in 1..(dust - 1), ~(amount + fee > value) PROVE FALSE
    OBVIOUS
  <2>1. ~(amount <= 0 \/ amount >= dust \/ fee < 0 \/ change < 0)
    OBVIOUS
  <2>2. ~(n > maxOpReturns)
    BY <1>2
  <2>3. split = plan
    BY <1>1, <2>1, <2>2
  <2>4. plan.claimer >= amount /\ NoSplit.claimer = 0
    BY <1>3 DEF NoSplit
  <2> QED
    BY <2>3, <2>4
<1> QED
  BY <1>4, <1>5 DEF SplitIsRight, split

\* The largest vtxo exists: values are bounded by the total.
LEMMA Biggest ==
  ASSUME NEW pool, IsPool(pool),
         NEW values, values = {0} \union {pool[c].value : c \in DOMAIN pool}
  PROVE  \E m \in values : m \in Nat /\ \A c \in DOMAIN pool : pool[c].value <= m
<1> DEFINE bounds == {n \in Nat : \A c \in DOMAIN pool : pool[c].value <= n}
<1>1. \A c \in DOMAIN pool : pool[c].value \in Nat
  BY DEF IsPool
<1>2. Total(pool) \in bounds
  <2>1. DOMAIN pool \in SUBSET DOMAIN pool
    OBVIOUS
  <2>2. ASSUME NEW c \in DOMAIN pool PROVE pool[c].value <= Total(pool)
    <3>1. {c} \in SUBSET DOMAIN pool
      OBVIOUS
    <3> QED
      <4>1. Part(pool, {c}) <= Part(pool, DOMAIN pool)
        BY <2>1, <3>1, PartMonotone
      <4>2. Part(pool, {c}) = pool[c].value
        BY PartOfOne
      <4> QED
        BY <4>1, <4>2 DEF Total
  <2>3. Total(pool) \in Nat
    BY <2>1, PartOfPool DEF Total
  <2> QED
    BY <2>2, <2>3
<1>3. PICK m \in bounds : \A n \in bounds : m <= n
  <2>1. bounds \in SUBSET Nat
    OBVIOUS
  <2> HIDE DEF bounds
  <2> QED
    BY <1>2, <2>1, LeastNumber
<1>4. m \in values
  <2> SUFFICES ASSUME m \notin values PROVE FALSE
    OBVIOUS
  <2>1. m \in Nat /\ m # 0
    OBVIOUS
  <2>2. \A c \in DOMAIN pool : pool[c].value <= m - 1
    BY <1>1, <1>3, <2>1
  <2>3. m - 1 \in bounds
    BY <2>1, <2>2
  <2> QED
    BY <1>3, <2>1, <2>3
<1> QED
  BY <1>3, <1>4

\* hotPocketsNeeded, for every pool: as many pockets as are missing and fit, with a cold vtxo of
\* at least dust beside them (wallet_spend.ts).
THEOREM PocketsRight ==
  ASSUME NEW pool, IsPool(pool), NEW dust \in Nat \ {0}, NEW pocket \in Nat \ {0}, NEW count \in Nat
  PROVE  PocketsAreRight(pool, dust, pocket, count)
<1> DEFINE have == Cardinality({c \in DOMAIN pool : pool[c].value <= pocket})
           missing == count - have
           values == {0} \union {pool[c].value : c \in DOMAIN pool}
           biggest == CHOOSE m \in values : \A c \in DOMAIN pool : pool[c].value <= m
           spare == IF biggest < dust THEN 0 ELSE (biggest - dust) \div pocket
           n == hotPocketsNeeded(pool, dust, pocket, count)
<1>1. n = IF missing <= 0 THEN 0 ELSE IF missing < spare THEN missing ELSE spare
  BY DEF hotPocketsNeeded
<1>2. have \in Nat
  <2>1. {c \in DOMAIN pool : pool[c].value <= pocket} \in SUBSET DOMAIN pool
    OBVIOUS
  <2> QED
    BY <2>1, PartOfPool, FS_CardinalityType
<1>3. biggest \in values /\ \A c \in DOMAIN pool : pool[c].value <= biggest
  <2>1. \E m \in values : \A c \in DOMAIN pool : pool[c].value <= m
    BY Biggest
  <2> HIDE DEF values
  <2> QED
    BY <2>1
<1>4. biggest \in Nat
  <2>1. values \in SUBSET Nat
    BY DEF IsPool
  <2> HIDE DEF biggest, values
  <2> QED
    BY <1>3, <2>1
<1> HIDE DEF n, have, biggest
<1>5. SUFFICES ASSUME n > 0
               PROVE  /\ have + n <= count
                      /\ \E c \in DOMAIN pool : /\ pool[c].value - n * pocket >= dust
                                                /\ have + n < count => pool[c].value - (n + 1) * pocket < dust
  BY DEF PocketsAreRight, n, have
<1>6. /\ n = (IF missing < spare THEN missing ELSE spare) /\ missing > 0
  BY <1>1, <1>2, <1>5
<1>7. biggest >= dust
  BY <1>1, <1>4, <1>5
<1> DEFINE room == biggest - dust
           q == room \div pocket
<1>8. room \in Nat /\ spare = q
  BY <1>4, <1>7
<1>9. q \in Nat /\ q * pocket <= room /\ room < (q + 1) * pocket
  <2> HIDE DEF room
  <2>1. room \div pocket \in Nat /\ room % pocket \in 0..(pocket - 1)
        /\ room = pocket * (room \div pocket) + (room % pocket)
    BY <1>8
  <2> QED
    BY <2>1
<1> HIDE DEF q, spare, missing
<1>10. n \in Nat /\ n <= q /\ have + n <= count /\ (have + n < count => n = q)
  BY <1>2, <1>6, <1>8, <1>9 DEF missing
<1>11. n * pocket <= q * pocket
  BY <1>9, <1>10
<1>12. PICK c \in DOMAIN pool : pool[c].value = biggest
  BY <1>3, <1>7
<1>13. n * pocket \in Nat /\ q * pocket \in Nat /\ (n + 1) * pocket \in Nat
  BY <1>9, <1>10
<1>14. biggest - n * pocket >= dust
  BY <1>4, <1>9, <1>11, <1>13
<1>15. have + n < count => biggest - (n + 1) * pocket < dust
  BY <1>4, <1>9, <1>10, <1>13
<1> QED
  BY <1>10, <1>12, <1>14, <1>15

-----------------------------------------------------------------------------
\* AmountsAddUp for everything the callers may ask: the sums that the wallet signs for are
\* right for every pool, fee, target, dust limit and slack.
THEOREM AmountsRight == InputOK => AmountsAddUp
<1> SUFFICES ASSUME InputOK PROVE AmountsAddUp
  OBVIOUS
<1>a. /\ Dust \in Nat \ {0} /\ Pocket \in Nat \ {0} /\ Slack \in Nat /\ PocketCount \in Nat
      /\ Dust \in Nat /\ MaxOpReturns \in Nat /\ MaxOpReturns >= 2
  BY MathAssumption
<1>1. ASSUME input.kind = "send"
      PROVE  SelectionIsRight(input.pool, input.target, Dust) /\ FundingIsRight(input.pool, input.target, Dust, Slack)
  <2>1. IsPool(input.pool) /\ input.target \in Nat \ {0} /\ \A c \in DOMAIN input.pool : input.pool[c].cost \in Nat
    BY <1>1 DEF InputOK
  <2> QED
    BY <1>a, <2>1, SelectionRight, FundingRight
<1>2. ASSUME input.kind = "drain" PROVE DrainIsRight(input.fees, input.target, input.off)
  <2>1. IsFees(input.fees) /\ input.target \in Nat /\ input.off \in -1..1
    BY <1>2 DEF InputOK
  <2> QED
    BY <2>1, DrainRight
<1>3. ASSUME input.kind = "offboard" PROVE OffboardIsRight(input.fees, input.pool, Dust, input.asked)
  <2>1. IsFees(input.fees) /\ IsPool(input.pool) /\ input.asked \in Nat \ {0}
    BY <1>3 DEF InputOK
  <2> QED
    BY <1>a, <2>1, OffboardRight
<1>4. ASSUME input.kind = "split"
      PROVE  SplitIsRight(input.value, input.amount, input.fee, Dust, input.third, MaxOpReturns)
  <2>1. input.value \in Nat /\ input.amount \in Nat /\ input.fee \in Nat /\ input.third \in BOOLEAN
    BY <1>4 DEF InputOK
  <2> QED
    BY <1>a, <2>1, SplitRight
<1>5. ASSUME input.kind = "pockets" PROVE PocketsAreRight(input.pool, Dust, Pocket, PocketCount)
  <2>1. IsPool(input.pool)
    BY <1>5 DEF InputOK
  <2> QED
    BY <1>a, <2>1, PocketsRight
<1> QED
  BY <1>1, <1>2, <1>3, <1>4, <1>5 DEF AmountsAddUp

-----------------------------------------------------------------------------
(* The history page. A page lists the newest of the rows below the cursor,  *)
(* and its oldest row is the next cursor.                                   *)

\* Every row the links have shown is at or above the cursor, every row still to come below it.
CursorDivides ==
  reading = "on" => /\ \A i \in Rows : times[i] = 1 => ~Older(Key(i), cursor)
                    /\ \A i \in there \ moved : times[i] = 0 => Older(Key(i), cursor)
ShownAreThere ==
  /\ \A i \in 1..MaxRows : times[i] <= 1 /\ (times[i] = 1 => i \in Rows)
  /\ there \subseteq Rows
  /\ second > 0 /\ \A i \in 1..MaxRows : created[i] <= second
EndShowsAll == reading = "done" => \A i \in there \ moved : times[i] = 1

PagesInv == PagesTypeOK /\ ShownAreThere /\ CursorDivides /\ EndShowsAll

\* The order of the rows is total.
LEMMA KeyOrder ==
  ASSUME PagesTypeOK
  PROVE  /\ \A i \in 1..MaxRows : Key(i) \in Nat \X Nat
         /\ \A a, b, c \in Nat \X Nat : Older(a, b) /\ Older(b, c) => Older(a, c)
         /\ \A a, b \in Nat \X Nat : Older(a, b) => ~Older(b, a)
         /\ \A i, j \in 1..MaxRows : i = j \/ Older(Key(i), Key(j)) \/ Older(Key(j), Key(i))
<1>1. \A i \in 1..MaxRows : Key(i) \in Nat \X Nat /\ Key(i)[1] = created[i] /\ Key(i)[2] = i /\ created[i] \in Nat
  BY ViewsAssumption DEF Key, PagesTypeOK
<1>2. \A a, b, c \in Nat \X Nat : Older(a, b) /\ Older(b, c) => Older(a, c)
  <2> SUFFICES ASSUME NEW a \in Nat \X Nat, NEW b \in Nat \X Nat, NEW c \in Nat \X Nat, Older(a, b), Older(b, c)
               PROVE  Older(a, c)
    OBVIOUS
  <2>1. a[1] \in Nat /\ a[2] \in Nat /\ b[1] \in Nat /\ b[2] \in Nat /\ c[1] \in Nat /\ c[2] \in Nat
    OBVIOUS
  <2> QED
    BY <2>1 DEF Older
<1>3. \A a, b \in Nat \X Nat : Older(a, b) => ~Older(b, a)
  <2> SUFFICES ASSUME NEW a \in Nat \X Nat, NEW b \in Nat \X Nat, Older(a, b)
               PROVE  ~Older(b, a)
    OBVIOUS
  <2>1. a[1] \in Nat /\ a[2] \in Nat /\ b[1] \in Nat /\ b[2] \in Nat
    OBVIOUS
  <2> QED
    BY <2>1 DEF Older
<1>4. \A i, j \in 1..MaxRows : i = j \/ Older(Key(i), Key(j)) \/ Older(Key(j), Key(i))
  BY <1>1 DEF Older
<1> QED
  BY <1>1, <1>2, <1>3, <1>4

\* A page is all the rows it was asked for, or ends at a cursor that has the rest below it.
LEMMA PageEnds ==
  ASSUME PagesTypeOK, NEW older \in SUBSET Rows
  PROVE  LET answer == listHistoryPage(older)
         IN  /\ answer.rows \subseteq older
             /\ answer.more \in BOOLEAN
             /\ ~answer.more => answer.rows = older /\ answer.next = cursor
             /\ answer.more => \E last \in answer.rows :
                    /\ answer.next = Key(last)
                    /\ \A j \in answer.rows : ~Older(Key(j), Key(last))
                    /\ \A j \in older \ answer.rows : Older(Key(j), Key(last))
<1> DEFINE newer(i) == {j \in older : Older(Key(i), Key(j))}
           newest == {i \in older : Cardinality(newer(i)) < PageSize}
           last == CHOOSE i \in newest : \A j \in newest \ {i} : Older(Key(i), Key(j))
           more == Cardinality(older) > PageSize
<1>0. listHistoryPage(older) = [rows |-> newest, next |-> IF more THEN Key(last) ELSE cursor, more |-> more]
  BY DEF listHistoryPage
<1>1. older \in SUBSET (1..MaxRows) /\ IsFiniteSet(older) /\ PageSize \in Nat /\ PageSize > 0
  <2>1. IsFiniteSet(1..MaxRows)
    BY ViewsAssumption, FS_Interval
  <2>2. older \in SUBSET (1..MaxRows)
    BY DEF Rows
  <2>3. IsFiniteSet(older)
    BY <2>1, <2>2, FS_Subset
  <2> QED
    BY <2>2, <2>3, ViewsAssumption
<1>2. \A i \in older : /\ IsFiniteSet(newer(i)) /\ Cardinality(newer(i)) \in Nat
                       /\ newer(i) \in SUBSET (older \ {i})
  <2> SUFFICES ASSUME NEW i \in older
               PROVE  /\ IsFiniteSet(newer(i)) /\ Cardinality(newer(i)) \in Nat
                      /\ newer(i) \in SUBSET (older \ {i})
    OBVIOUS
  <2>1. ~Older(Key(i), Key(i))
    BY <1>1, KeyOrder
  <2>2. newer(i) \in SUBSET (older \ {i})
    BY <2>1
  <2>3. newer(i) \in SUBSET older
    OBVIOUS
  <2> QED
    BY <1>1, <2>2, <2>3, FS_Subset, FS_CardinalityType
<1>3. \A i, j \in older : Older(Key(i), Key(j)) => newer(j) \subseteq newer(i) /\ j \in newer(i)
  BY <1>1, KeyOrder
<1>4. \A i \in newest, j \in older \ newest : Older(Key(j), Key(i))
  <2> SUFFICES ASSUME NEW i \in newest, NEW j \in older \ newest, ~Older(Key(j), Key(i)) PROVE FALSE
    OBVIOUS
  <2>1. Older(Key(i), Key(j))
    BY <1>1, KeyOrder
  <2>2. newer(j) \in SUBSET newer(i)
    BY <1>3, <2>1
  <2>3. Cardinality(newer(j)) <= Cardinality(newer(i))
    BY <1>2, <2>2, FS_Subset
  <2>4. Cardinality(newer(i)) \in Nat /\ Cardinality(newer(j)) \in Nat /\ Cardinality(newer(i)) < PageSize
        /\ ~(Cardinality(newer(j)) < PageSize)
    BY <1>2
  <2> QED
    BY <1>1, <2>3, <2>4
<1>5. ASSUME ~more PROVE newest = older
  <2> SUFFICES ASSUME NEW i \in older PROVE Cardinality(newer(i)) < PageSize
    OBVIOUS
  <2>1. Cardinality(older \ {i}) = Cardinality(older) - 1 /\ IsFiniteSet(older \ {i})
    BY <1>1, FS_RemoveElement
  <2>2. Cardinality(newer(i)) <= Cardinality(older \ {i})
    BY <1>2, <2>1, FS_Subset
  <2>3. Cardinality(older) \in Nat /\ Cardinality(newer(i)) \in Nat
    BY <1>1, <1>2, FS_CardinalityType
  <2> QED
    BY <1>1, <1>5, <2>1, <2>2, <2>3
<1>6. ASSUME more PROVE last \in newest /\ \A j \in newest \ {last} : Older(Key(last), Key(j))
  <2> DEFINE up == [i \in older |-> newer(i)]
  <2>1. older # {}
    BY <1>1, <1>6, FS_EmptySet
  <2>2. \A i \in older, j \in older : newer(i) \subseteq newer(j) \/ newer(j) \subseteq newer(i)
    BY <1>1, <1>3, KeyOrder
  <2>3. IsChain(up, older, older)
    BY <1>1, <1>2, <2>1, <2>2 DEF IsChain
  <2>4. PICK top \in older : \A j \in older : up[top] \subseteq up[j]
    <3> HIDE DEF up
    <3> QED
      BY <2>3, ChainEnds
  <2>5. newer(top) = {}
    <3> SUFFICES ASSUME NEW j \in newer(top) PROVE FALSE
      OBVIOUS
    <3>1. j \in older /\ newer(top) \subseteq newer(j)
      BY <2>4
    <3>2. j \notin newer(j)
      BY <1>2, <3>1
    <3> QED
      BY <3>1, <3>2
  <2>6. top \in newest
    BY <1>1, <2>5, FS_EmptySet
  <2>7. IsChain(up, newest, older)
    BY <1>1, <1>2, <2>2, <2>6 DEF IsChain
  <2>8. PICK low \in newest : \A j \in newest : up[j] \subseteq up[low]
    <3> HIDE DEF up, newest
    <3> QED
      BY <2>7, ChainEnds
  <2>9. \A j \in newest \ {low} : Older(Key(low), Key(j))
    <3> SUFFICES ASSUME NEW j \in newest \ {low}, Older(Key(j), Key(low)) PROVE FALSE
      BY <1>1, KeyOrder
    <3>1. j \in older /\ low \in older /\ up[j] \subseteq up[low] /\ low \in newer(j)
      BY <1>3, <2>8
    <3>2. up[j] = newer(j) /\ up[low] = newer(low)
      BY <3>1
    <3>3. low \notin newer(low)
      BY <1>2, <3>1
    <3> HIDE DEF newer, up
    <3> QED
      BY <3>1, <3>2, <3>3
  <2> QED
    BY <2>8, <2>9
<1>7. ASSUME more PROVE \A j \in newest : ~Older(Key(j), Key(last))
  BY <1>1, <1>6, <1>7, KeyOrder
<1> HIDE DEF newest, last, more
<1>8. newest \subseteq older /\ more \in BOOLEAN
  BY DEF newest, more
<1>9. /\ listHistoryPage(older).rows = newest /\ listHistoryPage(older).more = more
      /\ more => listHistoryPage(older).next = Key(last)
      /\ ~more => listHistoryPage(older).next = cursor
  BY <1>0
<1> QED
  BY <1>4, <1>5, <1>6, <1>7, <1>8, <1>9

\* Showing a page of the rows below the cursor, none of which was shown before.
LEMMA PageShown ==
  ASSUME PagesTypeOK, NEW older \in SUBSET Rows, NEW before \in [1..MaxRows -> Nat],
         NEW old \in SUBSET Rows, UNCHANGED <<created, second>>,
         shows(listHistoryPage(older), before),
         \A i \in 1..MaxRows : before[i] <= 1 /\ (before[i] = 1 => i \in Rows \ older),
         \A i \in Rows \ older, j \in older : before[i] = 1 => Older(Key(j), Key(i)),
         \A i \in old : before[i] = 0 => i \in older
  PROVE  /\ reading' \in {"on", "done"} /\ cursor' \in Nat \X Nat /\ times' \in [1..MaxRows -> Nat]
         /\ \A i \in 1..MaxRows : times'[i] <= 1 /\ (times'[i] = 1 => i \in Rows)
         /\ reading' = "on" => /\ \A i \in Rows : times'[i] = 1 => ~Older(Key(i), cursor')
                               /\ \A i \in old : times'[i] = 0 => Older(Key(i), cursor')
         /\ reading' = "done" => \A i \in old : times'[i] = 1
<1> DEFINE answer == listHistoryPage(older)
<1>1. /\ answer.rows \subseteq older /\ answer.more \in BOOLEAN
      /\ ~answer.more => answer.rows = older /\ answer.next = cursor
      /\ answer.more => \E last \in answer.rows :
                    /\ answer.next = Key(last)
                    /\ \A j \in answer.rows : ~Older(Key(j), Key(last))
                    /\ \A j \in older \ answer.rows : Older(Key(j), Key(last))
  BY PageEnds
<1>2. /\ times' = [i \in 1..MaxRows |-> before[i] + (IF i \in answer.rows THEN 1 ELSE 0)]
      /\ cursor' = answer.next /\ reading' = IF answer.more THEN "on" ELSE "done"
  BY DEF shows
<1>3. Rows \subseteq 1..MaxRows
  BY DEF Rows
<1> HIDE DEF answer
<1>4. \A i \in 1..MaxRows : /\ i \in answer.rows => before[i] = 0 /\ times'[i] = 1 /\ i \in Rows
                            /\ i \notin answer.rows => times'[i] = before[i]
                            /\ before[i] \in Nat
  <2> SUFFICES ASSUME NEW i \in 1..MaxRows
               PROVE  /\ i \in answer.rows => before[i] = 0 /\ times'[i] = 1 /\ i \in Rows
                      /\ i \notin answer.rows => times'[i] = before[i]
                      /\ before[i] \in Nat
    OBVIOUS
  <2>1. before[i] \in Nat /\ before[i] <= 1 /\ (i \in answer.rows => before[i] # 1 /\ i \in Rows)
    BY <1>1
  <2>2. times'[i] = before[i] + (IF i \in answer.rows THEN 1 ELSE 0)
    BY <1>2
  <2> QED
    BY <2>1, <2>2
<1>5. times' \in [1..MaxRows -> Nat]
  <2>1. \A i \in 1..MaxRows : before[i] + (IF i \in answer.rows THEN 1 ELSE 0) \in Nat
    BY <1>4
  <2> QED
    BY <1>2, <2>1
<1>6. \A i \in 1..MaxRows : times'[i] <= 1 /\ (times'[i] = 1 => i \in Rows)
  BY <1>4
<1>7. cursor' \in Nat \X Nat
  <2>1. cursor \in Nat \X Nat /\ \A i \in older : Key(i) \in Nat \X Nat
    BY <1>3, KeyOrder DEF PagesTypeOK
  <2> QED
    BY <1>1, <1>2, <2>1
<1>8. ASSUME answer.more
      PROVE  /\ \A i \in Rows : times'[i] = 1 => ~Older(Key(i), cursor')
             /\ \A i \in old : times'[i] = 0 => Older(Key(i), cursor')
  <2>1. PICK last \in answer.rows : /\ cursor' = Key(last)
                                  /\ \A j \in answer.rows : ~Older(Key(j), Key(last))
                                  /\ \A k \in older \ answer.rows : Older(Key(k), Key(last))
    BY <1>1, <1>2, <1>8
  <2>2. ASSUME NEW i \in Rows, times'[i] = 1 PROVE ~Older(Key(i), Key(last))
    <3>1. CASE i \in answer.rows
      BY <2>1, <3>1
    <3>2. CASE i \notin answer.rows
      <4>1. before[i] = 1 /\ i \in Rows \ older /\ last \in older /\ last \in 1..MaxRows
        BY <1>1, <1>3, <1>4, <2>2, <3>2
      <4>2. Older(Key(last), Key(i))
        BY <4>1
      <4> QED
        BY <1>3, <4>1, <4>2, KeyOrder
    <3> QED
      BY <3>1, <3>2
  <2>3. ASSUME NEW i \in old, times'[i] = 0 PROVE Older(Key(i), Key(last))
    <3>1. i \notin answer.rows /\ before[i] = 0
      BY <1>3, <1>4, <2>3
    <3> QED
      BY <2>1, <3>1
  <2> QED
    BY <2>1, <2>2, <2>3
<1>9. ASSUME ~answer.more, NEW i \in old PROVE times'[i] = 1
  <2>1. answer.rows = older /\ i \in 1..MaxRows /\ before[i] \in {0, 1}
    BY <1>1, <1>3, <1>4, <1>9
  <2>2. CASE before[i] = 0
    BY <1>4, <2>1, <2>2
  <2>3. CASE before[i] = 1
    <3>1. i \notin older
      BY <2>1, <2>3
    <3> QED
      BY <1>4, <2>1, <2>3, <3>1
  <2> QED
    BY <2>1, <2>2, <2>3
<1>10. (reading' = "on" /\ answer.more) \/ (reading' = "done" /\ ~answer.more)
  BY <1>1, <1>2
<1>11. CASE reading' = "on" /\ answer.more
  BY <1>5, <1>6, <1>7, <1>8, <1>11
<1>12. CASE reading' = "done" /\ ~answer.more
  BY <1>5, <1>6, <1>7, <1>9, <1>12
<1> QED
  BY <1>10, <1>11, <1>12

\* A new reading starts from the newest row.
LEMMA FirstPageKeeps == PagesInv /\ FirstPage => PagesInv'
<1> SUFFICES ASSUME PagesInv, FirstPage PROVE PagesInv'
  OBVIOUS
<1> DEFINE none == [i \in 1..MaxRows |-> 0]
<1>1. UNCHANGED <<created, second>> /\ shows(listHistoryPage(Rows), none) /\ there' = Rows /\ moved' = {}
  BY DEF FirstPage
<1>2. none \in [1..MaxRows -> Nat] /\ \A i \in 1..MaxRows : none[i] = 0
  OBVIOUS
<1>3. Rows' = Rows /\ Rows \in SUBSET (1..MaxRows) /\ \A i : Key(i)' = Key(i)
  BY <1>1 DEF Rows, Key
<1> HIDE DEF none
<1>4. /\ \A i \in 1..MaxRows : none[i] <= 1 /\ (none[i] = 1 => i \in Rows \ Rows)
      /\ \A i \in Rows \ Rows, j \in Rows : none[i] = 1 => Older(Key(j), Key(i))
      /\ \A i \in Rows : none[i] = 0 => i \in Rows
  BY <1>2, <1>3
<1>5. /\ reading' \in {"on", "done"} /\ cursor' \in Nat \X Nat /\ times' \in [1..MaxRows -> Nat]
      /\ \A i \in 1..MaxRows : times'[i] <= 1 /\ (times'[i] = 1 => i \in Rows)
      /\ reading' = "on" => /\ \A i \in Rows : times'[i] = 1 => ~Older(Key(i), cursor')
                            /\ \A i \in Rows : times'[i] = 0 => Older(Key(i), cursor')
      /\ reading' = "done" => \A i \in Rows : times'[i] = 1
  BY <1>1, <1>2, <1>4, PageShown DEF PagesInv
<1>6. PagesTypeOK'
  BY <1>1, <1>3, <1>5 DEF PagesInv, PagesTypeOK
<1>7. ShownAreThere'
  BY <1>1, <1>3, <1>5 DEF PagesInv, ShownAreThere
<1>8. CursorDivides' /\ EndShowsAll'
  BY <1>1, <1>3, <1>5 DEF CursorDivides, EndShowsAll, Older
<1> QED
  BY <1>6, <1>7, <1>8 DEF PagesInv

\* The next page continues below the cursor.
LEMMA NextPageKeeps == PagesInv /\ NextPage => PagesInv'
<1> SUFFICES ASSUME PagesInv, NextPage PROVE PagesInv'
  OBVIOUS
<1> DEFINE older == {i \in Rows : Older(Key(i), cursor)}
           old == there \ moved
<1>1. /\ UNCHANGED <<created, second, there, moved>> /\ shows(listHistoryPage(older), times)
      /\ reading = "on"
  BY DEF NextPage
<1>2. times \in [1..MaxRows -> Nat] /\ older \in SUBSET Rows /\ old \in SUBSET Rows /\ cursor \in Nat \X Nat
  BY DEF PagesInv, PagesTypeOK, ShownAreThere
<1>3. Rows' = Rows /\ Rows \in SUBSET (1..MaxRows) /\ \A i : Key(i)' = Key(i)
  BY <1>1 DEF Rows, Key
<1>4. \A i \in 1..MaxRows : times[i] <= 1 /\ (times[i] = 1 => i \in Rows \ older)
  BY <1>1 DEF PagesInv, ShownAreThere, CursorDivides
<1>5. \A i \in Rows \ older, j \in older : times[i] = 1 => Older(Key(j), Key(i))
  <2> SUFFICES ASSUME NEW i \in Rows \ older, NEW j \in older PROVE Older(Key(j), Key(i))
    OBVIOUS
  <2>1. ~Older(Key(i), cursor) /\ Older(Key(j), cursor) /\ i # j
    OBVIOUS
  <2>2. Key(i) \in Nat \X Nat /\ Key(j) \in Nat \X Nat /\ (Older(Key(j), Key(i)) \/ Older(Key(i), Key(j)))
    BY <1>3, <2>1, KeyOrder DEF PagesInv
  <2> QED
    BY <1>2, <2>1, <2>2, KeyOrder DEF PagesInv
<1>6. \A i \in old : times[i] = 0 => i \in older
  BY <1>1, <1>2 DEF PagesInv, CursorDivides
<1> HIDE DEF older, old
<1>7. /\ reading' \in {"on", "done"} /\ cursor' \in Nat \X Nat /\ times' \in [1..MaxRows -> Nat]
      /\ \A i \in 1..MaxRows : times'[i] <= 1 /\ (times'[i] = 1 => i \in Rows)
      /\ reading' = "on" => /\ \A i \in Rows : times'[i] = 1 => ~Older(Key(i), cursor')
                            /\ \A i \in old : times'[i] = 0 => Older(Key(i), cursor')
      /\ reading' = "done" => \A i \in old : times'[i] = 1
  BY <1>1, <1>2, <1>4, <1>5, <1>6, PageShown DEF PagesInv
<1>8. PagesTypeOK'
  BY <1>1, <1>3, <1>7 DEF PagesInv, PagesTypeOK
<1>9. ShownAreThere'
  BY <1>1, <1>3, <1>7 DEF PagesInv, ShownAreThere
<1>10. CursorDivides' /\ EndShowsAll'
  BY <1>1, <1>3, <1>7 DEF CursorDivides, EndShowsAll, Older, old
<1> QED
  BY <1>8, <1>9, <1>10 DEF PagesInv

\* A row that becomes the newest does not come below the cursor; a new one, whatever its time,
\* was neither shown nor there.
LEMMA RecordKeeps ==
  ASSUME PagesInv, NEW i \in 1..MaxRows, Record(i) \/ Retry(i)
  PROVE  PagesInv'
<1>0. created \in [1..MaxRows -> Nat] /\ second \in Nat /\ second > 0 /\ cursor \in Nat \X Nat
  BY DEF PagesInv, PagesTypeOK, ShownAreThere
<1>1. PICK t \in 1..second :
        /\ created' = [created EXCEPT ![i] = t]
        /\ i \in Rows => created[i] <= t
        /\ UNCHANGED <<second, reading, cursor, times, there>>
        /\ moved \subseteq moved' /\ moved' \subseteq moved \cup {i}
        /\ i \notin there' \ moved'
  <2>1. CASE Record(i)
    <3>1. i \notin Rows
      BY <2>1, ViewsAssumption DEF Record
    <3>2. i \notin there
      BY <3>1 DEF PagesInv, ShownAreThere
    <3> QED
      BY <2>1, <3>1, <3>2 DEF Record
  <2>2. CASE Retry(i)
    <3>1. second \in 1..second /\ created[i] <= second
      BY <1>0 DEF PagesInv, ShownAreThere
    <3> QED
      BY <2>2, <3>1 DEF Retry
  <2> QED
    BY <2>1, <2>2
<1>2. t \in Nat /\ t > 0 /\ t <= second
  BY <1>0
<1>3. /\ \A j \in 1..MaxRows : created'[j] = IF j = i THEN t ELSE created[j]
      /\ \A j \in 1..MaxRows \ {i} : Key(j)' = Key(j)
      /\ Rows' = Rows \cup {i} /\ Key(i) = <<created[i], i>> /\ Key(i)' = <<t, i>>
  <2>1. \A j \in 1..MaxRows : created'[j] = IF j = i THEN t ELSE created[j]
    BY <1>0, <1>1
  <2> QED
    BY <1>0, <1>1, <1>2, <2>1 DEF Rows, Key
<1>4. PagesTypeOK'
  BY <1>0, <1>1, <1>2 DEF PagesInv, PagesTypeOK
<1>5. ShownAreThere'
  BY <1>0, <1>1, <1>2, <1>3 DEF PagesInv, ShownAreThere
<1>6. ASSUME reading = "on", NEW j \in Rows', times[j] = 1 PROVE ~Older(Key(j)', cursor)
  <2>1. j \in 1..MaxRows /\ j \in Rows /\ ~Older(Key(j), cursor)
    BY <1>6, <1>3 DEF PagesInv, ShownAreThere, CursorDivides, Rows
  <2>2. CASE j = i
    BY <1>0, <1>1, <1>2, <1>3, <2>1, <2>2 DEF Older
  <2> QED
    BY <1>3, <2>1, <2>2
<1>7. ASSUME reading = "on", NEW j \in there' \ moved', times[j] = 0 PROVE Older(Key(j)', cursor)
  <2>1. j # i /\ j \in there \ moved /\ j \in 1..MaxRows
    BY <1>1, <1>7 DEF PagesInv, PagesTypeOK
  <2> QED
    BY <1>3, <1>7, <2>1 DEF PagesInv, CursorDivides
<1>8. CursorDivides'
  BY <1>1, <1>6, <1>7 DEF CursorDivides, Older
<1>9. EndShowsAll'
  BY <1>1 DEF PagesInv, EndShowsAll
<1> QED
  BY <1>4, <1>5, <1>8, <1>9 DEF PagesInv

\* The invariant of the history page, for every number of rows, page size and clock.
THEOREM PagesInvariance == PagesSpec => []PagesInv
<1>1. PagesInit => PagesInv
  <2> SUFFICES ASSUME PagesInit PROVE PagesInv
    OBVIOUS
  <2>1. /\ created = [i \in 1..MaxRows |-> 0] /\ times = [i \in 1..MaxRows |-> 0]
        /\ second = 1 /\ reading = "off" /\ cursor = <<0, 0>> /\ there = {} /\ moved = {}
    BY DEF PagesInit
  <2> QED
    BY <2>1 DEF PagesInv, PagesTypeOK, ShownAreThere, CursorDivides, EndShowsAll
<1>2. PagesInv /\ [PagesNext]_pageVars => PagesInv'
  <2> SUFFICES ASSUME PagesInv, [PagesNext]_pageVars PROVE PagesInv'
    OBVIOUS
  <2>1. CASE ClockTicks
    BY <2>1 DEF ClockTicks, PagesInv, PagesTypeOK, ShownAreThere, CursorDivides, EndShowsAll, Rows, Key, Older
  <2>2. CASE UNCHANGED pageVars
    BY <2>2 DEF pageVars, PagesInv, PagesTypeOK, ShownAreThere, CursorDivides, EndShowsAll, Rows, Key, Older
  <2> QED
    BY <2>1, <2>2, FirstPageKeeps, NextPageKeeps, RecordKeeps DEF PagesNext
<1> QED
  BY <1>1, <1>2, PTL DEF PagesSpec

\* The cursor separates what was shown from what is to come.
LEMMA CursorOrders == PagesInv => PagesAreWhole
<1> SUFFICES ASSUME PagesInv PROVE PagesAreWhole
  OBVIOUS
<1>1. ASSUME reading = "on", NEW i \in there \ moved, NEW j \in there \ moved, times[i] = 1, times[j] = 0
      PROVE  Older(Key(j), Key(i))
  <2>1. i \in Rows /\ i \in 1..MaxRows /\ j \in 1..MaxRows /\ cursor \in Nat \X Nat /\ i # j
    BY <1>1 DEF PagesInv, ShownAreThere, PagesTypeOK
  <2>2. ~Older(Key(i), cursor) /\ Older(Key(j), cursor)
    BY <1>1, <2>1 DEF PagesInv, CursorDivides
  <2>3. Key(i) \in Nat \X Nat /\ Key(j) \in Nat \X Nat /\ (Older(Key(j), Key(i)) \/ Older(Key(i), Key(j)))
    BY <2>1, KeyOrder DEF PagesInv
  <2> QED
    BY <2>1, <2>2, <2>3, KeyOrder DEF PagesInv
<1> QED
  BY <1>1 DEF PagesInv, PagesAreWhole, ShownAreThere, EndShowsAll

-----------------------------------------------------------------------------
(* The exit page. Emission gives every transaction a rank of its own, above *)
(* its parents' unless it is on a circle; the depths follow the ranks, and  *)
(* the lanes the depths.                                                    *)

\* The values of a function on a finite set are finitely many, no more than its members.
LEMMA ImageOf ==
  ASSUME NEW S, IsFiniteSet(S), NEW f
  PROVE  /\ IsFiniteSet({f[x] : x \in S}) /\ Cardinality({f[x] : x \in S}) <= Cardinality(S)
         /\ Cardinality(S) \in Nat /\ Cardinality({f[x] : x \in S}) \in Nat
<1> DEFINE T == {f[x] : x \in S}
           g == [x \in S |-> f[x]]
<1>1. g \in Surjection(S, T)
  BY DEF Surjection
<1>2. IsFiniteSet(T) /\ Cardinality(T) <= Cardinality(S)
  <2> HIDE DEF g, T
  <2> QED
    BY <1>1, FS_Surjection
<1> QED
  BY <1>2, FS_CardinalityType

\* A finite set of numbers with a member has a largest.
LEMMA LargestIs ==
  ASSUME NEW S, \A n \in S : n \in Nat, IsFiniteSet(S), S # {}
  PROVE  Largest(S) \in S /\ \A x \in S : x <= Largest(S)
<1> DEFINE up == [n \in S |-> {m \in S : m <= n}]
<1>1. IsChain(up, S, S)
  <2>1. \A i \in S : up[i] \in SUBSET S
    OBVIOUS
  <2>2. ASSUME NEW i \in S, NEW j \in S PROVE up[i] \subseteq up[j] \/ up[j] \subseteq up[i]
    <3>1. CASE i <= j
      <4>1. \A m \in S : m <= i => m <= j
        BY <3>1
      <4> QED
        BY <4>1
    <3>2. CASE j <= i
      <4>1. \A m \in S : m <= j => m <= i
        BY <3>2
      <4> QED
        BY <4>1
    <3> QED
      BY <3>1, <3>2
  <2> HIDE DEF up
  <2> QED
    BY <2>1, <2>2 DEF IsChain
<1>2. PICK i \in S : \A j \in S : up[j] \subseteq up[i]
  <2> HIDE DEF up
  <2> QED
    BY <1>1, ChainEnds
<1>3. \A j \in S : j <= i
  <2> SUFFICES ASSUME NEW j \in S PROVE j <= i
    OBVIOUS
  <2>1. j \in up[j]
    OBVIOUS
  <2> QED
    BY <1>2, <2>1
<1> QED
  BY <1>3 DEF Largest

\* A set of numbers with a member has a least, which CHOOSE finds.
LEMMA LeastIs ==
  ASSUME NEW S \in SUBSET Nat, S # {}
  PROVE  LET c == CHOOSE c \in S : \A d \in S : c <= d IN c \in S /\ \A d \in S : c <= d
BY LeastNumber

\* The chain as a graph.
LEMMA Graph ==
  ASSUME LayoutTypeOK
  PROVE  /\ IsFiniteSet(Txs) /\ Cardinality(Txs) \in Nat
         /\ \A tx \in Txs : First(tx) \in Nat /\ First(tx) \in DOMAIN chain /\ chain[First(tx)].tx = tx
         /\ \A tx \in Txs : Parents(tx) \in SUBSET Txs /\ tx \notin Parents(tx) /\ IsFiniteSet(Parents(tx))
<1>1. PICK n \in Nat : DOMAIN chain = 1..n
  BY DEF LayoutTypeOK
<1>2. IsFiniteSet(Txs) /\ Cardinality(Txs) \in Nat
  <2> DEFINE f == [i \in DOMAIN chain |-> chain[i].tx]
  <2>1. IsFiniteSet(DOMAIN chain)
    BY <1>1, FS_Interval
  <2>2. Txs = {f[i] : i \in DOMAIN chain}
    BY DEF Txs
  <2> HIDE DEF f
  <2> QED
    BY <2>1, <2>2, ImageOf
<1>3. ASSUME NEW tx \in Txs
      PROVE  First(tx) \in Nat /\ First(tx) \in DOMAIN chain /\ chain[First(tx)].tx = tx
  <2> DEFINE S == {i \in DOMAIN chain : chain[i].tx = tx}
  <2>1. S \in SUBSET Nat /\ S # {}
    BY <1>1 DEF Txs
  <2>2. PICK i \in S : \A j \in S : i <= j
    <3> HIDE DEF S
    <3> QED
      BY <2>1, LeastNumber
  <2> QED
    BY <1>1, <2>2 DEF First
<1>4. ASSUME NEW tx \in Txs
      PROVE  Parents(tx) \in SUBSET Txs /\ tx \notin Parents(tx) /\ IsFiniteSet(Parents(tx))
  <2>1. Parents(tx) \in SUBSET Txs /\ tx \notin Parents(tx)
    BY <1>3 DEF Parents, parentTxids
  <2> QED
    BY <1>2, <2>1, FS_Subset
<1> QED
  BY <1>2, <1>3, <1>4

\* Nothing but the chain says which graph it is.
LEMMA SameGraph ==
  ASSUME chain' = chain
  PROVE  Txs' = Txs /\ (\A tx : Parents(tx)' = Parents(tx) /\ First(tx)' = First(tx)) /\ Acyclic' = Acyclic
<1>1. Txs' = Txs /\ \A tx : First(tx)' = First(tx)
  BY DEF Txs, First
<1>2. \A tx : Parents(tx)' = Parents(tx)
  BY <1>1 DEF Parents, parentTxids
<1> QED
  BY <1>1, <1>2 DEF Acyclic

\* A transaction with parents is one below the deepest of them.
LEMMA DeeperIs ==
  ASSUME LayoutTypeOK, NEW tx \in Txs
  PROVE  /\ deeper(tx) \in Nat
         /\ Parents(tx) = {} => deeper(tx) = 0
         /\ \A p \in Parents(tx) : depth[p] < deeper(tx)
         /\ Parents(tx) # {} => \E p \in Parents(tx) : depth[p] = deeper(tx) - 1
<1> DEFINE S == {depth[p] : p \in Parents(tx)}
<1>1. Parents(tx) \in SUBSET Txs /\ IsFiniteSet(Parents(tx)) /\ \A p \in Txs : depth[p] \in Nat
  BY Graph DEF LayoutTypeOK
<1>2. CASE Parents(tx) = {}
  BY <1>2 DEF deeper
<1>3. CASE Parents(tx) # {}
  <2>1. S \in SUBSET Nat /\ S # {} /\ IsFiniteSet(S)
    BY <1>1, <1>3, ImageOf
  <2>2. Largest(S) \in S /\ \A x \in S : x <= Largest(S)
    <3> HIDE DEF S
    <3> QED
      BY <2>1, LargestIs
  <2>3. deeper(tx) = 1 + Largest(S)
    BY <1>3 DEF deeper
  <2>4. Largest(S) \in Nat
    BY <2>1, <2>2
  <2>5. \A p \in Parents(tx) : depth[p] \in Nat /\ depth[p] <= Largest(S)
    BY <1>1, <2>2
  <2>6. PICK p \in Parents(tx) : depth[p] = Largest(S)
    BY <2>2
  <2> HIDE DEF S
  <2> QED
    BY <1>3, <2>3, <2>4, <2>5, <2>6
<1> QED
  BY <1>2, <1>3

\* Deeper transactions stand lower; those next to each other in depth, on rows next to each other.
LEMMA RowIs ==
  ASSUME LayoutTypeOK, NEW a \in Txs, NEW b \in Txs
  PROVE  /\ Row(a) \in Nat \ {0} /\ Row(b) \in Nat \ {0}
         /\ depth[a] < depth[b] => Row(a) < Row(b)
         /\ depth[a] = depth[b] - 1 => Row(a) = Row(b) - 1
         /\ depth[a] = 0 => Row(a) = 1
<1> DEFINE D(x) == {depth[u] : u \in {v \in Txs : depth[v] <= depth[x]}}
<1>1. \A x \in Txs : depth[x] \in Nat
  BY DEF LayoutTypeOK
<1>2. ASSUME NEW x \in Txs
      PROVE  IsFiniteSet(D(x)) /\ Row(x) = Cardinality(D(x)) /\ Row(x) \in Nat \ {0} /\ depth[x] \in D(x)
  <2> DEFINE V == {v \in Txs : depth[v] <= depth[x]}
  <2>1. IsFiniteSet(V)
    BY Graph, FS_Subset
  <2>2. IsFiniteSet(D(x))
    <3> HIDE DEF V
    <3>1. IsFiniteSet({depth[u] : u \in V})
      BY <2>1, ImageOf
    <3> QED
      BY <3>1 DEF V
  <2>3. Row(x) = Cardinality(D(x))
    BY DEF Row
  <2>4. depth[x] \in D(x)
    BY <1>1
  <2>5. D(x) # {}
    BY <2>4
  <2> HIDE DEF D
  <2> QED
    BY <2>2, <2>3, <2>4, <2>5, FS_CardinalityType, FS_EmptySet
<1>3. ASSUME depth[a] < depth[b] PROVE Row(a) < Row(b)
  <2>1. D(a) \in SUBSET D(b)
    <3>1. \A v \in Txs : depth[v] <= depth[a] => depth[v] <= depth[b]
      BY <1>1, <1>3
    <3> QED
      BY <3>1
  <2>2. depth[b] \notin D(a)
    BY <1>1, <1>3
  <2> HIDE DEF D
  <2>3. Cardinality(D(a)) <= Cardinality(D(b)) /\ Cardinality(D(a)) # Cardinality(D(b))
    BY <1>2, <2>1, <2>2, FS_Subset
  <2> QED
    BY <1>2, <2>3
<1>4. ASSUME depth[a] = depth[b] - 1 PROVE Row(a) = Row(b) - 1
  <2>1. \A v \in Txs : depth[v] <= depth[b] <=> (depth[v] <= depth[a] \/ depth[v] = depth[b])
    BY <1>1, <1>4
  <2>2. D(b) = D(a) \cup {depth[b]}
    BY <2>1, <1>1
  <2>3. depth[b] \notin D(a)
    BY <1>1, <1>4
  <2> HIDE DEF D
  <2>4. Cardinality(D(b)) = Cardinality(D(a)) + 1
    BY <1>2, <2>2, <2>3, FS_AddElement
  <2> QED
    BY <1>2, <2>4
<1>5. ASSUME depth[a] = 0 PROVE Row(a) = 1
  <2>1. D(a) = {0}
    <3>1. \A v \in Txs : depth[v] <= depth[a] => depth[v] = 0
      BY <1>1, <1>5
    <3> QED
      BY <1>1, <1>5, <3>1
  <2> HIDE DEF D
  <2> QED
    BY <1>2, <2>1, FS_Singleton
<1> QED
  BY <1>2, <1>3, <1>4, <1>5

\* A sum of lanes is a number, and that of one lane is the lane.
LEMMA SumIs ==
  ASSUME LayoutTypeOK, NEW some \in SUBSET Txs
  PROVE  /\ SumOfLanes(some) \in Nat
         /\ \A p \in Txs : some = {p} => SumOfLanes(some) = lane[p]
<1> DEFINE pool == [p \in Txs |-> [value |-> lane[p]]]
<1>1. \A p \in some : pool[p].value = lane[p] /\ lane[p] \in Nat
  BY DEF LayoutTypeOK
<1>2. IsFiniteSet(some)
  BY Graph, FS_Subset
<1>3. UNION {{p} \X (1..lane[p]) : p \in some} = Sats(pool, some)
  BY <1>1 DEF Sats
<1> HIDE DEF pool
<1>4. IsFiniteSet(Sats(pool, some))
  BY <1>1, <1>2, SatsFinite
<1>5. ASSUME NEW p \in Txs, some = {p} PROVE SumOfLanes(some) = lane[p]
  <2>1. UNION {{q} \X (1..lane[q]) : q \in some} = {p} \X (1..lane[p])
    BY <1>5
  <2>2. lane[p] \in Nat
    BY <1>1, <1>5
  <2> QED
    BY <2>1, <2>2, SatsOfOne DEF SumOfLanes
<1> QED
  BY <1>3, <1>4, <1>5, FS_CardinalityType DEF SumOfLanes

\* A wish is a fraction; that of an only child is its parent's lane.
LEMMA WantsIs ==
  ASSUME LayoutTypeOK, NEW tx \in Txs
  PROVE  /\ wants(tx).sum \in Nat /\ wants(tx).of \in Nat \ {0}
         /\ \A p \in Txs : Parents(tx) = {p} /\ depth[p] < depth[tx] =>
               wants(tx).sum = lane[p] /\ wants(tx).of = 1
<1> DEFINE above == {p \in Parents(tx) : depth[p] < depth[tx]}
           before == {u \in Level(tx) : rank[u] < rank[tx]}
<1>1. Parents(tx) \in SUBSET Txs /\ IsFiniteSet(Txs)
  BY Graph
<1>2. wants(tx) = IF above = {} \/ Row(tx) = 1 THEN [sum |-> Cardinality(before), of |-> 1]
                  ELSE [sum |-> SumOfLanes(above), of |-> Cardinality(above)]
  BY DEF wants
<1>3. IsFiniteSet(before) /\ Cardinality(before) \in Nat
  <2>1. before \in SUBSET Txs
    BY DEF Level
  <2> HIDE DEF before
  <2> QED
    BY <1>1, <2>1, FS_Subset, FS_CardinalityType
<1>4. above \in SUBSET Txs
  BY <1>1
<1>5. ASSUME NEW p \in Txs, Parents(tx) = {p}, depth[p] < depth[tx]
      PROVE  above = {p} /\ Row(tx) # 1
  <2>1. Row(p) < Row(tx) /\ Row(p) \in Nat \ {0} /\ Row(tx) \in Nat \ {0}
    BY <1>5, RowIs
  <2> QED
    BY <1>5, <2>1
<1> HIDE DEF above, before
<1>6. IsFiniteSet(above) /\ Cardinality(above) \in Nat /\ (above # {} => Cardinality(above) # 0)
  BY <1>1, <1>4, FS_Subset, FS_CardinalityType, FS_EmptySet
<1>7. SumOfLanes(above) \in Nat /\ \A p \in Txs : above = {p} => SumOfLanes(above) = lane[p]
  BY <1>4, SumIs
<1>8. wants(tx).sum \in Nat /\ wants(tx).of \in Nat \ {0}
  BY <1>2, <1>3, <1>6, <1>7
<1>9. ASSUME NEW p \in Txs, Parents(tx) = {p}, depth[p] < depth[tx]
      PROVE  wants(tx).sum = lane[p] /\ wants(tx).of = 1
  <2>1. above = {p} /\ Row(tx) # 1 /\ SumOfLanes(above) = lane[p]
    BY <1>5, <1>7, <1>9
  <2>2. Cardinality(above) = 1
    BY <2>1, FS_Singleton
  <2> QED
    BY <1>2, <2>1, <2>2
<1> QED
  BY <1>8, <1>9

\* There are more lanes than transactions, so one is free; an empty level gives what is asked.
LEMMA FreeLaneIs ==
  ASSUME LayoutTypeOK, NEW tx \in Txs
  PROVE  /\ freeLane(tx) \in Nat /\ freeLane(tx) \notin takenLanes(tx)
         /\ takenLanes(tx) = {} => freeLane(tx) = wants(tx).sum \div wants(tx).of
<1> DEFINE col == wants(tx).sum \div wants(tx).of
           lanes == col..(col + Cardinality(Txs))
           free == lanes \ takenLanes(tx)
<1>1. col \in Nat
  <2>1. wants(tx).sum \in Nat /\ wants(tx).of \in Nat \ {0}
    BY WantsIs
  <2> QED
    BY <2>1
<1>2. Cardinality(Txs) \in Nat /\ IsFiniteSet(Txs)
  BY Graph
<1>3. freeLane(tx) = CHOOSE c \in free : \A d \in free : c <= d
  BY DEF freeLane
<1>4. takenLanes(tx) # {} => free # {}
  <2> DEFINE V == Level(tx) \ unvisited
  <2>1. IsFiniteSet(V) /\ Cardinality(V) <= Cardinality(Txs)
    <3>1. V \in SUBSET Txs
      BY DEF Level
    <3> HIDE DEF V
    <3> QED
      BY <1>2, <3>1, FS_Subset
  <2>2. takenLanes(tx) = {lane[u] : u \in V}
    BY DEF takenLanes
  <2> HIDE DEF V, col
  <2>3. IsFiniteSet(takenLanes(tx)) /\ Cardinality(takenLanes(tx)) <= Cardinality(V) /\ Cardinality(V) \in Nat
        /\ Cardinality(takenLanes(tx)) \in Nat
    BY <2>1, <2>2, ImageOf
  <2>4. IsFiniteSet(lanes) /\ Cardinality(lanes) = Cardinality(Txs) + 1
    <3>1. col \in Int /\ col + Cardinality(Txs) \in Int /\ ~(col > col + Cardinality(Txs))
      BY <1>1, <1>2
    <3>2. IsFiniteSet(lanes) /\ Cardinality(lanes) = (col + Cardinality(Txs)) - col + 1
      BY <3>1, FS_Interval
    <3> QED
      BY <1>1, <1>2, <3>2
  <2> HIDE DEF lanes
  <2>5. ASSUME free = {} PROVE FALSE
    <3>1. lanes \in SUBSET takenLanes(tx)
      BY <2>5
    <3>2. Cardinality(lanes) <= Cardinality(takenLanes(tx))
      BY <2>3, <3>1, FS_Subset
    <3> QED
      BY <1>2, <2>1, <2>3, <2>4, <3>2
  <2> QED
    BY <2>5
<1>5. col \in lanes /\ lanes \in SUBSET Nat /\ \A d \in lanes : col <= d
  BY <1>1, <1>2
<1> HIDE DEF col, lanes
<1>6. free \in SUBSET Nat /\ free # {}
  BY <1>4, <1>5
<1>7. freeLane(tx) \in free /\ \A d \in free : freeLane(tx) <= d
  <2> HIDE DEF free
  <2> QED
    BY <1>3, <1>6, LeastIs
<1>8. ASSUME takenLanes(tx) = {} PROVE freeLane(tx) = col
  <2>1. col \in free /\ freeLane(tx) \in lanes
    BY <1>5, <1>7, <1>8
  <2>2. freeLane(tx) <= col /\ col <= freeLane(tx) /\ freeLane(tx) \in Nat
    BY <1>5, <1>7, <2>1
  <2> QED
    BY <1>1, <2>2
<1> QED
  BY <1>6, <1>7, <1>8 DEF col

\* Ranks are places: none is given twice, none is above the number of transactions emitted.
RanksArePlaces ==
  /\ \A tx \in Txs : rank[tx] <= Cardinality(Emitted)
  /\ \A a, b \in Emitted : rank[a] = rank[b] => a = b
  /\ stage # "topo" => Emitted = Txs
\* Without circles parents go first, and a sweep that emits nothing leaves nothing to emit.
ParentsFirst ==
  /\ Acyclic => \A tx \in Emitted : \A p \in Parents(tx) : p \in Emitted /\ rank[p] < rank[tx]
  /\ stage = "topo" /\ ~progressed =>
        \A tx \in Txs \ unvisited : tx \in Emitted \/ ~(Parents(tx) \subseteq Emitted)
\* The depths are set in the order of the ranks, so that a parent's is set before a child's.
DepthsFollow ==
  /\ stage = "depth" => \A a \in Txs \ unvisited, b \in unvisited : rank[a] < rank[b]
  /\ stage # "topo" /\ Acyclic =>
        \A tx \in Txs : (stage = "depth" => tx \notin unvisited) => depth[tx] = deeper(tx)
\* The lanes are given level by level, each once a level, and to an only child its parent's.
LanesFollow ==
  /\ stage = "done" => unvisited = {}
  /\ stage \in {"lanes", "done"} =>
        /\ \A a, b \in Txs \ unvisited : a # b /\ depth[a] = depth[b] => lane[a] # lane[b]
        /\ \A a \in Txs \ unvisited, b \in unvisited : depth[a] <= depth[b]
        /\ Acyclic => \A tx \in Txs \ unvisited, p \in Txs :
                         Parents(tx) = {p} /\ Level(tx) = {tx} => lane[tx] = lane[p]

LayoutInv == LayoutTypeOK /\ RanksArePlaces /\ ParentsFirst /\ DepthsFollow /\ LanesFollow

\* The emitted transactions are those with a rank.
LEMMA EmittedIs ==
  ASSUME LayoutTypeOK
  PROVE  /\ Emitted \in SUBSET Txs /\ IsFiniteSet(Emitted) /\ Cardinality(Emitted) \in Nat
         /\ \A tx \in Txs : rank[tx] \in Nat /\ (tx \notin Emitted <=> rank[tx] = 0)
<1>1. Emitted \in SUBSET Txs /\ \A tx \in Txs : rank[tx] \in Nat /\ (tx \notin Emitted <=> rank[tx] = 0)
  BY DEF Emitted, LayoutTypeOK
<1> QED
  BY <1>1, Graph, FS_Subset, FS_CardinalityType

\* A node emitted after its parents gets the next place.
LEMMA VisitKeeps ==
  ASSUME LayoutInv, NEW tx \in Txs, Visit(tx)
  PROVE  LayoutInv'
<1>0. LayoutTypeOK /\ RanksArePlaces /\ ParentsFirst
  BY DEF LayoutInv
<1>1. /\ stage = "topo" /\ stage' = "topo" /\ tx \in unvisited /\ unvisited' = unvisited \ {tx}
      /\ chain' = chain /\ UNCHANGED <<depth, lane>>
  BY DEF Visit
<1>2. Txs' = Txs /\ (\A t : Parents(t)' = Parents(t)) /\ Acyclic' = Acyclic
  BY <1>1, SameGraph
<1>3. /\ Emitted \in SUBSET Txs /\ IsFiniteSet(Emitted) /\ Cardinality(Emitted) \in Nat
      /\ \A t \in Txs : rank[t] \in Nat /\ (t \notin Emitted <=> rank[t] = 0)
  BY <1>0, EmittedIs
<1>4. \A t \in Txs : Parents(t) \in SUBSET Txs /\ t \notin Parents(t)
  BY <1>0, Graph
<1>5. DepthsFollow' /\ LanesFollow'
  BY <1>1 DEF DepthsFollow, LanesFollow
<1>6. CASE rank[tx] = 0 /\ Parents(tx) \subseteq Emitted
  <2> DEFINE n == Cardinality(Emitted)
  <2>1. rank' = [rank EXCEPT ![tx] = n + 1] /\ progressed' = TRUE
    BY <1>6 DEF Visit
  <2> HIDE DEF n
  <2>2. n \in Nat /\ rank \in [Txs -> Nat]
    BY <1>0, <1>3 DEF n, LayoutTypeOK
  <2>3. rank' \in [Txs -> Nat] /\ \A t \in Txs : rank'[t] = IF t = tx THEN n + 1 ELSE rank[t]
    BY <2>1, <2>2
  <2>4. Emitted' = Emitted \cup {tx} /\ tx \notin Emitted
    BY <1>2, <1>6, <2>2, <2>3 DEF Emitted
  <2>5. Cardinality(Emitted') = n + 1
    BY <1>3, <2>4, FS_AddElement DEF n
  <2>6. LayoutTypeOK'
    BY <1>0, <1>1, <1>2, <2>1, <2>3 DEF LayoutTypeOK
  <2>7. \A t \in Txs : rank[t] <= n
    BY <1>0 DEF RanksArePlaces, n
  <2>8. \A t \in Txs : rank'[t] <= Cardinality(Emitted')
    BY <1>3, <2>2, <2>3, <2>5, <2>7
  <2>9. ASSUME NEW a \in Emitted', NEW b \in Emitted', rank'[a] = rank'[b] PROVE a = b
    <3>1. a \in Txs /\ b \in Txs /\ rank[a] <= n /\ rank[b] <= n
      BY <1>3, <2>4, <2>7
    <3>2. CASE a # tx /\ b # tx
      BY <1>0, <2>3, <2>4, <2>9, <3>1, <3>2 DEF RanksArePlaces
    <3>3. CASE a = tx \/ b = tx
      BY <1>3, <2>2, <2>3, <2>9, <3>1, <3>3
    <3> QED
      BY <3>2, <3>3
  <2>10. RanksArePlaces'
    BY <1>1, <1>2, <2>8, <2>9 DEF RanksArePlaces
  <2>11. ASSUME Acyclic, NEW t \in Emitted', NEW p \in Parents(t) PROVE p \in Emitted' /\ rank'[p] < rank'[t]
    <3>1. CASE t = tx
      <4>1. p \in Emitted /\ p \in Txs /\ p # tx
        BY <1>3, <1>4, <1>6, <2>11, <3>1
      <4> QED
        BY <1>3, <2>2, <2>3, <2>4, <2>7, <3>1, <4>1
    <3>2. CASE t # tx
      <4>1. t \in Emitted /\ t \in Txs /\ p \in Emitted /\ p \in Txs /\ rank[p] < rank[t] /\ p # tx
        BY <1>0, <1>3, <2>4, <2>11, <3>2 DEF ParentsFirst
      <4> QED
        BY <2>3, <2>4, <3>2, <4>1
    <3> QED
      BY <3>1, <3>2
  <2>12. ParentsFirst'
    BY <1>2, <2>1, <2>11 DEF ParentsFirst
  <2> QED
    BY <1>5, <2>6, <2>10, <2>12 DEF LayoutInv
<1>7. CASE ~(rank[tx] = 0 /\ Parents(tx) \subseteq Emitted)
  <2>1. UNCHANGED <<rank, progressed>>
    BY <1>7 DEF Visit
  <2>2. Emitted' = Emitted
    BY <1>2, <2>1 DEF Emitted
  <2>3. LayoutTypeOK'
    BY <1>0, <1>1, <1>2, <2>1 DEF LayoutTypeOK
  <2>4. RanksArePlaces'
    BY <1>0, <1>1, <1>2, <2>1, <2>2 DEF RanksArePlaces
  <2>5. tx \in Emitted \/ ~(Parents(tx) \subseteq Emitted)
    BY <1>3, <1>7
  <2>6. ParentsFirst'
    BY <1>0, <1>1, <1>2, <2>1, <2>2, <2>5 DEF ParentsFirst
  <2> QED
    BY <1>5, <2>3, <2>4, <2>6 DEF LayoutInv
<1> QED
  BY <1>6, <1>7

\* The transactions of circles get the places that are left.
LEMMA EmitRestIs ==
  ASSUME LayoutTypeOK, RanksArePlaces
  PROVE  /\ emitRest \in [Txs -> Nat]
         /\ \A tx \in Txs : emitRest[tx] > 0 /\ emitRest[tx] <= Cardinality(Txs)
         /\ \A a, b \in Txs : emitRest[a] = emitRest[b] => a = b
         /\ \A tx \in Emitted : emitRest[tx] = rank[tx]
<1> DEFINE rest == Txs \ Emitted
           upto(tx) == {u \in rest : First(u) <= First(tx)}
           n == Cardinality(Emitted)
<1>1. /\ Emitted \in SUBSET Txs /\ IsFiniteSet(Emitted) /\ n \in Nat
      /\ \A t \in Txs : rank[t] \in Nat /\ (t \notin Emitted <=> rank[t] = 0)
  BY EmittedIs
<1>2. IsFiniteSet(Txs) /\ Cardinality(Txs) \in Nat /\ \A t \in Txs : First(t) \in Nat
  BY Graph
<1>3. ASSUME NEW a \in Txs, NEW b \in Txs, First(a) = First(b) PROVE a = b
  BY <1>3, Graph
<1>4. IsFiniteSet(rest) /\ Cardinality(rest) \in Nat /\ Cardinality(Txs) = n + Cardinality(rest)
  <2>1. Txs \cap Emitted = Emitted
    BY <1>1
  <2>2. IsFiniteSet(rest) /\ Cardinality(rest) = Cardinality(Txs) - n
    BY <1>2, <2>1, FS_Difference
  <2> QED
    BY <1>1, <1>2, <2>2, FS_CardinalityType
<1>5. ASSUME NEW tx \in rest
      PROVE  /\ upto(tx) \in SUBSET rest /\ IsFiniteSet(upto(tx)) /\ Cardinality(upto(tx)) \in Nat \ {0}
             /\ Cardinality(upto(tx)) <= Cardinality(rest) /\ tx \in upto(tx)
  <2>1. upto(tx) \in SUBSET rest /\ tx \in upto(tx)
    BY <1>2
  <2> HIDE DEF upto, rest
  <2>2. IsFiniteSet(upto(tx)) /\ Cardinality(upto(tx)) <= Cardinality(rest) /\ upto(tx) # {}
    BY <1>4, <2>1, FS_Subset
  <2> QED
    BY <2>1, <2>2, FS_CardinalityType, FS_EmptySet
<1>6. ASSUME NEW a \in rest, NEW b \in rest, First(a) < First(b)
      PROVE  Cardinality(upto(a)) < Cardinality(upto(b))
  <2>1. upto(a) \in SUBSET upto(b)
    <3>1. \A u \in rest : First(u) <= First(a) => First(u) <= First(b)
      BY <1>2, <1>6
    <3> QED
      BY <3>1
  <2>2. b \notin upto(a)
    BY <1>2, <1>6
  <2> HIDE DEF upto, rest
  <2>3. Cardinality(upto(a)) <= Cardinality(upto(b)) /\ Cardinality(upto(a)) # Cardinality(upto(b))
    BY <1>5, <2>1, <2>2, FS_Subset
  <2> QED
    BY <1>5, <2>3
<1>7. ASSUME NEW a \in rest, NEW b \in rest, Cardinality(upto(a)) = Cardinality(upto(b)) PROVE a = b
  <2>1. a \in Txs /\ b \in Txs /\ First(a) \in Nat /\ First(b) \in Nat
    BY <1>2
  <2>2. Cardinality(upto(a)) \in Nat /\ Cardinality(upto(b)) \in Nat
    BY <1>5
  <2> HIDE DEF upto, rest
  <2>3. ~(First(a) < First(b)) /\ ~(First(b) < First(a))
    BY <1>6, <1>7, <2>2
  <2>4. First(a) = First(b)
    BY <2>1, <2>3
  <2> QED
    BY <1>3, <2>1, <2>4
<1>8. emitRest = [tx \in Txs |-> IF tx \in Emitted THEN rank[tx] ELSE n + Cardinality(upto(tx))]
  BY DEF emitRest
<1>9. \A t \in Txs : t \in Emitted \/ t \in rest
  OBVIOUS
<1>10. \A t \in rest : t \notin Emitted /\ t \in Txs
  OBVIOUS
<1> HIDE DEF upto, rest
<1>11. \A t \in Emitted : emitRest[t] = rank[t] /\ rank[t] \in Nat /\ rank[t] > 0 /\ rank[t] <= n
  BY <1>1, <1>8 DEF RanksArePlaces, n
<1>12. \A t \in rest : emitRest[t] = n + Cardinality(upto(t))
  BY <1>8, <1>10
<1> HIDE DEF n
<1>13. \A t \in rest : emitRest[t] \in Nat /\ emitRest[t] > n /\ emitRest[t] <= Cardinality(Txs)
  BY <1>1, <1>4, <1>5, <1>12
<1>14. emitRest \in [Txs -> Nat]
  BY <1>8, <1>9, <1>11, <1>13
<1>15. \A tx \in Txs : emitRest[tx] > 0 /\ emitRest[tx] <= Cardinality(Txs)
  BY <1>1, <1>4, <1>9, <1>11, <1>13
<1>16. ASSUME NEW a \in Txs, NEW b \in Txs, emitRest[a] = emitRest[b] PROVE a = b
  <2>1. CASE a \in Emitted /\ b \in Emitted
    BY <1>11, <1>16, <2>1 DEF RanksArePlaces
  <2>2. CASE a \in rest /\ b \in rest
    BY <1>1, <1>5, <1>7, <1>12, <1>16, <2>2
  <2>3. CASE a \in rest /\ b \in Emitted
    BY <1>1, <1>11, <1>13, <1>16, <2>3
  <2>4. CASE a \in Emitted /\ b \in rest
    BY <1>1, <1>11, <1>13, <1>16, <2>4
  <2> QED
    BY <1>9, <2>1, <2>2, <2>3, <2>4
<1> QED
  BY <1>11, <1>14, <1>15, <1>16

\* A sweep without progress and without circles has emitted everything.
LEMMA SweepOverKeeps ==
  ASSUME LayoutInv, SweepOver
  PROVE  LayoutInv'
<1>0. LayoutTypeOK /\ RanksArePlaces /\ ParentsFirst
  BY DEF LayoutInv
<1>1. /\ stage = "topo" /\ unvisited = {} /\ unvisited' = Txs /\ progressed' = FALSE
      /\ chain' = chain /\ UNCHANGED <<depth, lane>>
      /\ rank' = IF progressed THEN rank ELSE emitRest
      /\ stage' = IF \A tx \in Txs : rank'[tx] > 0 THEN "depth" ELSE "topo"
  BY DEF SweepOver
<1>2. Txs' = Txs /\ (\A t : Parents(t)' = Parents(t)) /\ Acyclic' = Acyclic
  BY <1>1, SameGraph
<1>3. /\ Emitted \in SUBSET Txs /\ IsFiniteSet(Emitted) /\ Cardinality(Emitted) \in Nat
      /\ \A t \in Txs : rank[t] \in Nat /\ (t \notin Emitted <=> rank[t] = 0)
  BY <1>0, EmittedIs
<1>4. /\ emitRest \in [Txs -> Nat]
      /\ \A tx \in Txs : emitRest[tx] > 0 /\ emitRest[tx] <= Cardinality(Txs)
      /\ \A a, b \in Txs : emitRest[a] = emitRest[b] => a = b
      /\ \A tx \in Emitted : emitRest[tx] = rank[tx]
  BY <1>0, EmitRestIs
<1>5. stage' \in {"topo", "depth"}
  BY <1>1
<1>6. rank' \in [Txs -> Nat]
  BY <1>0, <1>1, <1>4 DEF LayoutTypeOK
<1>7. LayoutTypeOK'
  BY <1>0, <1>1, <1>2, <1>5, <1>6 DEF LayoutTypeOK
<1>8. stage' = "depth" => Emitted' = Txs
  BY <1>1, <1>2 DEF Emitted
<1>9. RanksArePlaces'
  <2>1. CASE progressed
    <3>1. rank' = rank /\ Emitted' = Emitted
      BY <1>1, <1>2, <2>1 DEF Emitted
    <3> QED
      BY <1>0, <1>2, <1>5, <1>8, <3>1 DEF RanksArePlaces
  <2>2. CASE ~progressed
    <3>1. rank' = emitRest /\ stage' = "depth" /\ Emitted' = Txs
      BY <1>1, <1>4, <1>8, <2>2
    <3> QED
      BY <1>2, <1>4, <3>1 DEF RanksArePlaces
  <2> QED
    BY <2>1, <2>2
<1>10. ASSUME Acyclic PROVE rank' = rank
  <2>1. CASE ~progressed
    <3>1. Txs \ Emitted = {}
      <4> SUFFICES ASSUME Txs \ Emitted # {} PROVE FALSE
        OBVIOUS
      <4>1. PICK tx \in Txs \ Emitted : Parents(tx) \cap (Txs \ Emitted) = {}
        BY <1>10 DEF Acyclic
      <4>2. Parents(tx) \subseteq Emitted
        BY <1>0, <4>1, Graph
      <4> QED
        BY <1>0, <1>1, <2>1, <4>1, <4>2 DEF ParentsFirst
    <3>2. \A tx \in Txs : rank'[tx] = rank[tx]
      BY <1>1, <1>4, <2>1, <3>1
    <3> QED
      BY <1>0, <1>6, <3>2 DEF LayoutTypeOK
  <2> QED
    BY <1>1, <2>1
<1>11. ParentsFirst'
  <2>1. ASSUME Acyclic, NEW t \in Emitted', NEW p \in Parents(t) PROVE p \in Emitted' /\ rank'[p] < rank'[t]
    <3>1. rank' = rank /\ Emitted' = Emitted
      BY <1>2, <1>10, <2>1 DEF Emitted
    <3> QED
      BY <1>0, <2>1, <3>1 DEF ParentsFirst
  <2> QED
    BY <1>1, <1>2, <2>1 DEF ParentsFirst
<1>12. DepthsFollow' /\ LanesFollow'
  BY <1>1, <1>2, <1>5 DEF DepthsFollow, LanesFollow
<1> QED
  BY <1>7, <1>9, <1>11, <1>12 DEF LayoutInv

\* The ranks stay once they are given.
LEMMA RanksStay ==
  ASSUME LayoutInv, UNCHANGED <<chain, rank, progressed>>, stage # "topo", stage' # "topo"
  PROVE  /\ Txs' = Txs /\ (\A t : Parents(t)' = Parents(t)) /\ Acyclic' = Acyclic
         /\ RanksArePlaces' /\ ParentsFirst'
<1>1. Txs' = Txs /\ (\A t : Parents(t)' = Parents(t)) /\ Acyclic' = Acyclic
  BY SameGraph
<1>2. Emitted' = Emitted
  BY <1>1 DEF Emitted
<1> QED
  BY <1>1, <1>2 DEF LayoutInv, RanksArePlaces, ParentsFirst

\* The next depth is above those of all its parents, and no parent of those set before changes.
LEMMA SetDepthKeeps ==
  ASSUME LayoutInv, NEW tx \in Txs, SetDepth(tx)
  PROVE  LayoutInv'
<1>0. LayoutTypeOK /\ RanksArePlaces /\ ParentsFirst /\ DepthsFollow
  BY DEF LayoutInv
<1>1. /\ stage = "depth" /\ stage' = "depth" /\ tx \in unvisited /\ unvisited' = unvisited \ {tx}
      /\ UNCHANGED <<chain, progressed, rank, lane>> /\ depth' = [depth EXCEPT ![tx] = deeper(tx)]
      /\ \A u \in unvisited : rank[tx] <= rank[u]
  BY DEF SetDepth
<1>2. /\ Txs' = Txs /\ (\A t : Parents(t)' = Parents(t)) /\ Acyclic' = Acyclic
      /\ RanksArePlaces' /\ ParentsFirst'
  BY <1>1, RanksStay
<1>3. deeper(tx) \in Nat
  BY <1>0, DeeperIs
<1>4. depth' \in [Txs -> Nat] /\ \A t \in Txs : depth'[t] = IF t = tx THEN deeper(tx) ELSE depth[t]
  BY <1>0, <1>1, <1>3 DEF LayoutTypeOK
<1>5. LayoutTypeOK'
  BY <1>0, <1>1, <1>2, <1>4 DEF LayoutTypeOK
<1>6. Emitted = Txs /\ \A a \in Txs : rank[a] \in Nat
  BY <1>0, <1>1 DEF RanksArePlaces, LayoutTypeOK
<1>7. \A a \in Txs \ unvisited', b \in unvisited' : rank'[a] < rank'[b]
  <2> SUFFICES ASSUME NEW a \in Txs \ unvisited', NEW b \in unvisited' PROVE rank[a] < rank[b]
    BY <1>1
  <2>1. b \in unvisited /\ b # tx /\ b \in Txs
    BY <1>0, <1>1 DEF LayoutTypeOK
  <2>2. CASE a # tx
    BY <1>0, <1>1, <2>1, <2>2 DEF DepthsFollow
  <2>3. CASE a = tx
    BY <1>0, <1>1, <1>6, <2>1, <2>3 DEF RanksArePlaces
  <2> QED
    BY <2>2, <2>3
<1>8. ASSUME Acyclic, NEW t \in Txs \ unvisited' PROVE depth'[t] = deeper(t)'
  <2>1. tx \notin Parents(t) /\ Parents(t) \in SUBSET Txs
    <3>1. CASE t = tx
      BY <1>0, <3>1, Graph
    <3>2. CASE t # tx
      <4>1. rank[t] < rank[tx] /\ \A p \in Parents(t) : rank[p] < rank[t] /\ p \in Txs
        BY <1>0, <1>1, <1>6, <1>8, <3>2 DEF DepthsFollow, ParentsFirst
      <4> QED
        BY <1>6, <4>1
    <3> QED
      BY <3>1, <3>2
  <2>2. {depth'[p] : p \in Parents(t)} = {depth[p] : p \in Parents(t)}
    BY <1>4, <2>1
  <2>3. deeper(t)' = deeper(t)
    BY <1>2, <2>2 DEF deeper
  <2>4. t # tx => depth[t] = deeper(t)
    BY <1>0, <1>1, <1>8 DEF DepthsFollow
  <2> QED
    BY <1>4, <2>3, <2>4
<1>9. DepthsFollow'
  BY <1>1, <1>2, <1>7, <1>8 DEF DepthsFollow
<1>10. LanesFollow'
  BY <1>1 DEF LanesFollow
<1> QED
  BY <1>2, <1>5, <1>9, <1>10 DEF LayoutInv

\* A loop that ends hands over what it has set.
LEMMA LoopOverKeeps ==
  ASSUME LayoutInv, LoopOver
  PROVE  LayoutInv'
<1>1. /\ unvisited = {} /\ UNCHANGED <<chain, progressed, rank, depth, lane>>
      /\ \/ stage = "depth" /\ stage' = "lanes" /\ unvisited' = Txs
         \/ stage = "lanes" /\ stage' = "done" /\ unvisited' = {}
  BY DEF LoopOver
<1>2. /\ Txs' = Txs /\ (\A t : Parents(t)' = Parents(t)) /\ Acyclic' = Acyclic
      /\ RanksArePlaces' /\ ParentsFirst'
  BY <1>1, RanksStay
<1>3. \A t : deeper(t)' = deeper(t) /\ Level(t)' = Level(t)
  BY <1>1, <1>2 DEF deeper, Level
<1>4. LayoutTypeOK'
  BY <1>1, <1>2 DEF LayoutInv, LayoutTypeOK
<1>5. DepthsFollow'
  BY <1>1, <1>2, <1>3 DEF LayoutInv, DepthsFollow
<1>6. LanesFollow'
  BY <1>1, <1>2, <1>3 DEF LayoutInv, LanesFollow
<1> QED
  BY <1>2, <1>4, <1>5, <1>6 DEF LayoutInv

\* A lane not taken on its level is given, and the levels above are complete.
LEMMA AssignLaneKeeps ==
  ASSUME LayoutInv, NEW tx \in Txs, assignLane(tx)
  PROVE  LayoutInv'
<1>0. LayoutTypeOK /\ DepthsFollow /\ LanesFollow
  BY DEF LayoutInv
<1>1. /\ stage = "lanes" /\ stage' = "lanes" /\ tx \in unvisited /\ unvisited' = unvisited \ {tx}
      /\ UNCHANGED <<chain, progressed, rank, depth>> /\ lane' = [lane EXCEPT ![tx] = freeLane(tx)]
      /\ \A u \in unvisited \ {tx} : LeftOf(tx, u)
  BY DEF assignLane
<1>2. /\ Txs' = Txs /\ (\A t : Parents(t)' = Parents(t)) /\ Acyclic' = Acyclic
      /\ RanksArePlaces' /\ ParentsFirst'
  BY <1>1, RanksStay
<1>3. \A t : deeper(t)' = deeper(t) /\ Level(t)' = Level(t)
  BY <1>1, <1>2 DEF deeper, Level
<1>4. /\ freeLane(tx) \in Nat /\ freeLane(tx) \notin takenLanes(tx)
      /\ takenLanes(tx) = {} => freeLane(tx) = wants(tx).sum \div wants(tx).of
  BY <1>0, FreeLaneIs
<1>5. lane' \in [Txs -> Nat] /\ \A t \in Txs : lane'[t] = IF t = tx THEN freeLane(tx) ELSE lane[t]
  BY <1>0, <1>1, <1>4 DEF LayoutTypeOK
<1>6. LayoutTypeOK'
  BY <1>0, <1>1, <1>2, <1>5 DEF LayoutTypeOK
<1>7. DepthsFollow'
  BY <1>0, <1>1, <1>2, <1>3 DEF DepthsFollow
<1>8. unvisited \subseteq Txs /\ \A t \in Txs : depth[t] \in Nat /\ lane[t] \in Nat
  BY <1>0 DEF LayoutTypeOK
<1>9. \A u \in unvisited : depth[tx] <= depth[u]
  BY <1>1, <1>8 DEF LeftOf
<1>10. ASSUME NEW a \in Txs \ unvisited', NEW b \in Txs \ unvisited', a # b, depth[a] = depth[b]
       PROVE  lane'[a] # lane'[b]
  <2>1. ASSUME NEW c \in Txs \ unvisited, depth[c] = depth[tx] PROVE lane[c] # freeLane(tx)
    BY <1>4, <2>1 DEF takenLanes, Level
  <2>2. CASE a # tx /\ b # tx
    BY <1>0, <1>1, <1>5, <1>10, <2>2 DEF LanesFollow
  <2>3. CASE a = tx
    BY <1>1, <1>5, <1>10, <2>1, <2>3
  <2>4. CASE b = tx
    BY <1>1, <1>5, <1>10, <2>1, <2>4
  <2> QED
    BY <2>2, <2>3, <2>4
<1>11. \A a \in Txs \ unvisited', b \in unvisited' : depth[a] <= depth[b]
  BY <1>0, <1>1, <1>8, <1>9 DEF LanesFollow
<1>12. ASSUME Acyclic, NEW t \in Txs \ unvisited', NEW p \in Txs, Parents(t) = {p}, Level(t) = {t}
       PROVE  lane'[t] = lane'[p]
  <2>1. depth[p] < depth[t]
    <3>1. depth[t] = deeper(t)
      BY <1>0, <1>1, <1>12 DEF DepthsFollow
    <3> QED
      BY <1>0, <1>12, <3>1, DeeperIs
  <2>2. p # t
    BY <1>8, <2>1
  <2>3. CASE t = tx
    <3>1. wants(tx).sum = lane[p] /\ wants(tx).of = 1
      BY <1>0, <1>12, <2>1, <2>3, WantsIs
    <3>2. takenLanes(tx) = {}
      BY <1>1, <1>12, <2>3 DEF takenLanes
    <3>3. freeLane(tx) = lane[p] \div 1 /\ lane[p] \in Nat
      BY <1>4, <1>8, <3>1, <3>2
    <3>4. freeLane(tx) = lane[p]
      BY <3>3
    <3> QED
      BY <1>5, <2>2, <2>3, <3>4
  <2>4. CASE t # tx
    <3>1. t \in Txs \ unvisited
      BY <1>1, <2>4
    <3>2. p # tx
      BY <1>0, <1>1, <1>8, <2>1, <3>1 DEF LanesFollow
    <3>3. lane[t] = lane[p]
      BY <1>0, <1>1, <1>12, <3>1 DEF LanesFollow
    <3> QED
      BY <1>5, <2>4, <3>2, <3>3
  <2> QED
    BY <2>3, <2>4
<1>13. LanesFollow'
  BY <1>1, <1>2, <1>3, <1>10, <1>11, <1>12 DEF LanesFollow
<1> QED
  BY <1>2, <1>6, <1>7, <1>13 DEF LayoutInv

\* The invariant of the layout, whatever chain the indexer sends.
THEOREM LayoutInvariance == LayoutSpec => []LayoutInv
<1>1. LayoutInit => LayoutInv
  <2> SUFFICES ASSUME LayoutInit PROVE LayoutInv
    OBVIOUS
  <2>1. /\ chain \in Seq([tx : TxIds, spends : SUBSET TxIds]) /\ stage = "topo" /\ unvisited = Txs
        /\ progressed = FALSE /\ rank = [tx \in Txs |-> 0] /\ depth = rank /\ lane = rank
    BY DEF LayoutInit
  <2>2. LayoutTypeOK
    BY <2>1 DEF LayoutTypeOK
  <2>3. Emitted = {} /\ \A tx \in Txs : rank[tx] = 0
    BY <2>1 DEF Emitted
  <2>4. RanksArePlaces
    BY <2>1, <2>3, FS_EmptySet DEF RanksArePlaces
  <2>5. ParentsFirst
    BY <2>1, <2>3 DEF ParentsFirst
  <2>6. DepthsFollow /\ LanesFollow
    BY <2>1 DEF DepthsFollow, LanesFollow
  <2> QED
    BY <2>2, <2>4, <2>5, <2>6 DEF LayoutInv
<1>2. LayoutInv /\ [LayoutNext]_layoutVars => LayoutInv'
  <2> SUFFICES ASSUME LayoutInv, [LayoutNext]_layoutVars PROVE LayoutInv'
    OBVIOUS
  <2>1. CASE UNCHANGED layoutVars
    <3>1. UNCHANGED <<chain, stage, unvisited, progressed, rank, depth, lane>>
      BY <2>1 DEF layoutVars
    <3>2. Txs' = Txs /\ (\A tx : Parents(tx)' = Parents(tx)) /\ Acyclic' = Acyclic
      BY <3>1, SameGraph
    <3>3. Emitted' = Emitted /\ \A tx : deeper(tx)' = deeper(tx) /\ Level(tx)' = Level(tx)
      BY <3>1, <3>2 DEF Emitted, deeper, Level
    <3>4. LayoutTypeOK' /\ RanksArePlaces' /\ ParentsFirst'
      BY <3>1, <3>2, <3>3 DEF LayoutInv, LayoutTypeOK, RanksArePlaces, ParentsFirst
    <3>5. DepthsFollow' /\ LanesFollow'
      BY <3>1, <3>2, <3>3 DEF LayoutInv, DepthsFollow, LanesFollow
    <3> QED
      BY <3>4, <3>5 DEF LayoutInv
  <2> QED
    BY <2>1, VisitKeeps, SetDepthKeeps, AssignLaneKeeps, SweepOverKeeps, LoopOverKeeps DEF LayoutNext
<1> QED
  BY <1>1, <1>2, PTL DEF LayoutSpec

\* When the last loop is over, the page is right.
LEMMA LaidOut == LayoutInv => ChainIsLaidOut
<1> SUFFICES ASSUME LayoutInv, stage = "done" PROVE ChainIsLaidOut
  BY DEF ChainIsLaidOut
<1>0. LayoutTypeOK /\ RanksArePlaces /\ DepthsFollow /\ LanesFollow /\ \A t \in Txs : depth[t] \in Nat
  BY DEF LayoutInv, LayoutTypeOK
<1>1. Emitted = Txs /\ Txs \ unvisited = Txs
  BY <1>0 DEF RanksArePlaces, LanesFollow
<1>2. ASSUME NEW a \in Txs, NEW b \in Txs, a # b
      PROVE  rank[a] # rank[b] /\ <<Row(a), lane[a]>> # <<Row(b), lane[b]>>
  <2>1. rank[a] # rank[b]
    BY <1>0, <1>1, <1>2 DEF RanksArePlaces
  <2>2. CASE depth[a] = depth[b]
    <3>1. lane[a] # lane[b]
      BY <1>0, <1>1, <1>2, <2>2 DEF LanesFollow
    <3> QED
      BY <2>1, <3>1
  <2>3. CASE depth[a] # depth[b]
    <3>1. Row(a) \in Nat /\ Row(b) \in Nat /\ (Row(a) < Row(b) \/ Row(b) < Row(a))
      BY <1>0, <2>3, RowIs
    <3> QED
      BY <2>1, <3>1
  <2> QED
    BY <2>2, <2>3
<1>3. ASSUME Acyclic, NEW tx \in Txs
      PROVE  /\ \A p \in Parents(tx) : Row(p) < Row(tx)
             /\ Parents(tx) = {} => Row(tx) = 1
             /\ Parents(tx) # {} => \E p \in Parents(tx) : Row(p) = Row(tx) - 1
             /\ \A p \in Txs : Parents(tx) = {p} /\ Level(tx) = {tx} => lane[tx] = lane[p]
  <2>1. depth[tx] = deeper(tx) /\ Parents(tx) \in SUBSET Txs
    BY <1>0, <1>3, Graph DEF DepthsFollow
  <2>2. /\ Parents(tx) = {} => depth[tx] = 0
        /\ \A p \in Parents(tx) : depth[p] < depth[tx]
        /\ Parents(tx) # {} => \E p \in Parents(tx) : depth[p] = depth[tx] - 1
    BY <1>0, <2>1, DeeperIs
  <2>3. \A p \in Txs : Parents(tx) = {p} /\ Level(tx) = {tx} => lane[tx] = lane[p]
    BY <1>0, <1>1, <1>3 DEF LanesFollow
  <2>4. \A p \in Parents(tx) : Row(p) < Row(tx)
    BY <1>0, <2>1, <2>2, RowIs
  <2>5. Parents(tx) = {} => Row(tx) = 1
    BY <1>0, <2>2, RowIs
  <2>6. ASSUME Parents(tx) # {} PROVE \E p \in Parents(tx) : Row(p) = Row(tx) - 1
    <3>1. PICK p \in Parents(tx) : depth[p] = depth[tx] - 1
      BY <2>2, <2>6
    <3>2. Row(p) = Row(tx) - 1
      BY <1>0, <2>1, <3>1, RowIs
    <3> QED
      BY <3>2
  <2> QED
    BY <2>3, <2>4, <2>5, <2>6
<1> QED
  BY <1>2, <1>3 DEF ChainIsLaidOut

\* An entry of a chain called complete that misses an ancestor has another that is listed.
\* A walk upwards that has a listed ancestor at each step ends: without circles a set that
\* holds its own parents has a member without listed ones, and no entry dangles.
LEMMA Estimated == LayoutTypeOK => EstimateIsRight
<1> SUFFICES ASSUME LayoutTypeOK PROVE EstimateIsRight
  OBVIOUS
<1>1. ASSUME danglingEntries # {} PROVE \E i \in DOMAIN chain : Misses(chain[i])
  BY <1>1 DEF danglingEntries, Misses
<1>2. ASSUME danglingEntries = {}, NEW i \in DOMAIN chain, Misses(chain[i])
      PROVE  \E p, q \in parentTxids(chain[i]) : p # q
  BY <1>2 DEF danglingEntries, Misses
<1>3. ASSUME danglingEntries = {}, Acyclic, NEW some \in (SUBSET Txs) \ {{}},
             \A tx \in some : Parents(tx) \subseteq some
      PROVE  \E tx \in some : parentTxids(chain[First(tx)]) = {}
  <2>1. PICK tx \in some : Parents(tx) \cap some = {}
    BY <1>3 DEF Acyclic
  <2>2. Parents(tx) = {} /\ First(tx) \in DOMAIN chain
    BY <1>3, <2>1, Graph
  <2>3. parentTxids(chain[First(tx)]) = {}
    BY <1>3, <2>2 DEF danglingEntries, Parents
  <2> QED
    BY <2>3
<1> QED
  BY <1>1, <1>2, <1>3 DEF EstimateIsRight, ancestryComplete

\* What the exit page and the history page make of their rows: no transaction and no row is
\* missing, shown twice or out of order, and the verdict on a chain is worth what
\* EstimateIsRight says, for every chain and however rows are recorded, retried and read
\* (exit/chain_order.ts, exit/estimate.ts, history.ts).
THEOREM PagesRight == LayoutSpec /\ PagesSpec => []PagesShowAll
<1>1. LayoutInv /\ PagesInv => PagesShowAll
  BY LaidOut, Estimated, CursorOrders DEF LayoutInv, PagesShowAll
<1> QED
  BY <1>1, LayoutInvariance, PagesInvariance, PTL
=============================================================================
