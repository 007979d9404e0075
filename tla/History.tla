------------------------------- MODULE History -------------------------------
(***************************************************************************)
(* The wallet history (history.ts, offboards.ts) and the web page that     *)
(* feeds it (/send/confirm in web/server.ts).                              *)
(*                                                                         *)
(* A Lightning payment of the page has one history row per invoice: it is  *)
(* pending while the handler waits, and the handler that returns ends it.  *)
(* On-chain sends and NWC payments have a table of their own; their        *)
(* history row is a mirror, brought up to date when /history is read. A    *)
(* restart kills every handler, and the next bring-up closes the rows they *)
(* left.                                                                   *)
(*                                                                         *)
(* Left out: amounts, descriptions, times, and the page a row is shown on. *)
(***************************************************************************)
EXTENDS Naturals, FiniteSets

CONSTANTS
    Invoices,     \* the invoices the operator pays
    Confirms,     \* the /send/confirm posts
    Offboards,    \* ids of the offboards table
    Requests,     \* pay_invoice requests: rows of the transactions table
    MaxCrashes

ASSUME HistoryAssumption == Offboards \cap Requests = {} /\ MaxCrashes \in Nat

Sources == Offboards \cup Requests
Ends    == {"settled", "failed"}
RowStates == {"none", "pending"} \cup Ends

VARIABLES
    mode,         \* "boot": the process is bringing itself up; "ready"
    post,         \* what a confirm post is doing
    inv,          \* the invoice it pays
    web,          \* the web_ln history row of an invoice
    paid,         \* boltz has paid the invoice
    told,         \* a handler has told the operator that it is paid
    again,        \* the invoice was confirmed again while a try ran, or after it was paid
    ark,          \* the ark_send history row of a post
    src,          \* the source rows: offboards, transactions
    mirror,       \* their history rows
    promise,      \* the offboard promise still runs
    paying,       \* the requests whose pay_invoice handler still runs
    rewritten,    \* history: the requests whose handler wrote another end over an end
    crashes

nwc == <<paying, rewritten>>
historyVars == <<mode, post, inv, web, paid, told, again, ark, src, mirror, promise, nwc, crashes>>

HistoryTypeOK ==
    /\ mode \in {"boot", "ready"} /\ crashes \in 0..MaxCrashes
    /\ post \in [Confirms -> {"idle", "ln", "ark", "done", "killed"}]
    /\ inv \in [Confirms -> Invoices]
    /\ web \in [Invoices -> RowStates]
    /\ paid \in [Invoices -> BOOLEAN] /\ told \in [Invoices -> BOOLEAN] /\ again \in [Invoices -> BOOLEAN]
    /\ ark \in [Confirms -> {"none"} \cup Ends]
    /\ src \in [Sources -> RowStates] /\ mirror \in [Sources -> RowStates]
    /\ promise \in [Offboards -> BOOLEAN]
    /\ paying \subseteq Requests /\ rewritten \subseteq Requests

HistoryInit ==
    /\ mode = "boot" /\ crashes = 0
    /\ post = [c \in Confirms |-> "idle"] /\ inv \in [Confirms -> Invoices]
    /\ web = [h \in Invoices |-> "none"]
    /\ paid = [h \in Invoices |-> FALSE] /\ told = paid /\ again = paid
    /\ ark = [c \in Confirms |-> "none"]
    /\ src = [s \in Sources |-> "none"] /\ mirror = src
    /\ promise = [o \in Offboards |-> FALSE]
    /\ paying = {} /\ rewritten = {}

\* The first try does not count as a second one.
Trying(h) == \E c \in Confirms : post[c] = "ln" /\ inv[c] = h

-----------------------------------------------------------------------------
(* The Lightning rail of /send/confirm. *)

\* An upsert: whatever the row says, the new try puts it back to pending.
recordWebLnPending(h) == web' = [web EXCEPT ![h] = "pending"]

ConfirmLn(c) ==
    /\ mode = "ready" /\ post[c] = "idle"
    /\ post' = [post EXCEPT ![c] = "ln"]
    /\ recordWebLnPending(inv[c])
    /\ again' = [again EXCEPT ![inv[c]] = @ \/ Trying(inv[c]) \/ told[inv[c]]]
    /\ UNCHANGED <<mode, inv, paid, told, ark, src, mirror, promise, nwc, crashes>>

\* settleWebLn and failWebLn update a pending row only.
endWebLn(h, end) == web' = [web EXCEPT ![h] = IF @ = "pending" THEN end ELSE @]

\* sendLightning returns with the preimage.
LnReturns(c) ==
    /\ post[c] = "ln" /\ paid[inv[c]]
    /\ post' = [post EXCEPT ![c] = "done"]
    /\ endWebLn(inv[c], "settled")
    /\ told' = [told EXCEPT ![inv[c]] = TRUE]
    /\ UNCHANGED <<mode, inv, paid, again, ark, src, mirror, promise, nwc, crashes>>

\* sendLightning throws: before the funding, or while the swap lives on.
LnThrows(c) ==
    /\ post[c] = "ln"
    /\ post' = [post EXCEPT ![c] = "done"]
    /\ endWebLn(inv[c], "failed")
    /\ UNCHANGED <<mode, inv, paid, told, again, ark, src, mirror, promise, nwc, crashes>>

\* External: boltz pays an invoice a swap was made for, with the handler alive or not.
BoltzPays(h) ==
    /\ web[h] # "none" /\ ~paid[h]
    /\ paid' = [paid EXCEPT ![h] = TRUE]
    /\ UNCHANGED <<mode, post, inv, web, told, again, ark, src, mirror, promise, nwc, crashes>>

-----------------------------------------------------------------------------
(* The Ark rail and the on-chain rail. *)

ConfirmArk(c) ==
    /\ mode = "ready" /\ post[c] = "idle"
    /\ post' = [post EXCEPT ![c] = "ark"]
    /\ UNCHANGED <<mode, inv, web, paid, told, again, ark, src, mirror, promise, nwc, crashes>>

\* recordArkSend: the row is written once, in its final state.
ArkEnds(c) ==
    /\ post[c] = "ark"
    /\ post' = [post EXCEPT ![c] = "done"]
    /\ \E end \in Ends : ark' = [ark EXCEPT ![c] = end]
    /\ UNCHANGED <<mode, inv, web, paid, told, again, src, mirror, promise, nwc, crashes>>

\* Both tables get their pending row before any await; an insert ignores a row that exists.
opened(s) ==
    /\ src' = [src EXCEPT ![s] = "pending"]
    /\ mirror' = [mirror EXCEPT ![s] = IF @ = "none" THEN "pending" ELSE @]

\* The page does not wait for the round: the post is over, the promise runs on.
ConfirmOnchain(c, o) ==
    /\ mode = "ready" /\ post[c] = "idle" /\ src[o] = "none"
    /\ post' = [post EXCEPT ![c] = "done"]
    /\ opened(o)
    /\ promise' = [promise EXCEPT ![o] = TRUE]
    /\ UNCHANGED <<mode, inv, web, paid, told, again, ark, nwc, crashes>>

OffboardEnds(o) ==
    /\ promise[o]
    /\ promise' = [promise EXCEPT ![o] = FALSE]
    /\ \E end \in Ends : src' = [src EXCEPT ![o] = end]
    /\ UNCHANGED <<mode, post, inv, web, paid, told, again, ark, mirror, nwc, crashes>>

-----------------------------------------------------------------------------
(* The NWC rows: written by pay_invoice, ended by it or by others (module PayLedger).  *)

NwcOpens(r) ==
    /\ mode = "ready" /\ src[r] = "none"
    /\ opened(r)
    /\ paying' = paying \cup {r}
    /\ UNCHANGED <<mode, post, inv, web, paid, told, again, ark, promise, rewritten, crashes>>

\* pay_invoice returns or throws: it writes its end over whatever the row says.
NwcReturns(r) ==
    /\ r \in paying /\ paying' = paying \ {r}
    /\ \E end \in Ends : /\ src' = [src EXCEPT ![r] = end]
                         /\ rewritten' = IF src[r] \in Ends \ {end} THEN rewritten \cup {r} ELSE rewritten
    /\ UNCHANGED <<mode, post, inv, web, paid, told, again, ark, mirror, promise, crashes>>

\* The swap listener or a reconciler, with the handler alive or dead: a pending row only.
NwcReconciled(r) ==
    /\ src[r] = "pending"
    /\ \E end \in Ends : src' = [src EXCEPT ![r] = end]
    /\ UNCHANGED <<mode, post, inv, web, paid, told, again, ark, mirror, promise, nwc, crashes>>

\* GET /history.
syncHistoryFromSources ==
    /\ mode = "ready"
    /\ mirror' = [s \in Sources |-> IF mirror[s] = "none" THEN "none" ELSE src[s]]
    /\ UNCHANGED <<mode, post, inv, web, paid, told, again, ark, src, promise, nwc, crashes>>

-----------------------------------------------------------------------------
\* Bring-up closes what the last process left pending. It may fail later on and be tried again.
sweepInterruptedWebSendsNone == web' = web
sweepInterruptedWebSends == web' = [h \in Invoices |-> IF web[h] = "pending" THEN "failed" ELSE web[h]]

BringUp ==
    /\ mode = "boot"
    /\ sweepInterruptedWebSends
    /\ mode' \in {"boot", "ready"}
    /\ UNCHANGED <<post, inv, paid, told, again, ark, src, mirror, promise, nwc, crashes>>

Crash ==
    /\ crashes < MaxCrashes /\ crashes' = crashes + 1
    /\ mode' = "boot"
    /\ post' = [c \in Confirms |-> IF post[c] \in {"ln", "ark"} THEN "killed" ELSE post[c]]
    /\ promise' = [o \in Offboards |-> FALSE] /\ paying' = {}
    /\ UNCHANGED <<inv, web, paid, told, again, ark, src, mirror, rewritten>>

HistoryNext ==
    \/ \E c \in Confirms : ConfirmLn(c) \/ LnReturns(c) \/ LnThrows(c) \/ ConfirmArk(c) \/ ArkEnds(c)
    \/ \E c \in Confirms, o \in Offboards : ConfirmOnchain(c, o)
    \/ \E h \in Invoices : BoltzPays(h)
    \/ \E o \in Offboards : OffboardEnds(o)
    \/ \E r \in Requests : NwcOpens(r) \/ NwcReturns(r) \/ NwcReconciled(r)
    \/ syncHistoryFromSources \/ BringUp \/ Crash

HistorySpec == HistoryInit /\ [][HistoryNext]_historyVars

-----------------------------------------------------------------------------
\* While the bridge serves, a pending web row has a handler that will end it: no
\* restart, failed bring-up or retry leaves one behind.
NoRowStranded ==
    mode = "ready" => \A h \in Invoices : web[h] = "pending" => Trying(h)

\* A settled row is a payment that was made; and what the page reported as paid is
\* settled, unless the operator confirmed the same invoice again.
RowsMatchPayments ==
    \A h \in Invoices :
        /\ web[h] = "settled" => paid[h]
        /\ told[h] /\ ~again[h] => web[h] = "settled"

\* A mirrored row never reports an end its source does not have, except a payment
\* whose handler wrote another end over the listener's: until the page is read
\* again it shows the first one.
MirrorIsBehindOnly == \A s \in Sources : mirror[s] \in Ends => mirror[s] = src[s] \/ s \in rewritten

\* The history tells the truth across tries, restarts and late settlements
\* (history.ts, /send/confirm): the three parts above.
HistoryIsTrue == NoRowStranded /\ RowsMatchPayments /\ MirrorIsBehindOnly
=============================================================================
