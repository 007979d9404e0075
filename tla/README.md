# A TLA+ model of arkade-nwc-bridge

arkade-nwc-bridge is a Nostr Wallet Connect service on top of an Ark wallet. It
pays and receives Lightning by swaps with boltz: submarine and reverse swaps of
the SDK above the dust limit, and its own atomic sub-dust swap below it. Beside
that it keeps the material to leave the Ark server unilaterally, runs such
exits, serves static offers, and shows everything on a web page. It is one
process with one SQLite file; all its concurrency is the interleaving of async
functions at their awaits, and all its failures are failed calls to outside
services and the death of the process.

The parts in which money can be lost, paid twice, booked wrongly or be out of
reach are modelled, checked with TLC on small instances and, for all safety
properties but one, proved with TLAPS for every instance. Paths below are relative to
`src/src/`.

| module | what it is | proofs |
|---|---|---|
| `AtomicSend` | one atomic sub-dust send with all its drivers | `AtomicSendProofs` |
| `SwapContract` | what such a send promises, without the drivers | `AtomicSendProofs` (refinement) |
| `PayLedger` | pay_invoice: requests, rows, budgets, both rails as seen from the ledger | `PayLedgerProofs` |
| `Receive` | one incoming invoice on either rail, up to its ledger row or receipt | `ReceiveProofs` |
| `ExitEngine` | exit rows, queue, session, CSV poll, sweeps, the detail page | `ExitEngineProofs` |
| `ExitFuel` | fuel coins, package boost, destination challenge, final send | `VaultProofs` |
| `Vault` | exit proofs: sync pass, judgement, collection, the service around it | `VaultProofs` |
| `Lifecycle` | setup, bring-up and unwinding, retry, restarts, passes, websocket | `LifecycleProofs` |
| `NostrFeed` | how requests reach the handler: subscriptions, window, memory | `NostrProofs` |
| `RelayGate` | who may open a socket to a relay and when | `NostrProofs` |
| `Notifier` | relay lists of the right key, the notification queue | `NostrProofs` |
| `History` | web payments and mirrored tables on the history page | `WalletProofs` |
| `Boarding` | the watcher of on-chain deposits | `WalletProofs` |
| `Refresh` | renewal of vtxos before their batch expires | `WalletProofs` |
| `Noffer` | the static offer, its service and its payers | `WalletProofs` |
| `WalletMath` | amounts: operators with their reference facts | `WalletProofs` |
| `Views` | layout of a vtxo's ancestry and the verdict on it; the history, page by page | `WalletProofs` |
| `MC*` | model values and constant functions for TLC; `MCNostr` and `MCWallet` also put several machines into one run | |

`PROJECT.json` maps every definition to the lines it stands for.

## Inventory

### Components that move or book money

**Atomic send** (`atomic/send.ts`, `state.ts`, `repository.ts`). State: the row
of `atomic_swaps` (state, funding outpoint, preimage, timestamps), the vault's
exit material of the shared vtxo, and `inflightSends` in memory. Operations:
`atomicSubdustSend` (create, fund, locate, store the outpoint, presign, ask
boltz, confirm, or cancel), `cancelAtomicSend`, `refundAtomicSend`, and
`resumeAtomicSends`, the reconcile pass with its pre-pass over unfunded rows.
Hard: three kinds of driver on one row, all of them read the row, await and
write; spends whose response is lost; acknowledged spends that arkd never
registers; a claim by boltz at the moment of a refund. Correct when: no row is
closed over money that is still in the shared vtxo; what a closed row says is
true; the vault keeps the exit material as long as it may be needed; money does
not stay in the vtxo for ever.

**pay_invoice** (`handlers/pay_invoice.ts`, `lib/budget.ts`, `ln_send.ts`,
`nostr/service.ts`, `boltz.ts`). State: `transactions`, `connections.spent_msat`,
`processed_events`. Three writers: the handler, the listener of the SDK's
SwapManager (`onSwapTerminal`, `syncSwapToDb`), the reconcile pass. Hard: a
client repeats a request, a relay redelivers it, two requests carry one
invoice, the process dies anywhere in between, a send throws although its swap
lives on. Correct when: settled means paid; one invoice is not funded twice; no
budget is overrun; pending rows get resolved.

**Receive** (`ln_receive.ts`, `atomic/receive.ts`, `atomic/ark_util.ts`,
`handlers/make_invoice.ts`, `boltz.ts`, `clink/offers.ts`). State: the receive
row of `atomic_swaps`, the row of `transactions` or of the CLINK receipts, the
history. Operations: `issueInvoice`, `driveAtomicReceive`, the expiry sweep,
`onSwapTerminal`/`onSwapFailed`, `reconcilePendingIncoming`,
`reconcileClinkAcks`. Hard: the preimage must not go to boltz before the claim
has landed; boltz reports success early; the records are written by different
passes. Correct when: no preimage while the vtxo is unspent; nothing recorded
that did not arrive; what arrived recorded, unless the books had given it up;
rows close.

**Exit engine** (`exit/engine.ts`, `ops.ts`, `sweep.ts`, `stepper.ts`,
`final_send.ts`, `boost.ts`, `broadcasts.ts`, `dest.ts`). State: the rows of
`exit_ops`, the queue and the running session, the poll, the destination row,
fuel coins. Hard: every request reads, awaits esplora, broadcasts and only then
writes, next to a restart of the exit, a poll, an eviction, and the death of
the process. Correct when: the page drawn from the rows is true of the chain;
an exit under way is driven on, across restarts; money goes only to a proven
address; a boost that says so has boosted.

**Proof vault** (`exit/vault.ts`, `proof_sync.ts`, `sync_service.ts`,
`evidence.ts`). State: rows per vtxo and the shared chain transactions,
quarantine flags, the service's timers. Hard: a pass judges and collects after
awaits on lists read before them. Correct when: nothing is forgotten whose
money is not accounted for; a stored row keeps its proofs; the vault follows
the world, and an unexplained drop reaches the operator.

**Amounts** (`coin_select.ts`, `send.ts`, `wallet_spend.ts`, `ln_send.ts`,
`atomic/split.ts`). Pure functions; correct when they meet the facts their
callers rely on at the dust and fee boundaries.

### Components that carry and show

**Process lifecycle** (`index.ts`, `atomic/boltz_ws.ts`, `/setup` of
`web/server.ts`, `account.ts`, `server_config.ts`). State: the account and
server rows, the undo stack of `bootReady`, the module-level handles, the
degraded retry, the single-flight flags of the passes, the websocket. Hard: a
bring-up that fails half way, two callers of it, a poke while a pass runs.
Correct when: nothing started survives a failed bring-up; a wallet with nothing
pinned stays on its server; passes of a bring-up take turns and every poke is
followed by one; the bridge comes
up once the servers are back.

**Nostr transport** (`nostr/persistent_sub.ts`, `relay_gate.ts`, `notifier.ts`,
`outbox.ts`, `publish.ts`, `ping_ws.ts`, `service.ts`). State: per relay the
subscription and the moment it died, the bounded memory of seen ids, penalties,
the relay lists, the notification queue. Hard: lost, repeated and late events,
callbacks of replaced attachments, several callers of one gate, a queue at its
limit. Correct when: no request within the lookback is missed, none is handed
out twice while remembered, no relay is left dead or hammered, the lists are
the newest of the right key, the queue moves in order.

**Offers** (`clink/offers.ts`, `clink/send.ts`), **history** (`history.ts`,
`boarding_history.ts`, `offboards.ts`), **auto refresh** (`auto_refresh.ts`),
**page layouts** (`exit/chain_order.ts`, `estimate.ts`, paging). Rows that
several passes and requests write, read back on pages. Correct when: the shown
offer is the served one and its answers reach the payer; the history agrees
with the payments across retries and restarts; a deposit is announced once; a
vtxo that a round can take is renewed in time; a page shows every row once.

### Components without state worth checking

The read-only NWC methods, rendering, configuration, schema and the clients of
outside services. Scripts, keys, transactions and signatures (`atomic/tx.ts`,
`script.ts`, `exit/dest_verify.ts`) are cryptography; what the swap relies on
enters the models as the rules of the external coin.

### How they interact

`nostr/service.ts` calls the handler, the handler calls `sendLightning`, which
goes to `atomic/send.ts` or to the SDK. The SDK calls `boltz.ts` back. Every 30
seconds, and when the boltz websocket pokes it, `index.ts` runs the reconcilers,
which drive the atomic swaps and then write `transactions` and the receipts.
Swaps capture their shared vtxo in the vault and release it; the exit engine
reads the vault and the vault's pass reads the exit rows. Everything meets in
the rows of the database; a writer seldom knows which other one has been there.

The models compose along those rows. `AtomicSend` and `Receive` look at one swap
from inside; `PayLedger` sees a sub-dust send as `SwapContract` promises it
(open, then closed as paid, unpaid or returned), which `AtomicSend` is shown to
implement. `Vault` has the swaps' captures and `Release` and the exits'
`StartExit` and `EndExit` as actions of its environment, `ExitEngine` has the
vault's quarantine, collection and forget. `NostrFeed` hands a request out,
`PayLedger` takes it from there, redeliveries included.

## The modules

### AtomicSend

*Processes.* `Sends` are calls of `atomicSubdustSend` for the invoice, `Pass`
the single-flight reconciler, `Clicks` the requests of the refund button. `pc`
says where each is; every await of the code is a label, so that anything may
happen between a read and the write it leads to. `seen` is the row as the
driver read it, `variant` the txid variant of the executor's retry loop. The
executors `Cancel*` and `Refund*` are written once and run by whichever driver
called them.

*Outside.* `coin` is the shared vtxo at arkd, `indexed` the indexer's view of
it, `poison` the variants whose failed submit blocks their txid, `ln` the
Lightning payment, `boltz` the status boltz reports. boltz claims only what it
has paid for, co-signs a cancel only for what it has not, and is otherwise free
to do nothing. The last txid variant is never poisoned: a spend that fails on
every variant is retried by the next pass with the same outcome, which would
only add an outage without end.

*Faults* is a set of kinds: `crash`, `error` (a call fails), `lost` (a spend
lands, its response does not), `lag` (the indexer is late), `poison`, `other`
(an answer of boltz the code does not name) and `stale` (the pass is held up
between listing and visiting the row). `stable` ends them all, once.

*Time.* `T`, the two ages and `now` are small numbers; one tick is longer than
a funding spend together with the indexer's lag, which is what `UNFUNDED_GRACE`
(10 minutes) is there to cover.

### PayLedger

One row per request event with its state, its link to a swap, fees, whether it
has the preimage, and its budget window. `pc` is the handler of the event:
"sending" until the swap exists, "waiting" until the send returns, "answering".
`Replay`, `Refuse` and `Insert` are the three outcomes of the synchronous block
at the head of the handler: replayed preimage, refusal (in flight or over
budget), reservation. The submarine rail is a swap per event with the two
awaits at which it can be cut (`SubmarineCreate`, `SubmarineFund`); the sub-dust
rail is one book per payment hash. `SwapTerminal` is the listener,
`ReconcileOutgoing` the pass. `SdkSaves` is the SDK storing the end of a swap;
`synced` says how far the news of it has come: saved and not yet reported, told
with the preimage, told without it ("bare", `swap.preimage ?? null`). A dead
process leaves rows and swaps and forgets handlers. The SDK watches on what it has
not stored as final; a swap saved as final and not reported when the process dies
is never reported ("lost"). Amounts are units, and the
sum over a set of rows is the number of their units; a budget is one or two of
them, `day` is the window of a renewing budget.

### Receive

`rail` and `origin` are chosen at the start, so that one run covers all four
kinds of invoice. `pc` holds the six concurrent parts: issuing, `drive`,
`incoming` and `acks` of the pass, a receipt sent `inline`, the `listen`er.
Outside, `payer` is the HTLC, `coin` the shared vtxo or the VHTLC. boltz
collects by the preimage the bridge reveals or by the one it harvests off the
claim (`RECEIVE_DESIGN.md:109-110`), and may take its funding back from `T` on;
that refund and the cancel of the invoice are two steps
(`ATOMIC_SUBDUST_PLAN.md:173-175, 365-366`).

### ExitEngine and ExitFuel

`op` holds the `exit_ops` rows, `active`, `queue` and `checking` the single
session with its last check, `late` what a CSV poll has read and not yet
written, `call` the sweep and boost requests between their awaits. Outside,
`chain` says where the node has each transaction of a chain, `csv` whose
timelock is over, `spend`, `mined` and `taken` what became of sweeps: a sweep is
its destination and fee, and the node replaces one only for a higher fee, or
evicts it. `ChainOf` is the stored list and `AncestorsOf` what a transaction
really spends from: a list is one order of a graph with branches; lists may
share any part of it and may lack an ancestor. All that is listed is an ancestor
of the leaf, which comes last. `Due` is the first listed transaction that is not
in a block, when it has not been broadcast, `Spendable` whether the node would
take it; a session that is `Blocked` there throws (`RunFails`). A sweep request
is about one vtxo: the code's function takes several, its only caller
(`web/server.ts:776`) passes one. The page is the operators `ShownStep`,
`ShownWait`, `ShownSweep` over the rows. `raced` marks an exit restarted during
its own last check.

`ExitFuel` has the requests of the money side: `Reads` is what a boost can learn
from esplora (nothing, because there is nothing or because the reads failed, or
the transaction with its coins and its fee as floor), `fuelPool` adds the free
coins after a further await, `finalSend` takes the address out of the row before
it awaits, `Record` writes after the broadcast. `signed` remembers whose challenge
was answered.

### Vault

A pass is split at its awaits: `ListVtxos`, then per vtxo `MirrorLook` and
`MirrorStore`, then `GcFirst`, `Absorb`, `Judge` of what is no longer listed,
`EndPass`. `fate` is what is true of a vtxo, `shown` whose spend the indexer serves
evidence of, `lapsed` whose batch has expired. `Settle` is a settlement of ours:
`into` says which one took a vtxo, `round` which one an output descends from.
`Absorb` is the indexer's answer to "which settlement took it"; it may be silent or
wrong (`lies`). `absorbed` is the code's judgement of that answer, a comparison of
sums: the rows said to have gone into a settlement against the listed vtxos below
it. `SatsOf` gives the worth of a set of vtxos.

The capture of a swap's vtxo is two steps, `CaptureLook` (chain and gap) and
`CaptureStore`, between which a pass, a release or a forget may collect; `captured`
are those that were told "complete", `bereft` those that lost a proof meanwhile.
The service is `due` (debounce), `retry`, `pending`; `told` is the alarm. Between
any two awaits exits start and end, the operator forgets, arkd drops and relists.

### Lifecycle

`boot` is the call of `bootReady` of each caller (the boot path and the setup
forms), at one of its awaits; `Starts` says what runs once an await returns.
The rollback of a setup form is `deleteAccount` of that form's rows.
`live` is what runs and for whom, `hold` the module-level handles, which a later
bring-up overwrites. `rec` is the reconcile pass of a bring-up with its rerun
flag, `news` which bring-ups were poked since their last pass began, `sock` the
websocket. `Flip` switches the servers off and on.

`resolveServerSet` takes config.json (`override`) before the row before the
defaults of the release (`default`), and `main` backfills the row of an account
that has none. `Init` is an empty database or an old one with an account and no row
(`Grandfathered`); a `Restart` may bring another release and another config.json,
and `Edit` changes config.json under the running process. `home` is where the
wallet of a key was first ready with nothing pinned.

### NostrFeed, RelayGate, Notifier

`NostrFeed` has one connection. `entry` is what the subscription believes of a
relay (alive, dead since when), `link` what is so, `wire` what the relay will
still send, `hush` how long it has been silent. Time is ages in retry ticks;
`window` is the since of the next REQ. `seen` is the memory that evicts down to
half, `latest` the ids let through that it is sure to hold, `processed` the
table. `RelayGate` is the gate of one relay: subscriptions and publishers ask,
join the opening socket and report its failure; the jitter of a backoff is a
choice. `Notifier` has the outbox watcher (`ListOf` is what each key published
when, in any order of arrival) and the drain loop with its grace.

### History, Boarding, Refresh, Noffer

`History`: one row per invoice of the send page with the confirms that write it,
on-chain sends and NWC payments with the mirror `/history` refreshes. The end of
an NWC payment has two writers: the listener or a reconciler, which move a
pending row (`NwcReconciled`), and the handler, which writes over whatever is
there (`NwcReturns`). `Boarding`: a pass reads the list, then the table, then
esplora per outpoint; the wallet settles and rotates meanwhile. `Refresh`: the
timer with its two silences and the button, both calling `settle`, which takes
at most `Cap` vtxos (50 in the SDK), any of those there are; a payment
(`Spends`) may take an input of a round and break it. `wait` counts how long a
due vtxo has waited while the server takes rounds, since a round last left it
out or was broken by a payment. `Noffer`: the service mints, listens and
answers, pages ask and time out, the outbox drifts, the operator regenerates,
the process dies.

### WalletMath

Operators on numbers. Each comes with the facts the callers rely
on (`SelectionIsRight`, `DrainIsRight`, ...), which `MCWallet`
checks over every input of a bounded set. `input` is what one computation is
asked; `InputOK` says what the callers may ask, and is the hypothesis of the
theorem. A sum of coins is the number of their sats, and the
loop over the sorted coins is the chain of its prefixes (`upTo`), so that both
can be reasoned about without recursion. The operator's fee program for on-chain
sends is a base and a percentage, rounded down; a change or an output of 0 is
one that is left out. Percentages are whole numbers here and fractions at boltz and
arkd; the facts use of a fee only that it does not fall with the amount. Review and
submit of an on-chain send see the same total.

### Views

Two machines. The layout of `chainGraph` and `assignLanes`: `chain` is what the
indexer sent, `stage` the loop that runs and `unvisited` the nodes it has not
come to. `Visit` is one node of a sweep of the topological loop and `SweepOver`
its end, with the rest emitted as it stands when nothing progressed; `SetDepth`
and `assignLane` are one node of the loops after it, `LoopOver` their ends.
`ancestryComplete` is the verdict of the exit estimate on the chain; its figures
(virtual bytes and fees) are left out. A wish for a lane is a
fraction, as in the code, and is rounded down only when the lane is taken.

The history page: `FirstPage` and `NextPage` are the two forms of the request,
`Record` is `insert` (at the present second, or an earlier one that the caller
read before an await), `Retry` is `recordWebLnPending` of an invoice that has a
row. `times`, `there` and `moved` are history variables: how often a row was
shown in this reading, which rows there were when it began, and which of them a
retry has moved since.

## Runs

The states are distinct states; the slowest run, `Nostr`, takes under three
minutes with two workers.

| run | instance | states | what it shows |
|---|---|---|---|
| `AtomicSend` | one call, the pass, one click; crash, error, lost, poison; `T` = 2, two txid variants; with fairness | 142 000 | `NoStrandedFunds`, `VerdictMatchesPayment`, it implements `SwapContract` (`RefinesContract`), `FundsComeBack`, `ClaimIsBooked` |
| `AtomicSendFaults` | two calls for one invoice, every fault | 1.2 million | `VaultHeldWhileUnspent`: the exit material is not given up over an unspent vtxo, even there |
| `AtomicSendOrphan` | crash only | | violation of `RecoverableWhenIdle`, see below |
| `PayLedger` | three requests, two for one invoice, one of them sub-dust, a renewing budget, two windows, fees, crashes | 1.9 million | `SettledWasPaid`, `OneFundedSwap`, `BudgetHolds`, `PaidIsNotRefunded` |
| `PayLedgerLive` | three invoices on two connections with lifetime budgets, two sub-dust, crashes and throwing sends, with fairness | 388 000 | `SwapRowResolves`, `CounterCoversSubDust` |
| `Receive` | both rails, both origins, every fault, with fairness | 8 900 | `RevealMeansSpent`, `MoneyMeansLanded`, `ClosedRowIsRight`, `ReceiveEnds` |
| `ExitEngine` | two vtxos, one joining two branches, the other sharing one of them and lacking an ancestor; two starts, two sweeps, two fees, one request, one crash, with fairness | 319 000 | `PageIsTrue`, `NoStrandedExit`, `EveryExitEnds` |
| `ExitFuel` | two concurrent requests, two coins, two addresses, two challenges, two fees | 2.2 million | `SendsGoToVerified`, `NoSilentBoost` |
| `Vault` | two scenes: a vtxo of the wallet and one of a swap below one transaction, with one fault, one drop, one exit; and a settlement of one vtxo while another is dropped, with one wrong answer; with fairness | 531 000 | `ForgetsOnlySettled`, `RowsKeepProofs`, `VaultConverges` |
| `Lifecycle` | two keys, two servers, an empty or an old database, one setup form, one restart into any release and any config.json, one edit, with fairness | 231 000 | `NothingOrphaned`, `OneServerPerWallet`, `PassesTakeTurns`, `EndsUpReady` |
| `Nostr` | two relays, one request among others, one crash; two tickers and a publisher at one gate; two keys with two lists each, a queue of two and four notes | 5.7 million | `NoGap`, `NeverDeaf`, `HandedOutOnce`, `LeftAlone`, `ListsAreCurrent`, `QueueMoves` |
| `Wallet` | two invoices and three confirms; one deposit that rotates twice; three vtxos, rounds of two and both settlers; a payer with two attempts, two relays, two keys; all inputs of the sums; every chain of three transactions with one listed twice and one missing; four rows on pages of two, three seconds | 2.1 million | `HistoryIsTrue`, `BoardingIsTrue`, `RenewedInTime`, `OffersAreKept`, `AmountsAddUp`, `PagesShowAll` |

*Parts in one run.* `MCNostr` and `MCWallet` hold machines that share no state a
property looks at. A behaviour runs one of them and the others stay in their
initial state: the same states as one run for each.

*Why these bounds.* In `AtomicSend` a second click or a second pass repeats the
executor the first runs, and the executors do not look at who runs them; the
clock needs one value before the grace ends, one after, and one past `T`; a
third txid variant repeats the second. In `PayLedger` two requests for one
invoice and one for another are the smallest instance with a replay, an
in-flight refusal and a budget conflict at once, on both rails. In `Receive` the
times put the expiry, its grace, `T` and the receipts' age on different ticks.
In `ExitEngine` one chain joins two branches and the other shares the second of
them, so that an exit can find a later transaction confirmed before an earlier
one; one exit can wait behind the other, one gets through only behind the other,
and a second start of the same exit meets each position of its session. In
`Vault` the shared transaction is what a wrong collection would take from the
other row, or from a capture under way; in the second scene a wrong name of the
settlement is worth as much as a right one. `MCVault` keeps to the two scenes
because their product is out of reach; the theorems are about `Spec` without
them. In `Nostr` the lookback (4) exceeds the skew (2) plus the delay until
silence is noticed (1), so a window shorter than the skew shows; a memory of
three evicts to one, and the other events (`Other`) push ids out; three failures
reach the cap of the backoff. In `Lifecycle` a failed setup, another with the
other key and a restart after each fit; the first key used is always `k1`, since
the keys differ in nothing. In `Wallet` a round of two leaves one of three vtxos
out, and the refresh times are in the order of the code's (an interval no longer
than the silence after a failure, that one shorter than the silence after a
renewal). What these instances leave open the theorems close for the safety
properties they cover.

*Deadlock* is checked in `Receive`, where the pass runs for ever. It is off in
the others: a finished send, a fully answered set of requests, a swept exit or
an exhausted bound may stop.

*Every property* has a mutant in `PROJECT.json`: an operator beside the
definition it mutates, with the change a plausible bug would make, under which
TLC finds the property violated.

### Fairness

Weak fairness of every driver step (the event loop runs on; a fetch returns or
throws: the code sets no timeout of its own on most of them, so this rests on
the runtime's and the socket's), of the start of a pass (a timer), of the clock,
and of the end of outages. Without the last nothing can be promised: an arkd
that is down for ever keeps the money. The SDK is assumed to save and to report
the end of the swaps it watches, while the process lives; what it has saved and
not reported when the process dies it never reports. boltz owes nothing, except
where a property says so in its own hypothesis: `ClaimIsBooked` assumes that its
status row follows its payment, `ReceiveEnds` that it collects
(`BoltzIsPrompt`). `SwapRowResolves` assumes that a swap ends by its timeout and
that an atomic swap's books get closed, which is `FundsComeBack` and
`ClaimIsBooked` of the module inside.

`EveryExitEnds`: the session goes on, the process comes back after its death,
broadcast transactions are mined, the timelock elapses, the poll, a timer, reads
and writes, and a session that is blocked throws. It promises nothing about a
sweep, which is the operator's. `VaultConverges`: passes advance and end, and
the debounce, retry, poll and age timers fire; faults are finitely many.
`EndsUpReady` has "the servers are up for good" as hypothesis: each await of
`bootReady` returns or fails, it can fail only while they are down, and the
retry timer fires. `PassesTakeTurns` rests on a pass ending; that another one
follows the poke is the code's doing.

## Disagreements with what the code says of itself

One has a violation run, `AtomicSendOrphan`: a throw or crash between
`setFundingOutpoint` and the `funded` transition (`atomic/send.ts:254`) leaves an
`init` row with an outpoint that no recovery path takes, although the comment
says that "a genuine orphan (throw mid-send) is recovered by the next reconcile
tick exactly as before" (`atomic/send.ts:107-108`). The vtxo then waits for
boltz's claim or a unilateral exit.

The others were met while the models were written. Most are the reason for a
hypothesis, a bound or an exception in a property, which is named with them; the
last few are remarks on code next to what is modelled.

*Sends.*

- `boltz.ts:388`: a submarine payment settled after a crash is never added to
  `spent_msat`; the comment on the atomic half says that the reconcile must, "or
  the 'never' budget counter undercounts it" (`boltz.ts:322-324`). Hence
  `CounterCoversSubDust` is about sub-dust payments.
- `boltz.ts:388`: the listener settles a row before the handler has bumped the
  counter; a request in between passes the budget check, although "concurrent
  payments can't jointly overshoot the budget" (`handlers/pay_invoice.ts:79-81`).
  Renewing budgets, which sum the rows, are not affected: `BudgetHolds` is
  checked for them.
- `atomic/send.ts:309`: an answer that is neither claimed nor failed closes the
  row as failed while the vtxo is locked (fault `other`).
- `atomic/send.ts:249`: a lost funding response while the indexer lags fails a
  funded row (`lost` with `lag`).
- `atomic/send.ts:920`: `markClaimed` decides on the row as it was listed (`stale`).
- `atomic/send.ts:546`: a claim of boltz that lands late is booked as a refund.
  The contract's "returned" therefore does not say that the invoice is unpaid.
- `atomic/send.ts:364`: with two calls for one invoice the `finally` of one
  removes the registration of the other.
- `atomic/send.ts:487`: after a crash between the landing of a refund or cancel
  and the transition, the row is never closed.
- `atomic/send.ts:345`: a claimed swap without preimage settles a ledger row
  that can not be replayed; `PaidIsNotRefunded` is about submarine swaps, and
  `MissesReplay` keeps this case in the model.
- `boltz.ts:319`: the pass looks the ledger row up by payment hash and may
  charge another connection that has a pending row for the same invoice; the
  configurations give each connection its own sub-dust invoices.
- `handlers/pay_invoice.ts:54`: "an already-settled payment for this hash must not
  re-fund a second swap". The listener may settle a submarine row without a
  preimage (`swap.preimage ?? null`, `boltz.ts:396`); such a row is not replayed
  (`if (settled?.preimage)`, line 63), and the retry funds a second swap. Hence
  `BareReport` in `PaidIsNotRefunded`.
- `handlers/pay_invoice.ts:123-126`: "a crash during the long settlement wait still
  recovers on restart (SwapManager resume → syncSwapToDb)". Not if the process dies
  between the SDK's save of the final status and its report: the SDK resumes only
  swaps that are not final, and the outgoing half of the reconcile looks at sub-dust
  rows only (`boltz.ts:306-351`); the `reconcilePendingOutgoing` that
  `boltz.ts:255` names does not exist. The row stays pending, holds its share of the
  budget and refuses the invoice. Hence `synced[e] = "lost"` in `SwapRowResolves`.
- `handlers/pay_invoice.ts:89`: a crash between the insert and the creation of
  the swap leaves a row pending for ever; hence "whose swap exists" in
  `SwapRowResolves`.
- `handlers/pay_invoice.ts:137`: a throw marks the row failed although the swap
  may still be paid; a retry then funds a second one. Hence no `error` in the
  run and the theorem about `OneFundedSwap`.

*Receives.*

- `atomic/receive.ts:260`: `confirmSpent` asks whether the vtxo is spent, not by
  whom. After a claim that was acknowledged and not registered, boltz's refund
  past `T` satisfies it and the preimage is revealed; "there is no state where
  the payer is debited and the vtxo never arrives" (`ln_receive.ts:88-89`).
  Hence `~poisoned` in `MoneyMeansLanded`.
- `ln_receive.ts:177`: the sweep runs also when the status call of the drive
  threw; after an outage longer than the grace it gives up a row boltz has
  funded. The doc says "terminalize never-funded receives" (`ln_receive.ts:152`).
- `atomic/receive.ts:226`: a failed settle call is not repeated, since the lookup
  before it throws once the claim has landed; "claimed retries settle"
  (`ln_receive.ts:159`). Only boltz's harvester collects then.
- `atomic/receive.ts`: a `claimed` row whose vtxo boltz took back is polled for
  ever; hence the exception in `ReceiveEnds`.
- `boltz.ts:242-304`: after a long outage a row is made `expired` although it is
  paid later, `onSwapFailed` marks failed a swap that may still land, and a sub-dust
  receipt is dropped after its time to live. These are the three ways of `Forgone`;
  in every other case `ReceiveEnds` says that what landed is recorded.
- `clink/offers.ts:458`: a receipt can be published twice, by the listener and
  the pass or around a crash; and a failed publish is swallowed before the row
  that would repeat it is deleted.

*Exits.*

- `exit/engine.ts:335`: `startExit` resets the row before `enqueue` looks at
  `active`. During the last check of the same exit the enqueue does nothing, and
  the row stays unrolling without a session until the next restart; the doc says
  "restarts a failed op. No-op while queued/active." (`engine.ts:77`). Hence
  `raced`.
- `exit/stepper.ts:22-25`: "The early stop is sound because Session broadcasts in
  exactly that order, waiting out each confirmation, so the sequence always reads
  [confirmed…][≤1 mempool][absent…]". Not where another vtxo's exit has confirmed a
  shared transaction further down the list: it is drawn as pending until the probes
  come to it. Hence `OwnTx` in `PageIsTrue`. What the rows say needs no such
  exception: a leaf in a block has all its ancestors in blocks.
- `exit/final_send.ts:142`, `exit/boost.ts:581`: "unknown = evicted → a fresh
  rebuild at the current rate is correct". A read that fails is unknown too. A final
  send then goes out beside the one that is stuck, from other coins, and the row
  forgets the first. `NoSilentBoost` is about a request that could read what it
  replaces; one whose reads all failed is in the model, and no property speaks of it.

*Vault.*

- `exit/evidence.ts:169-171`: "a lie shifts rows between groups and breaks the
  equality, so the failure mode is always "stay quarantined", never "wrongly
  delete"". It does so where the settlement's own inputs are among the rows named
  with it and are worth its listed outputs (`Accounted`). With boarding money or a
  received vtxo below the same commitment, or with inputs whose rows are gone or not
  named, a row of the right value is forgotten on a wrong word. Hence `Accounted` in
  `ForgetsOnlySettled`.
- `exit/proof_sync.ts:208`: a capture returns `complete` from the gap it computed
  before its awaits. If a release, a forget or the end of a pass collects a shared
  proof in between, the row is stored without it, and the rows of swaps are not
  mirrored again. Hence `bereft` in `RowsKeepProofs`.

*Lifecycle.*

- `index.ts:215`: the exit engine and the notifier are created once per process
  with the key of the first bring-up. After a rolled back setup and another with
  a different key, the ready bridge keeps those of the abandoned key;
  `README.md:245` says "same nsec". Hence "if with the key of an abandoned
  setup" in `NothingOrphaned`.
- `web/server.ts:357`: the mode is checked before the awaits of the setup
  handler. With two forms in flight the failing one rolls back the rows of the
  other; the run has one form at a time.
- `index.ts:747-750`: "Freeze its current server into the row now so a later
  defaults.ts change can't silently repoint an existing wallet". While config.json
  pins the servers nothing is frozen. If it is emptied under a running process, the
  next bring-up of that process is on the defaults and the row is written at the
  next start only, from the release that runs by then (`slipped` in
  `OneServerPerWallet`). A config.json that pins another server does move a wallet:
  the code warns and goes on (`server_config.ts:58-80`), and the property is about
  bring-ups with nothing pinned. A file that pins one of the two URLs is modelled as
  pinning both.
- A failed bring-up leaves its running pass behind, and the next bring-up's pass
  may overlap it (`stray`): `PassesTakeTurns` is about the passes of one bring-up.

*Nostr.*

- `persistent_sub.ts:150`: a sub that survives a tick counts as recovered, and
  the time of its death is forgotten, answered or not. A relay that takes a
  resuming REQ and falls silent before it has answered in full loses that window:
  the next REQ looks back from the later death (`mute` in `NoGap`).
- `persistent_sub.ts:75`: an id seen again does not move up in the memory, which
  evicts down to half; only the last half of the ids let through are surely
  remembered (`latest` in `HandedOutOnce`). The processed table catches the rest
  for requests whose handler has claimed them.
- A revocation while the registration awaits the info event leaves an open
  subscription; its events are refused by the row.
- A socket that a publish opened and the relay kicks with no subscription on it
  is not penalised: nobody watches it.

*Wallet pages.*

- `history.ts:126-130`: "latest attempt wins" fails when two confirms of one
  invoice overlap; a confirm of an invoice already paid resets its settled row.
  Hence `again` in `HistoryIsTrue`.
- Only `/history` mirrors the other tables. A crash leaves the row of an on-chain
  send pending for ever in its own table, and so in the mirror.
- `handlers/pay_invoice.ts:139-141, 166-172`: the handler writes its end over the
  one the listener wrote, without a condition on the state. `/history` then shows
  the first end until it is read again (`rewritten` in `HistoryIsTrue`).
- `boarding_history.ts`: a kill between marking an outpoint seen and recording
  its row loses the row; a stray pass and a silent esplora together can leave a
  row of a rotation pending (`blind`).
- `coin_select.ts`: the selection adds coins in order and gives up although a
  subset that is no prefix would compose exactly (coins 3, 1, 1 for a target of
  2 with dust 4). It then refuses a send it could make, and never makes a wrong
  one.
- `auto_refresh.ts:21-25`: the argument "above 90h10m with ~6h to spare" counts
  the poll and the round, not the 12 hours of silence after a renewal, in which a
  vtxo that the round missed waits. `RenewedInTime` has the bound that holds:
  silence, interval and two rounds, since the last round that was too full for the
  vtxo or was broken by a payment. Neither is bounded by the code: `index.ts:542-544`
  counts on a silence of 12 hours that "still re-catches a >50-VTXO multi-batch
  leftover", and which 50 a round takes is the SDK's choice.
- `exit/estimate.ts:53`: `ancestryComplete` "false = the stored chain names an
  ancestor it does not contain". `danglingEntries` (`exit/chain_order.ts:118`)
  counts an entry only if none of its named ancestors is listed, so a chain
  that lacks one of two parents is called complete. `EstimateIsRight` says what
  the verdict is worth: a chain called broken does miss an ancestor, one called
  complete misses none unless an entry names two, and following listed ancestors
  leads to an entry that names none.
- `history.ts:285-288`: the tiebreak "makes same-second rows stable across
  pages", which `PagesAreWhole` confirms. What it does not speak of is that a
  retried invoice moves to the top, so that a reading under way misses it
  (`moved`).

## Proofs

All theorems are about the specifications TLC runs, for every value of the
constants under the named assumptions. The number of requests, connections,
invoices, calls, clicks, vtxos, coins, relays, faults and restarts is arbitrary.

**AtomicSendProofs.** Three theorems hold under every fault and for any number
of calls at once: `TypeCorrect`, `VaultIsHeld` and `SpendsArePaidFor` (the vtxo
and the row are claimed only if Lightning paid, cancelled only if it failed).
They rest on `BaseInv`, the parts of the invariant below that no fault disturbs:
`IndexInv`, `GraceInv`, `OutpointInv` and `PaymentInv`, which are inductive by
themselves. The others assume `Tolerable`, which names the circumstances the
code is built for: one live call, no answer outside the protocol, no lost
response during a lag, no outdated listing. None of the properties is inductive.
The invariant is `LiveSendOwnsRow` and `NoStrandedFunds` together with

- `IndexInv`: the indexer is behind arkd, never ahead of it;
- `GraceInv`: funding the indexer does not show yet is younger than the grace,
  so the pre-pass does not take its absence for "never funded";
- `OutpointInv`: a stored outpoint was read off the indexer, every state after
  `init` has one, and an executor past its guards works on such a row;
- `OwnerInv`: a live call that has created the row is registered, and the pass
  is past its look at the registrations only if no call is driving;
- `SeenInv`: a row the pass listed without an outpoint has not moved on since;
- `PaymentInv`: what boltz reports is so, and what a driver concluded from it
  before an await stays so after it;
- `FailedInv`: a row given up has no coin and gets none.

`OrphanIsTheOnlyGap` says what the violation run leaves open: apart from the row
that stopped between its outpoint and its handover, every funded row at rest is
one that a driver picks up.

With the invariant each action is one case, and each conjunct the action can disturb is
checked there. `KeepsContract` then maps each step to a step of `SwapContract`:
the only steps that move `lock`, `paid` or `book` are the spends, the payment
and the transitions into a terminal state, and the invariant gives the guard of
the contract's action.

**PayLedgerProofs.** The invariant says that each payment keeps to its rail
(`RailInv`), that whatever says "paid" - a settled row, a swap, a book, a
preimage handed out - is about a paid invoice (`PaidInv`), that a request
without a row has no handler and no swap (`HandlerInv`), that a connection has
at most one pending row per invoice (`OnePending`) and that a swap which is or
may still get funded has a pending row (`FlightInv`). `SettledIsPaid` needs no
hypothesis on faults; `OneSwapAtATime` assumes that no send throws while its
swap lives on, which is the hypothesis inside `FlightInv`.

The sums need a second layer, `SendInv`: what a handler that is sending or
waiting may rely on about its own row (`SendingInv`, `WaitingInv`), which fees a
row can have (`FeesInv`) and what a replay needs (`ReplayInv`). Over it every
step is one of five kinds (`LedgerStep`: inserts a row, keeps it, fails it,
settles it on either rail), and lemmas about sums (`TotalMonotone`,
`TotalSplit`, `TotalAdd`) say what each kind does to what is committed and to
the counter. `SubDustIsCounted` then holds under every fault. `BudgetsKept` is
per connection: every renewing budget in every window, and every lifetime budget
whose payments all take the sub-dust rail; `BudgetIsKept` is `BudgetHolds` where
all connections are of those two kinds. The rest, a lifetime budget over the
submarine rail, is the disagreement at `boltz.ts:388`. `NothingPaidTwice` adds
that a pending row of a paid invoice is never about to fund (`UnpaidInv`), unless
the listener was told of the payment without its preimage; it assumes that no send
throws while its swap lives on and that an invoice is asked for over one connection.

**ReceiveProofs.** The drive reveals only what is spent and works on an open row
(`DriveInv`), a receipt is sent only if a row asked for it (`ReceiptInv`), boltz
does what the preimage lets it (`BoltzInv`), a closed row follows boltz
(`RowInv`), and with an arkd that registers what it acknowledges a claim is a
landing (`LandingInv`). Together they carry the safety properties over every
step, under every fault.

**ExitEngineProofs.** Neither property is inductive: the page speaks of rows,
and rows are written from what was read before an await. `ChainInv`: a
transaction is broadcast only behind confirmed ancestors, and one that a single
vtxo lists only behind all that is listed before it. Since all that is listed is an
ancestor of the leaf, a confirmed leaf stands for the whole list, in whatever order
its branches come and whatever is shared (`LeafConfirms`). `OpInv`: what a row's
state says of the chain, the timelock and the sweep. `LateInv`: an answer of the
poll and a request past its broadcast are still true when they are written, since
timelocks do not come back and `taken` only grows. `SessionInv`: a dead process
holds nothing, and what unrolls is attended to or was restarted during its last
check. `AncestorsAssumption` asks only that a list names a transaction once and
nothing but ancestors of its leaf.

**VaultProofs.** Both properties of the vault are action properties, over the
type invariant, `FetchInv` (a pass that waits for proofs knows whose, and replaces
a whole chain only by itself) and `CapInv` (a capture happens once, stores a row
that was not there, and has what it did not ask for or was robbed of it). Each
action is shown to do no harm to the rows (`ForgetStep`), to the proofs of those
that stay (`ReadyStep`) and to the invariant. `VaultForgetsOnlySettled` needs one
fact about sums, `EqualWorth`: a set that is worth no more than a part of it is that
part, since no vtxo is worth nothing (`SatsAssumption`). Hence if the settlement's
inputs are among the rows named with it and both are worth its outputs, every row
named was an input (`ConservationShows`). The answers of the indexer are arbitrary.

The module also holds the proofs about `ExitFuel`, whose invariant follows the
values a request carries over its awaits: the address it read was verified when it
read it (`AddrInv`); a transaction it read is of the kind it rebuilds, with its fee
below the floor and its coins among those of the rebuild (`FloorInv`), so that the
node cannot take the rebuild and keep the other, whatever other requests put there
in the meantime.

**LifecycleProofs.** `LifecycleInvariant`, `NothingIsOrphaned` and
`WalletKeepsItsServer` assume `OnePost`, one setup form at a time (two are the
disagreement at `web/server.ts:357`); keys, servers, failures and restarts are
arbitrary. `OneCaller`: one call of `bootReady` is under way, none while a
session serves, and the retry timer is armed only in between. `Owned`: what runs
is exactly what that call has started up to its await, and the handles that are
set are its own, so unwinding stops what it started and nothing else. `Chosen`:
there is at most one account, and the call under way and the session have its key.
`Served`: an account without a row is an old one that config.json pins, unless it
was unpinned under a running process; a call that is not pinned works on the row,
and the wallet was first ready there. Every start of `main`, the first and any
after a restart, on an empty or an old database, is one lemma (`FromAStart`).
`OnePassAtATime` (`Turns`) is the safety half of `PassesTakeTurns`: one pass at a
time, and a poke that no pass has followed is remembered by the one that runs. It
needs no hypothesis.

**NostrProofs.** `GapInv` is the heart: what is missing of a relay is on its
wire while it answers, inside the window of the REQ under way or to come while
it is down, or younger than the silence that hides it. It needs that the silence
before detection plus a tick is no longer than the skew (`NostrFeedAssumption`,
29 s + 20 s of ping and 5 s of tick against 60 s of skew in the code). `LineInv`
ties what the subscription believes to what is so, `RowInv` excludes requests
before the connection exists, `MemoryInv` says that the ids let through last are
a tail of the memory. Lemmas about tails and eviction are stated once, on
sequences. `ListsStayCurrent`: keeping the newest stamp is keeping what it named
(`ApplyKeepsNewest`), and a change of key forgets both.

`QueueAlwaysMoves`: the queue is always the last so many notifications up to the
count, all after the one sent last (`Newest`), and a nonempty queue has its drain
loop running; cutting off the front, dropping the oldest and appending keep that.
`RelayIsLeftAlone` is for every delay, cap and jitter. The backoff is a power of
two, whose growth is proved without induction as the size of a set of subsets
(`PowerOfTwo`); the invariant says how long the gate stays shut after how many
failures, and who may still report one. It assumes a caller that ticks
(`Tickers # {}`): the watchdog and the subscriptions report a kicked socket, and
a gate that only publishers use is not told (see the disagreements).

**WalletProofs.** History: while an invoice was confirmed once, its handler is
the only one and has a pending row before it (`OneTry`), a booting process has
no handler (`BootIsEmpty`), a send that runs is pending in its table
(`PromiseIsPending`); the mirror of a row that was not rewritten is an earlier
state of it. Offers: what is served is what is stored (`ServiceInv`), a
handler keeps the relay its request came by (`HandlerInv`), an answer ends its
handler, so the receipt row it was given for is never written again
(`AnswerInv`), and a payer's invoice is an answer that was sent (`PageInv`).

Deposits: `BoardingStaysTrue` rests on what the passes that have read the table
may still rely on while others write it. A row of `boarding_seen` never goes away
(`SeenStays`), a rotation on the chain came from an outpoint the table knows
(`RotationsKnown`), what a pass was given was on the chain and what it has left
to do agrees with what it read (`ListsReal`, `TodoFits`), an outpoint of the
baseline is announced by nobody (`BaselineSilent`) and only rotations are taken
for sweeps (`SweepsRotate`); with that each row is right (`RowsRight`). A
deposit's lineage is closed under any number of rotations.

Renewal: `RefreshIsInTime` is a bound on a clock, so its invariant bounds what a
due vtxo can have waited since a round last left it out or broke under a
payment, for any number of vtxos and any `Cap`. A round in flight that cannot
renew it began before it waited (`MissedShort`); a pass from under which the
button took vtxos began at most a round before (`BeatenEarly`); and together
with the time until the next pass the silence lets through, the wait is at most
a round, a silence and an interval (`TakenUp`). It needs `FailQuiet + Round <=
DoneQuiet`, as in the code, where a failure silences the timer for far less than
a renewal: otherwise the failure the button causes could be the longer way
round.

Amounts: `AmountsRight` is `AmountsAddUp` for every input that satisfies
`InputOK`, so for every pool, target, fee, dust limit and slack. Selection: the
order of the coins is total, so the prefixes are a chain of finite sets, which
has a least member among those that cover the target and the whole set as its
greatest (`ChainEnds`); hence the accumulation stops at a covering prefix if all
the coins together cover (`Accumulated`). Funding: only the whole pool adds up
to the total, since no coin is worth nothing (`PartIsAll`). Drain: the total of
an invoice is at least the invoice, so the walk up ends. On-chain: the fee does
not fall with the amount (`FeeGrows`), so from an amount that leaves too little
the candidates lie alternately below and above the largest one that leaves dust;
the loop of four steps after the first ends on the low side, and its advice is
let through although it may not have reached the fixed point.

Pages: `PagesRight` is `PagesShowAll` for every chain, whatever it names twice,
leaves out or runs in circles, for any number of rows and any page size. Layout:
no rank is given twice or lies above the number of emitted nodes
(`RanksArePlaces`), and without circles a node's parents stand before it
(`ParentsFirst`). A sweep without progress leaves nodes each of which
waits for another, so it means a circle, and without one every parent has its
depth before the child asks for it (`DepthsFollow`). Lanes: what has been visited
is to the left of what has not, so a node finds the levels above it complete, its
own lane is free among its level and the first such from its wish
(`LanesFollow`); that one is free at all is a pigeonhole, more slots than nodes
(`FreeLaneIs`). Levels that nobody has are squeezed out by counting depths
instead of numbering them (`RowIs`). History: the cursor divides what was shown
from what is to come (`CursorDivides`), rows shown exist (`ShownAreThere`), and a
reading that ended has shown all it began with (`EndShowsAll`). A row that a
retry moves becomes the newest, and one recorded with an earlier time was not
there at the start, so neither changes the division.

*Only model-checked.* Liveness (`FundsComeBack`, `ClaimIsBooked`,
`SwapRowResolves`, `ReceiveEnds`, `EveryExitEnds`, `VaultConverges`, the second
half of `PassesTakeTurns`, `EndsUpReady`), which is outside this prover's reach.
Every safety property of a passing run is proved. `BudgetHolds` and
`PaidIsNotRefunded` are proved under the hypotheses named above, which the
instances of the runs satisfy; the violation run is a counterexample and has
nothing to prove.

## Not modelled

- Cryptography and transaction construction: `atomic/tx.ts`, `script.ts`,
  `params.ts`, `exit/dest_verify.ts`, NIP-04/44 encryption, noffer encoding, zap
  validation. The models take from them only who can spend what and when.
- The read-only NWC methods, rendering and forms of the web pages, the event
  stream: they change no state.
- Schema, environment, esplora, indexer and cost oracle clients: pure I/O. Their
  failures and delays are in the models of those who call them.
- `lib/cache.ts`, which joins concurrent fetches of figures for display.
- The SDK (wallet, swaps, unroll session): modelled only as `src/` uses it.
- Two setup forms at once, and a kill between two statements of one synchronous
  block: see the disagreements above.
