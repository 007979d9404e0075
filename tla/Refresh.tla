------------------------------- MODULE Refresh -------------------------------
(***************************************************************************)
(* The renewal of vtxos before their batch expires: the passes of          *)
(* auto_refresh.ts as index.ts schedules them (every 10 minutes, silent    *)
(* for 30 minutes after a failure and 12 hours after a success), next to   *)
(* the Refresh button of the web page.                                     *)
(*                                                                         *)
(* Both call wallet.settle(), which folds the vtxos it finds, at most Cap  *)
(* of them, into a fresh one; two rounds may hold the same vtxos and only  *)
(* one of them can spend them, and a payment may spend one from under a    *)
(* round. Time is counted in units of the smallest delay.                  *)
(*                                                                         *)
(* Left out: amounts, vtxos that cannot anchor a round (sub-dust, swept),  *)
(* and the split of the hot pockets after a round (module WalletMath),     *)
(* whose failure both callers swallow.                                     *)
(***************************************************************************)
EXTENDS Naturals, FiniteSets

CONSTANTS
    Vtxos,
    Cap,          \* MAX_VTXOS_PER_SETTLEMENT
    Tick,         \* between two passes
    Round,        \* the longest a settlement round takes
    FailQuiet,    \* silence after a failed pass
    DoneQuiet     \* silence after a renewal

\* 30 minutes and a round are shorter than 12 hours.
ASSUME RefreshAssumption ==
    /\ {Tick, Round, FailQuiet, DoneQuiet, Cap} \subseteq Nat /\ Tick > 0 /\ IsFiniteSet(Vtxos)
    /\ FailQuiet + Round <= DoneQuiet

Settlers == {"auto", "button"}
Idle == [on |-> FALSE, batch |-> {}, age |-> 0, bad |-> FALSE]

VARIABLES
    vtxo,         \* "absent", "early", or "due": within the renewal window
    wait,         \* how long it has been due while the server took rounds, since it was last
                  \* left out of a round or a payment broke the round that held it
    rnd,          \* the round each settler waits for
    busy,         \* autoRefreshRunning
    quiet,        \* what is left of the silence
    next,         \* until the next pass
    refusing      \* the server does not answer, or turns intents down

refreshVars == <<vtxo, wait, rnd, busy, quiet, next, refusing>>

\* A round that missed the vtxo, the silence after it, the interval, and a round.
LongestWait == DoneQuiet + Tick + 2 * Round

RefreshTypeOK ==
    /\ vtxo \in [Vtxos -> {"absent", "early", "due"}] /\ wait \in [Vtxos -> Nat]
    /\ rnd \in [Settlers -> [on : BOOLEAN, batch : SUBSET Vtxos, age : 0..Round, bad : BOOLEAN]]
    /\ busy \in BOOLEAN /\ quiet \in 0..DoneQuiet /\ next \in 0..Tick /\ refusing \in BOOLEAN

RefreshInit ==
    /\ vtxo \in [Vtxos -> {"absent", "early", "due"}] /\ wait = [v \in Vtxos |-> 0]
    /\ rnd = [s \in Settlers |-> Idle]
    /\ busy = FALSE /\ quiet = 0 /\ next = 0 /\ refusing = FALSE

Here == {v \in Vtxos : vtxo[v] # "absent"}

-----------------------------------------------------------------------------
\* Some vtxo that can anchor a round is within the threshold.
needsRefresh == \E v \in Vtxos : vtxo[v] = "due"

\* The inputs of a round: all there are, or as many as a settlement takes.
Batches == IF Cardinality(Here) <= Cap THEN {Here} ELSE {b \in SUBSET Here : Cardinality(b) = Cap}

settle(s) ==
    \E b \in Batches :
        /\ rnd' = [rnd EXCEPT ![s] = [on |-> TRUE, batch |-> b, age |-> 0, bad |-> refusing]]
        /\ wait' = [v \in Vtxos |-> IF v \in b THEN wait[v] ELSE 0]

\* The interval fires. A failed read is 'idle': the next pass looks again.
runAutoRefreshPass ==
    /\ next = 0 /\ next' = Tick
    /\ \/ (busy \/ quiet > 0 \/ refusing \/ ~needsRefresh) /\ UNCHANGED <<busy, rnd, wait>>
       \/ ~busy /\ quiet = 0 /\ needsRefresh /\ busy' = TRUE /\ settle("auto")
    /\ UNCHANGED <<vtxo, quiet, refusing>>

\* POST /refresh; arkd defers the intent when nothing is due.
PressRefresh ==
    /\ ~rnd["button"].on /\ needsRefresh /\ settle("button")
    /\ UNCHANGED <<vtxo, busy, quiet, next, refusing>>

\* A round commits if the server carried it and its inputs are still there.
Commits(s) == ~rnd[s].bad /\ rnd[s].batch \subseteq Here

\* The silence that an outcome asks for; the flag is cleared in any case.
passOverBusy(outcome) ==
    /\ quiet' = IF outcome = "failed" THEN FailQuiet ELSE DoneQuiet
    /\ busy' = (outcome = "failed")
passOver(outcome) ==
    /\ quiet' = IF outcome = "failed" THEN FailQuiet ELSE DoneQuiet
    /\ busy' = FALSE

folded(s) ==
    /\ vtxo' = [v \in Vtxos |-> IF v \in rnd[s].batch THEN "absent" ELSE vtxo[v]]
    /\ wait' = [v \in Vtxos |-> IF v \in rnd[s].batch THEN 0 ELSE wait[v]]

autoRefreshPass ==
    /\ rnd["auto"].on
    /\ \/ Commits("auto") /\ folded("auto") /\ passOver("refreshed")
       \/ ~Commits("auto") /\ UNCHANGED <<vtxo, wait>> /\ passOver("failed")
    /\ rnd' = [rnd EXCEPT !["auto"] = Idle]
    /\ UNCHANGED <<next, refusing>>

ButtonDone ==
    /\ rnd["button"].on
    /\ \/ Commits("button") /\ folded("button")
       \/ ~Commits("button") /\ UNCHANGED <<vtxo, wait>>
    /\ rnd' = [rnd EXCEPT !["button"] = Idle]
    /\ UNCHANGED <<busy, quiet, next, refusing>>

-----------------------------------------------------------------------------
(* External: vtxos come in, age and are spent, and the server goes away and comes back. *)

Receives(v) ==
    /\ vtxo[v] = "absent" /\ vtxo' = [vtxo EXCEPT ![v] = "early"]
    /\ UNCHANGED <<wait, rnd, busy, quiet, next, refusing>>

FallsDue(v) ==
    /\ vtxo[v] = "early" /\ vtxo' = [vtxo EXCEPT ![v] = "due"]
    /\ UNCHANGED <<wait, rnd, busy, quiet, next, refusing>>

\* A payment. The round of a pass that holds the vtxo is broken.
Spends(v) ==
    /\ vtxo[v] # "absent" /\ vtxo' = [vtxo EXCEPT ![v] = "absent"]
    /\ wait' = [w \in Vtxos |-> IF w = v \/ {v, w} \subseteq rnd["auto"].batch THEN 0 ELSE wait[w]]
    /\ UNCHANGED <<rnd, busy, quiet, next, refusing>>

ServerFlips ==
    /\ refusing' = ~refusing
    /\ wait' = [v \in Vtxos |-> 0]
    /\ rnd' = [s \in Settlers |-> [rnd[s] EXCEPT !.bad = rnd[s].on]]
    /\ UNCHANGED <<vtxo, busy, quiet, next>>

RefreshTime ==
    /\ next > 0 /\ \A s \in Settlers : rnd[s].on => rnd[s].age < Round
    /\ next' = next - 1 /\ quiet' = IF quiet = 0 THEN 0 ELSE quiet - 1
    /\ rnd' = [s \in Settlers |-> [rnd[s] EXCEPT !.age = IF rnd[s].on THEN rnd[s].age + 1 ELSE 0]]
    /\ wait' = [v \in Vtxos |-> IF vtxo[v] = "due" /\ ~refusing THEN wait[v] + 1 ELSE wait[v]]
    /\ UNCHANGED <<vtxo, busy, refusing>>

RefreshNext ==
    \/ runAutoRefreshPass \/ PressRefresh \/ autoRefreshPass \/ ButtonDone
    \/ \E v \in Vtxos : Receives(v) \/ FallsDue(v) \/ Spends(v)
    \/ ServerFlips \/ RefreshTime

RefreshSpec == RefreshInit /\ [][RefreshNext]_refreshVars

-----------------------------------------------------------------------------
\* Whatever the button, failed rounds and vtxos that come in at a bad moment do, a vtxo in
\* the renewal window is renewed within LongestWait, counted while the server takes rounds
\* and since a round last left it out for being full, or a payment broke the round that held
\* it: the flag, the two silences and the interval never add up to more (index.ts:
\* runAutoRefreshPass). Rounds left out and payments are not bounded here.
RenewedInTime == \A v \in Vtxos : wait[v] <= LongestWait
=============================================================================
