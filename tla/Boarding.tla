------------------------------ MODULE Boarding -------------------------------
(***************************************************************************)
(* The watcher of on-chain deposits (boarding_history.ts, the 60 s passes  *)
(* of index.ts): it records a deposit when its outpoint appears among the  *)
(* boarding utxos and settles the row when the outpoint is spent.          *)
(*                                                                         *)
(* Conversion is the SDK's: it settles a boarding utxo into the wallet, or *)
(* rotates an expired one into a fresh boarding utxo, which is no new      *)
(* deposit. A pass reads the list, then the table, then asks esplora about *)
(* one outpoint at a time; the wallet moves on in between, lists may be    *)
(* short and esplora may not answer. A bring-up that fails leaves its      *)
(* running pass behind (boardingPassRunning is local to the attempt).      *)
(*                                                                         *)
(* Assumed: an outpoint rotates only after a pass saw it (passes are a     *)
(* minute apart, the boarding timelock is months). Left out: amounts,      *)
(* notes to the operator, a kill between two statements of one pass.       *)
(***************************************************************************)
EXTENDS Naturals, FiniteSets

CONSTANTS
    Deposits,      \* outpoints that others fund
    Rotations,     \* outpoints that the SDK's expired-boarding sweep creates
    NoOutpoint,
    MaxRestarts

ASSUME BoardingAssumption ==
    Deposits \cap Rotations = {} /\ NoOutpoint \notin Deposits \cup Rotations /\ MaxRestarts \in Nat

Outpoints == Deposits \cup Rotations
Kinds == {"none", "baseline", "deposit", "sweep", "spent"}
Passes == {"current", "stray"}

VARIABLES
    coin,          \* the boarding outpoint on the chain
    from,          \* what a rotation spent
    init,          \* the sentinel row of boarding_seen
    seen,          \* the kind boarding_seen records
    onboard,       \* the onboard history row
    at,            \* where a pass is
    list,          \* the boarding utxos it was given
    snap,          \* the kinds it read
    todo,          \* the outpoints it has left
    blind,         \* recorded while esplora did not answer
    restarts

boardingVars == <<coin, from, init, seen, onboard, at, list, snap, todo, blind, restarts>>

BoardingTypeOK ==
    /\ coin \in [Outpoints -> {"none", "unspent", "spent"}]
    /\ from \in [Rotations -> Outpoints \cup {NoOutpoint}]
    /\ init \in BOOLEAN /\ seen \in [Outpoints -> Kinds]
    /\ onboard \in [Outpoints -> {"none", "pending", "settled"}]
    /\ at \in [Passes -> {"idle", "listed", "arrive", "leave"}]
    /\ list \in [Passes -> SUBSET Outpoints] /\ todo \in [Passes -> SUBSET Outpoints]
    /\ snap \in [Passes -> [Outpoints -> Kinds]]
    /\ blind \subseteq Outpoints /\ restarts \in 0..MaxRestarts

BoardingInit ==
    /\ coin \in [Outpoints -> {"none", "unspent"}] /\ \A r \in Rotations : coin[r] = "none"
    /\ from = [r \in Rotations |-> NoOutpoint]
    /\ init = FALSE /\ seen = [u \in Outpoints |-> "none"]
    /\ onboard = [u \in Outpoints |-> "none"]
    /\ at = [p \in Passes |-> "idle"]
    /\ list = [p \in Passes |-> {}] /\ todo = list
    /\ snap = [p \in Passes |-> seen]
    /\ blind = {} /\ restarts = 0

-----------------------------------------------------------------------------
(* External: deposits arrive, the SDK settles or rotates them. *)

chainVars == <<coin, from>>
passVars  == <<at, list, snap, todo>>
tableVars == <<init, seen, onboard, blind>>

Arrives(d) ==
    /\ coin[d] = "none" /\ d \in Deposits
    /\ coin' = [coin EXCEPT ![d] = "unspent"]
    /\ UNCHANGED <<from, tableVars, passVars, restarts>>

Converted(u) ==
    /\ coin[u] = "unspent"
    /\ coin' = [coin EXCEPT ![u] = "spent"]
    /\ UNCHANGED <<from, tableVars, passVars, restarts>>

Rotated(u, r) ==
    /\ coin[u] = "unspent" /\ seen[u] # "none" /\ coin[r] = "none"
    /\ coin' = [coin EXCEPT ![u] = "spent", ![r] = "unspent"]
    /\ from' = [from EXCEPT ![r] = u]
    /\ UNCHANGED <<tableVars, passVars, restarts>>

-----------------------------------------------------------------------------
(* One pass of the watcher. *)

Unseen == [u \in Outpoints |-> "none"]

\* The pass returns: what it read is gone.
returns(p) ==
    /\ at' = [at EXCEPT ![p] = "idle"]
    /\ list' = [list EXCEPT ![p] = {}] /\ todo' = [todo EXCEPT ![p] = {}]
    /\ snap' = [snap EXCEPT ![p] = Unseen]

\* getBoardingUtxos answers, perhaps with a short list (a throw is no step).
runBoardingPass ==
    /\ at["current"] = "idle"
    /\ \E some \in SUBSET {u \in Outpoints : coin[u] = "unspent"} :
          list' = [list EXCEPT !["current"] = some]
    /\ at' = [at EXCEPT !["current"] = "listed"]
    /\ UNCHANGED <<chainVars, tableVars, snap, todo, restarts>>

\* The first pass ever takes the set as it is and records nothing.
Baseline(p) ==
    /\ at[p] = "listed" /\ ~init
    /\ init' = TRUE
    /\ seen' = [u \in Outpoints |-> IF u \in list[p] THEN "baseline" ELSE seen[u]]
    /\ returns(p)
    /\ UNCHANGED <<chainVars, onboard, blind, restarts>>

Look(p) ==
    /\ at[p] = "listed" /\ init
    /\ snap' = [snap EXCEPT ![p] = seen]
    /\ todo' = [todo EXCEPT ![p] = {u \in list[p] : seen[u] = "none"}]
    /\ at' = [at EXCEPT ![p] = "arrive"]
    /\ UNCHANGED <<chainVars, tableVars, list, restarts>>

\* A utxo that one of our own boarding outpoints funded is a rotation.
isSweepNever(p, u, answered) == FALSE
isSweep(p, u, answered) ==
    answered /\ u \in Rotations /\ snap[p][from[u]] # "none"

\* An insert that ignores an existing row; an update of a pending row only.
recordOnboardPending(row) == IF row = "none" THEN "pending" ELSE row
settleOnboard(row) == IF row = "pending" THEN "settled" ELSE row

Arrival(p, u) ==
    /\ at[p] = "arrive" /\ u \in todo[p]
    /\ todo' = [todo EXCEPT ![p] = @ \ {u}]
    /\ \E answered \in BOOLEAN :
          /\ seen' = [seen EXCEPT ![u] = IF isSweep(p, u, answered) THEN "sweep" ELSE "deposit"]
          /\ onboard' = [onboard EXCEPT ![u] =
                IF isSweep(p, u, answered) THEN @ ELSE recordOnboardPending(@)]
          /\ blind' = IF answered THEN blind ELSE blind \cup {u}
    /\ UNCHANGED <<chainVars, init, at, list, snap, restarts>>

ToDepartures(p) ==
    /\ at[p] = "arrive" /\ todo[p] = {}
    /\ at' = [at EXCEPT ![p] = "leave"]
    /\ todo' = [todo EXCEPT ![p] =
          {u \in Outpoints \ list[p] : snap[p][u] \in {"deposit", "sweep", "baseline"}}]
    /\ UNCHANGED <<chainVars, tableVars, list, snap, restarts>>

\* Esplora says spent, says unspent, or does not answer. Only the first is believed.
saysSpent(u) == coin[u] = "spent"

Departure(p, u) ==
    /\ at[p] = "leave" /\ u \in todo[p] /\ saysSpent(u)
    /\ todo' = [todo EXCEPT ![p] = @ \ {u}]
    /\ seen' = [seen EXCEPT ![u] = "spent"]
    /\ onboard' = [onboard EXCEPT ![u] =
          IF snap[p][u] = "deposit" THEN settleOnboard(@) ELSE @]
    /\ UNCHANGED <<chainVars, init, blind, at, list, snap, restarts>>

NotDeparted(p, u) ==
    /\ at[p] = "leave" /\ u \in todo[p]
    /\ todo' = [todo EXCEPT ![p] = @ \ {u}]
    /\ UNCHANGED <<chainVars, tableVars, at, list, snap, restarts>>

PassOver(p) ==
    /\ at[p] = "leave" /\ todo[p] = {}
    /\ returns(p)
    /\ UNCHANGED <<chainVars, tableVars, restarts>>

-----------------------------------------------------------------------------
\* A bring-up fails after its pass began: the interval is cleared, the pass runs on.
BringUpFails ==
    /\ restarts < MaxRestarts /\ restarts' = restarts + 1
    /\ at["current"] # "idle" /\ at["stray"] = "idle"
    /\ at' = [at EXCEPT !["stray"] = at["current"], !["current"] = "idle"]
    /\ list' = [list EXCEPT !["stray"] = list["current"], !["current"] = {}]
    /\ snap' = [snap EXCEPT !["stray"] = snap["current"], !["current"] = Unseen]
    /\ todo' = [todo EXCEPT !["stray"] = todo["current"], !["current"] = {}]
    /\ UNCHANGED <<chainVars, tableVars>>

\* The process dies at an await; boarding_seen and the history survive.
Dies ==
    /\ restarts < MaxRestarts /\ restarts' = restarts + 1
    /\ at' = [p \in Passes |-> "idle"]
    /\ list' = [p \in Passes |-> {}] /\ todo' = [p \in Passes |-> {}]
    /\ snap' = [p \in Passes |-> Unseen]
    /\ UNCHANGED <<chainVars, tableVars>>

PassStep(p) ==
    \/ Baseline(p) \/ Look(p) \/ ToDepartures(p) \/ PassOver(p)
    \/ \E u \in Outpoints : Arrival(p, u) \/ Departure(p, u) \/ NotDeparted(p, u)

BoardingNext ==
    \/ \E u \in Outpoints : Arrives(u) \/ Converted(u)
    \/ \E u \in Outpoints, r \in Rotations : Rotated(u, r)
    \/ runBoardingPass \/ BringUpFails \/ Dies
    \/ \E p \in Passes : PassStep(p)

BoardingSpec == BoardingInit /\ [][BoardingNext]_boardingVars

-----------------------------------------------------------------------------
\* The outpoints that descend from a deposit by rotation, over any number of generations.
Lineage(d) ==
    LET Closed(S) == d \in S /\ \A r \in Rotations : from[r] \in S => r \in S
    IN  {u \in Outpoints : \A S \in SUBSET Outpoints : Closed(S) => u \in S}

\* A deposit is announced once however often it rotates and whatever two overlapping
\* passes see of it; a row settles only when its outpoint was spent; and a pending row is
\* still watched, so that a later pass settles it (boarding_history.ts:
\* reconcileBoardingHistory). Excepted is a rotation classified while esplora was silent.
BoardingIsTrue ==
    /\ \A d \in Deposits : Cardinality({u \in Lineage(d) \ blind : onboard[u] # "none"}) <= 1
    /\ \A u \in Outpoints : onboard[u] = "settled" => coin[u] = "spent"
    /\ \A u \in Outpoints : seen[u] = "deposit" => onboard[u] # "none"
    /\ \A u \in Outpoints \ (Rotations \cap blind) : onboard[u] = "pending" => seen[u] = "deposit"
=============================================================================
