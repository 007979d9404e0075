------------------------------ MODULE ExitEngine ------------------------------
(***************************************************************************)
(* The unilateral exit engine: the exit_ops rows, the queue and the single *)
(* session that unrolls one vtxo at a time, the CSV poll, the operator's   *)
(* start, sweep, boost and forget requests, and the detail page that is    *)
(* drawn from the rows.  Every request and every poll is split at the      *)
(* awaits where another one can run.  The chain and esplora are the        *)
(* environment: a sweep transaction is identified by what it spends, where *)
(* it pays and its fee (the rebuild of the same spend at the same fee is   *)
(* the same transaction), and the node takes a conflicting one only for a  *)
(* higher fee.                                                             *)
(***************************************************************************)
EXTENDS Naturals, Sequences, FiniteSets

CONSTANTS
  None,       \* no vtxo
  Vtxos,      \* the vtxos of the vault
  Txs,        \* the pre-signed transactions of their chains
  ChainOf,    \* [Vtxos -> Seq(Txs)], in broadcast order; the last one is the vtxo's own
  AncestorsOf, \* [Txs -> SUBSET Txs], what each spends from, directly or not
  Dropped,    \* the ones arkd stops listing without evidence
  Dests,      \* destinations of a sweep: the fuel address, a verified address
  Calls,      \* concurrent sweep / boost requests
  MaxFee,     \* bound on the fee of a sweep: above it the fee would eat the value
  MaxSweeps,  \* bound on different sweep transactions
  MaxStarts,  \* bound on start requests
  MaxCrashes  \* bound on process deaths

ASSUME ChainAssumption == ChainOf \in [Vtxos -> Seq(Txs)] /\ \A v \in Vtxos : ChainOf[v] # <<>>
ASSUME BoundsAssumption == MaxFee \in Nat \ {0} /\ MaxSweeps \in Nat /\ MaxStarts \in Nat /\ MaxCrashes \in Nat

NoTx == [dest |-> "none", fee |-> 0]

\* arkd walks from the vtxo's own transaction to its ancestors and lists what it
\* meets; a transaction it meets twice is found in a block the second time, so it
\* counts where it is listed first.  Branches may stand in any order, vtxos may
\* share any part of them, and an ancestor may be missing from the list.
ASSUME AncestorsAssumption ==
  /\ AncestorsOf \in [Txs -> SUBSET Txs]
  /\ \A v \in Vtxos : \A i, j \in DOMAIN ChainOf[v] :
       /\ ChainOf[v][i] = ChainOf[v][j] => i = j
       /\ i < Len(ChainOf[v]) => ChainOf[v][i] \in AncestorsOf[ChainOf[v][Len(ChainOf[v])]]
ASSUME VtxosAssumption == IsFiniteSet(Vtxos)

ASSUME NoneAssumption == None \notin Vtxos /\ "none" \notin Dests

SweepTxs == [dest : Dests, fee : 1..MaxFee]

VARIABLES
  chain,    \* [Txs -> where the node has the transaction]
  csv,      \* vtxos whose exit timelock has elapsed
  op,       \* exit_ops: [Vtxos -> [state, sweep, dest]]
  vault,    \* vtxos that have an exit_vtxos row
  flagged,  \* quarantined rows
  active,   \* the vtxo of the running session
  queue,    \* exits waiting for their turn
  checking, \* the running session is done and asks for its timelock
  late,     \* CSV checks whose answer (elapsed) has not been written yet
  call,     \* [Calls -> a sweep or boost request in flight]
  spend,    \* [Vtxos -> the sweep the node has in mempool or block]
  mined,    \* vtxos whose sweep is in a block
  taken,    \* [Vtxos -> every sweep the node ever accepted]
  stopped,  \* stop() was called
  up,       \* the process runs
  starts, crashes,
  raced     \* history: a start hit the last check of its own session

env == <<chain, csv, spend, mined, taken>>
engine == <<active, queue, checking, late, call, stopped, up>>
vars == <<env, op, vault, flagged, engine, starts, crashes, raced>>

OpStates == {"none", "unrolling", "waiting", "sweepable", "swept", "failed"}
Idle == [kind |-> "idle", v |-> None, dest |-> "none", floor |-> 0, tx |-> NoTx]
CallType ==
  [kind : {"idle", "sweep", "boost", "sweepSent", "boostSent"}, v : Vtxos \cup {None},
   dest : Dests \cup {"none"}, floor : 0..(MaxFee + 1), tx : SweepTxs \cup {NoTx}]

TypeOK ==
  /\ chain \in [Txs -> {"absent", "mempool", "confirmed"}]
  /\ csv \subseteq Vtxos /\ vault \subseteq Vtxos /\ flagged \subseteq vault
  /\ op \in [Vtxos -> [state : OpStates, sweep : SweepTxs \cup {NoTx}, dest : Dests \cup {"none"}]]
  /\ active \in Vtxos \cup {None} /\ queue \in Seq(Vtxos) /\ checking \in BOOLEAN
  /\ late \subseteq Vtxos /\ call \in [Calls -> CallType]
  /\ spend \in [Vtxos -> SweepTxs \cup {NoTx}] /\ mined \subseteq Vtxos
  /\ taken \in [Vtxos -> SUBSET SweepTxs]
  /\ stopped \in BOOLEAN /\ up \in BOOLEAN /\ raced \subseteq Vtxos
  /\ starts \in 0..MaxStarts /\ crashes \in 0..MaxCrashes

Init ==
  /\ chain = [t \in Txs |-> "absent"] /\ csv = {}
  /\ op = [v \in Vtxos |-> [state |-> "none", sweep |-> NoTx, dest |-> "none"]]
  /\ vault = Vtxos /\ flagged = {}
  /\ active = None /\ queue = <<>> /\ checking = FALSE /\ late = {}
  /\ call = [c \in Calls |-> Idle]
  /\ spend = [v \in Vtxos |-> NoTx] /\ mined = {} /\ taken = [v \in Vtxos |-> {}]
  /\ stopped = FALSE /\ up = TRUE /\ starts = 0 /\ crashes = 0 /\ raced = {}

-----------------------------------------------------------------------------
\* The rows.

\* setExitOpState: the new state is written whatever the old one was.
setExitOpState(v, s) == op' = [op EXCEPT ![v].state = s]

\* createOrRestartExitOp: a new row, or the old one reset; the sweep stays.
createOrRestartExitOp(v) == op' = [op EXCEPT ![v].state = "unrolling"]

\* The same write with a sweep: COALESCE keeps the columns it is not given.
setSwept(v, tx) == op' = [op EXCEPT ![v] = [state |-> "swept", sweep |-> tx, dest |-> tx.dest]]

Confirmed(v) == \A i \in DOMAIN ChainOf[v] : chain[ChainOf[v][i]] = "confirmed"
Leaf(v) == ChainOf[v][Len(ChainOf[v])]

\* Mutant: the confirmation alone is enough.
leafConfirmed(v) == chain[Leaf(v)] = "confirmed"

\* availableExitPath: the leaf is in a block and its timelock has run out.
availableExitPath(v) == chain[Leaf(v)] = "confirmed" /\ v \in csv

-----------------------------------------------------------------------------
\* The queue and the session.

InQueue(v) == \E i \in DOMAIN queue : queue[i] = v

\* Mutant: enqueue forgets the exit when another one is running.
enqueueIdle(v) ==
  IF active = None /\ ~stopped THEN active' = v /\ UNCHANGED queue ELSE UNCHANGED <<active, queue>>

\* enqueue and drain: a vtxo that is queued or running is not queued again; an
\* idle engine takes it at once.
enqueue(v) ==
  IF active = v \/ InQueue(v) THEN UNCHANGED <<active, queue>>
  ELSE IF active = None /\ ~stopped THEN active' = v /\ UNCHANGED queue
  ELSE queue' = Append(queue, v) /\ UNCHANGED active

\* startExit: the row is reset first, the queue decides afterwards.
startExit(v) ==
  /\ up /\ starts < MaxStarts
  /\ starts' = starts + 1
  /\ createOrRestartExitOp(v)
  /\ enqueue(v)
  /\ raced' = IF active = v /\ checking THEN raced \cup {v} ELSE raced
  /\ UNCHANGED <<env, vault, flagged, checking, late, call, stopped, up, crashes>>

\* The end of runOp and the next turn of drain.
nextOp ==
  /\ checking' = FALSE
  /\ IF queue = <<>> \/ stopped THEN active' = None /\ UNCHANGED queue
     ELSE active' = Head(queue) /\ queue' = Tail(queue)

Running == up /\ active # None

\* The first transaction of the chain that is not in a block, when it has not
\* been broadcast.
Due(v, i) ==
  /\ \A j \in 1..(i - 1) : chain[ChainOf[v][j]] = "confirmed"
  /\ chain[ChainOf[v][i]] = "absent"

\* The node takes a package only when what it spends is there.
Spendable(t) == \A u \in AncestorsOf[t] : chain[u] = "confirmed"

\* One step of the session: the due transaction is broadcast with its CPFP
\* child, from the proofs of the vault.
RunUnroll ==
  /\ Running /\ ~checking /\ active \in vault
  /\ \E i \in DOMAIN ChainOf[active] :
       /\ Due(active, i) /\ Spendable(ChainOf[active][i])
       /\ chain' = [chain EXCEPT ![ChainOf[active][i]] = "mempool"]
  /\ setExitOpState(active, "unrolling")
  /\ IF stopped THEN nextOp ELSE UNCHANGED <<active, queue, checking>>
  /\ UNCHANGED <<csv, spend, mined, taken, vault, flagged, late, call, stopped, up, starts, crashes, raced>>

\* DONE: every transaction of the chain is in a block.
RunDone ==
  /\ Running /\ ~checking /\ Confirmed(active)
  /\ IF stopped
     THEN setExitOpState(active, "unrolling") /\ nextOp
     ELSE setExitOpState(active, "waiting") /\ checking' = TRUE /\ UNCHANGED <<active, queue>>
  /\ UNCHANGED <<env, vault, flagged, late, call, stopped, up, starts, crashes, raced>>

\* checkWaiting of the session that is done.
RunCheck ==
  /\ Running /\ checking
  /\ IF active \in vault /\ availableExitPath(active)
     THEN setExitOpState(active, "sweepable")
     ELSE UNCHANGED op
  /\ nextOp
  /\ UNCHANGED <<env, vault, flagged, late, call, stopped, up, starts, crashes, raced>>

\* No vault row, no fuel, a package the node refuses, or esplora fails: the
\* catch of runOp.
RunFails ==
  /\ Running
  /\ setExitOpState(active, "failed")
  /\ nextOp
  /\ UNCHANGED <<env, vault, flagged, late, call, stopped, up, starts, crashes, raced>>

-----------------------------------------------------------------------------
\* Mutant: the poll looks only at rows that are already sweepable.
PollReadsSweepable(v) ==
  /\ up /\ ~stopped
  /\ op[v].state = "sweepable" /\ v \in vault /\ availableExitPath(v)
  /\ late' = late \cup {v}
  /\ UNCHANGED <<env, op, vault, flagged, active, queue, checking, call, stopped, up, starts, crashes, raced>>

\* The CSV poll: checkWaiting reads, and writes when the last answer is in.

PollReads(v) ==
  /\ up /\ ~stopped
  /\ op[v].state = "waiting" /\ v \in vault /\ availableExitPath(v)
  /\ late' = late \cup {v}
  /\ UNCHANGED <<env, op, vault, flagged, active, queue, checking, call, stopped, up, starts, crashes, raced>>

PollWrites(v) ==
  /\ up /\ v \in late
  /\ late' = late \ {v}
  /\ setExitOpState(v, "sweepable")
  /\ UNCHANGED <<env, vault, flagged, active, queue, checking, call, stopped, up, starts, crashes, raced>>

-----------------------------------------------------------------------------
\* Sweeps and their replacement.

\* The sweep request: only a sweepable row passes.  The engine takes a list of
\* them; its one caller, the page of a vtxo, gives it that vtxo, so a boost finds
\* one row with the sweep's txid.
SweepCall(c, v, d) ==
  /\ up /\ call[c] = Idle
  /\ op[v].state = "sweepable"
  /\ call' = [call EXCEPT ![c] = [Idle EXCEPT !.kind = "sweep", !.v = v, !.dest = d]]
  /\ UNCHANGED <<env, op, vault, flagged, active, queue, checking, late, stopped, up, starts, crashes, raced>>

\* The boost request: what it can read of the recorded sweep decides the floor.
\* A confirmed sweep ends the request, and so does one that is known to be in
\* the mempool without a readable fee; a sweep nobody knows has no floor.  Both
\* reads failing looks the same as an evicted sweep.
InMempool(v, tx) == spend[v] = tx /\ v \notin mined
BoostFloors(v) == {0} \cup IF InMempool(v, op[v].sweep) THEN {op[v].sweep.fee + 1} ELSE {}

BoostCall(c, v) ==
  /\ up /\ call[c] = Idle
  /\ op[v].state = "swept" /\ op[v].sweep # NoTx
  /\ \E f \in BoostFloors(v) :
       call' = [call EXCEPT ![c] = [Idle EXCEPT !.kind = "boost", !.v = v, !.dest = op[v].dest, !.floor = f]]
  /\ UNCHANGED <<env, op, vault, flagged, active, queue, checking, late, stopped, up, starts, crashes, raced>>

\* buildSweepTx: the row of the vault, the timelock, a fee at the current rate
\* and never below the floor.
buildSweepTx(r) ==
  IF r.v \in vault /\ availableExitPath(r.v)
  THEN { t \in SweepTxs : t.dest = r.dest /\ t.fee >= r.floor }
  ELSE {}

\* The node's rule: a conflicting spend replaces only for a higher fee.
Accepts(v, tx) == spend[v] = NoTx \/ spend[v] = tx \/ (v \notin mined /\ tx.fee > spend[v].fee)

\* The broadcast.  A refused replacement may come back as success; confirmInMempool
\* then looks for the transaction itself, so the request ends there.
Broadcast(c) ==
  /\ up /\ call[c].kind \in {"sweep", "boost"}
  /\ LET v == call[c].v IN
       \E tx \in buildSweepTx(call[c]) :
         /\ Accepts(v, tx)
         /\ tx \in taken[v] \/ Cardinality(UNION {{w} \X taken[w] : w \in Vtxos}) < MaxSweeps
         /\ spend' = [spend EXCEPT ![v] = tx]
         /\ taken' = [taken EXCEPT ![v] = @ \cup {tx}]
         /\ call' = [call EXCEPT ![c].kind = IF @ = "sweep" THEN "sweepSent" ELSE "boostSent", ![c].tx = tx]
  /\ UNCHANGED <<chain, csv, mined, op, vault, flagged, active, queue, checking, late, stopped, up, starts, crashes, raced>>

\* The rows after the broadcast.
RecordSweep(c) ==
  /\ up /\ call[c].kind \in {"sweepSent", "boostSent"}
  /\ setSwept(call[c].v, call[c].tx)
  /\ call' = [call EXCEPT ![c] = Idle]
  /\ UNCHANGED <<env, vault, flagged, active, queue, checking, late, stopped, up, starts, crashes, raced>>

\* A request that throws: at a read, at the broadcast, or, for a boost, because
\* the replacement did not show up.  A sweep that was broadcast cannot throw.
CallFails(c) ==
  /\ up /\ call[c].kind \in {"sweep", "boost", "boostSent"}
  /\ call' = [call EXCEPT ![c] = Idle]
  /\ UNCHANGED <<env, op, vault, flagged, active, queue, checking, late, stopped, up, starts, crashes, raced>>

-----------------------------------------------------------------------------
\* The vault, as far as it decides over exits.

\* arkd drops a vtxo without evidence: the proof sync flags the row, unless an
\* exit owns it.
Quarantine(v) ==
  /\ up /\ v \in (vault \cap Dropped) \ flagged /\ op[v].state \in {"none", "failed"}
  /\ flagged' = flagged \cup {v}
  /\ UNCHANGED <<env, op, vault, engine, starts, crashes, raced>>

\* The garbage collection takes a swept exit as its own evidence.
CollectSwept(v) ==
  /\ up /\ v \in vault /\ op[v].state = "swept"
  /\ vault' = vault \ {v} /\ flagged' = flagged \ {v}
  /\ UNCHANGED <<env, op, engine, starts, crashes, raced>>

\* The operator drops a flagged row, whatever its exit is doing.
Forget(v) ==
  /\ up /\ v \in flagged
  /\ vault' = vault \ {v} /\ flagged' = flagged \ {v}
  /\ UNCHANGED <<env, op, engine, starts, crashes, raced>>

-----------------------------------------------------------------------------
\* The chain.

Mine(t) ==
  /\ chain[t] = "mempool"
  /\ chain' = [chain EXCEPT ![t] = "confirmed"]
  /\ UNCHANGED <<csv, spend, mined, taken, op, vault, flagged, engine, starts, crashes, raced>>

CsvElapses(v) ==
  /\ chain[Leaf(v)] = "confirmed" /\ v \notin csv
  /\ csv' = csv \cup {v}
  /\ UNCHANGED <<chain, spend, mined, taken, op, vault, flagged, engine, starts, crashes, raced>>

MineSweep(v) ==
  /\ spend[v] # NoTx /\ v \notin mined
  /\ mined' = mined \cup {v}
  /\ UNCHANGED <<chain, csv, spend, taken, op, vault, flagged, engine, starts, crashes, raced>>

EvictSweep(v) ==
  /\ spend[v] # NoTx /\ v \notin mined
  /\ spend' = [spend EXCEPT ![v] = NoTx]
  /\ UNCHANGED <<chain, csv, mined, taken, op, vault, flagged, engine, starts, crashes, raced>>

-----------------------------------------------------------------------------
\* The process.

stop ==
  /\ up /\ ~stopped /\ crashes < MaxCrashes
  /\ stopped' = TRUE
  /\ UNCHANGED <<env, op, vault, flagged, active, queue, checking, late, call, up, starts, crashes, raced>>

Crash ==
  /\ up /\ crashes < MaxCrashes
  /\ crashes' = crashes + 1 /\ up' = FALSE
  /\ active' = None /\ queue' = <<>> /\ checking' = FALSE /\ late' = {}
  /\ call' = [c \in Calls |-> Idle]
  /\ UNCHANGED <<env, op, vault, flagged, stopped, starts, raced>>

\* resume: every unrolling row is queued again (the order is that of the rows);
\* the waiting ones are checked by the poll.
resume ==
  /\ ~up
  /\ up' = TRUE /\ stopped' = FALSE /\ raced' = {}
  /\ LET todo == {v \in Vtxos : op[v].state = "unrolling"}
     IN IF todo = {} THEN UNCHANGED <<active, queue>>
        ELSE \E s \in [1..Cardinality(todo) -> todo] :
               /\ \A v \in todo : \E i \in DOMAIN s : s[i] = v
               /\ active' = Head(s) /\ queue' = Tail(s)
  /\ UNCHANGED <<env, op, vault, flagged, checking, late, call, starts, crashes>>

-----------------------------------------------------------------------------
\* What the session cannot get past: it throws.
Blocked ==
  Running /\ (active \notin vault
              \/ \E i \in DOMAIN ChainOf[active] : Due(active, i) /\ ~Spendable(ChainOf[active][i]))

Session == RunUnroll \/ RunDone \/ RunCheck
Operator ==
  \/ \E v \in Vtxos : startExit(v) \/ Forget(v)
  \/ \E c \in Calls, v \in Vtxos : BoostCall(c, v) \/ \E d \in Dests : SweepCall(c, v, d)
Requests == \E c \in Calls : Broadcast(c) \/ RecordSweep(c) \/ CallFails(c)
Sync == \E v \in Vtxos : PollReads(v) \/ PollWrites(v) \/ Quarantine(v) \/ CollectSwept(v)
Chain == (\E t \in Txs : Mine(t)) \/ \E v \in Vtxos : CsvElapses(v) \/ MineSweep(v) \/ EvictSweep(v)

Next == Session \/ RunFails \/ Operator \/ Requests \/ Sync \/ Chain \/ stop \/ Crash \/ resume

Spec == Init /\ [][Next]_vars

\* The engine runs and its awaits end, the poll fires again and again, blocks
\* come, and a process that died or was stopped is started again.
LiveSpec ==
  /\ Spec
  /\ WF_vars(Session) /\ WF_vars(Blocked /\ RunFails) /\ WF_vars(resume) /\ WF_vars(stopped /\ Crash)
  /\ \A v \in Vtxos : WF_vars(PollReads(v)) /\ WF_vars(PollWrites(v)) /\ WF_vars(CsvElapses(v))
  /\ \A t \in Txs : WF_vars(Mine(t))
-----------------------------------------------------------------------------
\* The detail page, drawn from the row alone (buildExitStepper).

Unrolled(v) == op[v].state \in {"waiting", "sweepable", "swept"}
ShownStep(v, t) == IF Unrolled(v) THEN "confirmed" ELSE "pending"
ShownWait(v) ==
  IF op[v].state \in {"sweepable", "swept"} THEN "sweepable"
  ELSE IF op[v].state = "waiting" THEN "running" ELSE "pending"
ShownSweep(v) ==
  IF op[v].state = "swept" THEN "done"
  ELSE IF ShownWait(v) = "sweepable" THEN "sweepable" ELSE "pending"

\* The page then asks for one step after the other and stops at the first one
\* that is not in a block; the steps behind it stay as they were drawn.
Probed(v) ==
  IF Unrolled(v) THEN {}
  ELSE {i \in DOMAIN ChainOf[v] : \A j \in 1..(i - 1) : chain[ChainOf[v][j]] = "confirmed"}

\* No other vtxo's chain lists it, so no other exit broadcasts it.
OwnTx(v, t) == \A w \in Vtxos \ {v} : \A k \in DOMAIN ChainOf[w] : ChainOf[w][k] # t

\* What the page shows without asking the chain is true of the chain: a step
\* drawn as confirmed is in a block, side branches included, a wait drawn as over
\* is over, and a sweep drawn as done is a transaction the node took, paying the
\* address of the row.  The probes stop early: nothing of the vtxo's own behind
\* the stop has been broadcast.  (What another vtxo's exit shares may be in a
\* block behind the stop, and is drawn as pending: see the README.)
PageIsTrue ==
  \A v \in Vtxos :
    /\ \A i \in DOMAIN ChainOf[v] : LET t == ChainOf[v][i] IN
         /\ ShownStep(v, t) = "confirmed" => chain[t] = "confirmed"
         /\ ShownStep(v, t) = "pending" /\ i \notin Probed(v) /\ OwnTx(v, t) => chain[t] = "absent"
    /\ ShownWait(v) = "sweepable" => v \in csv
    /\ ShownSweep(v) = "done" => op[v].sweep \in taken[v] /\ op[v].dest = op[v].sweep.dest

\* An exit that says it is unrolling has a session or waits for one: nobody else
\* would pick it up before the next restart.  The exception is a start that hits
\* the last check of the session of the same vtxo.
Attended(v) == active = v \/ InQueue(v)
NoStrandedExit ==
  \A v \in Vtxos : up /\ ~stopped /\ op[v].state = "unrolling" => Attended(v) \/ v \in raced

\* Every exit that was started comes to the point where the operator can sweep,
\* or is shown as failed: across restarts, whatever else is queued.
EveryExitEnds ==
  \A v \in Vtxos :
    op[v].state \in {"unrolling", "waiting"}
      ~> (op[v].state \notin {"unrolling", "waiting"} \/ v \in raced \/ v \notin vault)
=============================================================================
