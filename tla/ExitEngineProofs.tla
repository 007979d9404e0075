-------------------------- MODULE ExitEngineProofs --------------------------
(***************************************************************************)
(* Proofs about ExitEngine for any vtxos and chains, any number of         *)
(* concurrent requests, starts, sweeps and crashes.                        *)
(***************************************************************************)
EXTENDS ExitEngine, FiniteSetTheorems, TLAPS

\* A transaction is broadcast only behind confirmed ancestors, one that a single
\* vtxo lists only behind all that is listed before it, and a timelock runs only
\* on a chain that is in blocks.
ChainInv ==
  /\ \A t \in Txs : chain[t] # "absent" => \A u \in AncestorsOf[t] : chain[u] = "confirmed"
  /\ \A v \in Vtxos : \A i \in DOMAIN ChainOf[v] : \A j \in 1..(i - 1) :
       OwnTx(v, ChainOf[v][i]) /\ chain[ChainOf[v][i]] # "absent" => chain[ChainOf[v][j]] = "confirmed"
  /\ \A v \in csv : Confirmed(v)

\* What a row says of the chain and of the sweeps the node took.
OpInv ==
  \A v \in Vtxos :
    /\ op[v].state \in {"waiting", "sweepable", "swept"} => Confirmed(v)
    /\ op[v].state \in {"sweepable", "swept"} => v \in csv
    /\ op[v].state = "swept" => op[v].sweep \in taken[v] /\ op[v].dest = op[v].sweep.dest

\* A late answer of the poll and a request past its broadcast are still true.
LateInv ==
  /\ late \subseteq csv
  /\ \A c \in Calls :
       /\ call[c].kind # "idle" => call[c].v \in Vtxos
       /\ call[c].kind \in {"sweepSent", "boostSent"} =>
            call[c].v \in csv /\ call[c].tx \in taken[call[c].v]

\* A process that is down holds nothing, the last check belongs to a session,
\* and an exit that unrolls is attended to, or was restarted during its last check.
SessionInv ==
  /\ ~up => active = None /\ queue = <<>> /\ ~checking
  /\ checking => active # None
  /\ checking => (op[active].state = "unrolling" => active \in raced)
  /\ NoStrandedExit

IInv == TypeOK /\ ChainInv /\ OpInv /\ LateInv /\ SessionInv

-----------------------------------------------------------------------------
LEMMA ChainFacts ==
  ASSUME NEW v \in Vtxos
  PROVE  /\ ChainOf[v] \in Seq(Txs) /\ Len(ChainOf[v]) \in Nat \ {0}
         /\ DOMAIN ChainOf[v] = 1..Len(ChainOf[v])
         /\ \A i \in DOMAIN ChainOf[v] : ChainOf[v][i] \in Txs
         /\ Leaf(v) \in Txs /\ Leaf(v) = ChainOf[v][Len(ChainOf[v])]
BY ChainAssumption DEF Leaf

\* The leaf is the last to be confirmed: all that is listed are its ancestors.
LEMMA LeafConfirms ==
  ASSUME TypeOK, ChainInv, NEW v \in Vtxos, chain[Leaf(v)] = "confirmed"
  PROVE  Confirmed(v)
<1> SUFFICES ASSUME NEW i \in DOMAIN ChainOf[v]
             PROVE  chain[ChainOf[v][i]] = "confirmed"
  BY DEF Confirmed
<1>1. i = Len(ChainOf[v]) \/ i < Len(ChainOf[v])
  BY ChainFacts
<1>2. CASE i = Len(ChainOf[v])
  BY <1>2, ChainFacts
<1>3. CASE i < Len(ChainOf[v])
  <2>1. ChainOf[v][i] \in AncestorsOf[Leaf(v)] /\ Leaf(v) \in Txs
    BY <1>3, ChainFacts, AncestorsAssumption
  <2> QED
    BY <2>1 DEF ChainInv
<1> QED
  BY <1>1, <1>2, <1>3

LEMMA Initially == Init => IInv
<1> SUFFICES ASSUME Init PROVE IInv
  OBVIOUS
<1>1. TypeOK
  <2>1. Idle \in CallType
    BY BoundsAssumption DEF Idle, CallType
  <2>2. call \in [Calls -> CallType]
    BY <2>1 DEF Init
  <2>3. /\ op \in [Vtxos -> [state : OpStates, sweep : SweepTxs \cup {NoTx}, dest : Dests \cup {"none"}]]
        /\ spend \in [Vtxos -> SweepTxs \cup {NoTx}] /\ taken \in [Vtxos -> SUBSET SweepTxs]
    BY DEF Init, OpStates
  <2>4. chain \in [Txs -> {"absent", "mempool", "confirmed"}] /\ queue \in Seq(Vtxos)
    BY DEF Init
  <2>5. /\ csv \subseteq Vtxos /\ vault \subseteq Vtxos /\ flagged \subseteq vault /\ mined \subseteq Vtxos
        /\ active \in Vtxos \cup {None} /\ late \subseteq Vtxos /\ raced \subseteq Vtxos
        /\ checking \in BOOLEAN /\ stopped \in BOOLEAN /\ up \in BOOLEAN
    BY DEF Init
  <2>6. starts \in 0..MaxStarts /\ crashes \in 0..MaxCrashes
    BY BoundsAssumption DEF Init
  <2> QED
    BY <2>2, <2>3, <2>4, <2>5, <2>6 DEF TypeOK
<1>2. ChainInv
  BY ChainFacts DEF Init, ChainInv
<1>3. OpInv /\ LateInv
  BY DEF Init, OpInv, LateInv, Idle
<1>4. SessionInv
  BY DEF Init, SessionInv, NoStrandedExit
<1> QED
  BY <1>1, <1>2, <1>3, <1>4 DEF IInv

-----------------------------------------------------------------------------
\* What a step may leave alone keeps its invariant.
LEMMA ChainKept ==
  ASSUME ChainInv, UNCHANGED <<chain, csv>>
  PROVE  ChainInv'
BY DEF ChainInv, Confirmed, OwnTx

LEMMA OpKept ==
  ASSUME OpInv, UNCHANGED <<chain, csv, op, taken>>
  PROVE  OpInv'
BY DEF OpInv, Confirmed

LEMMA LateKept ==
  ASSUME LateInv, UNCHANGED <<csv, late, call, taken>>
  PROVE  LateInv'
BY DEF LateInv

LEMMA SessionKept ==
  ASSUME SessionInv, UNCHANGED <<op, active, queue, checking, up, stopped, raced>>
  PROVE  SessionInv'
BY DEF SessionInv, NoStrandedExit, Attended, InQueue

\* A new state of a row that the chain bears out.
LEMMA RowWritten ==
  ASSUME TypeOK, OpInv, NEW v \in Vtxos, NEW s \in OpStates,
         setExitOpState(v, s), UNCHANGED <<chain, csv, taken>>,
         s # "swept",
         s \in {"waiting", "sweepable"} => Confirmed(v),
         s = "sweepable" => v \in csv
  PROVE  OpInv'
<1> SUFFICES ASSUME NEW w \in Vtxos
             PROVE  (/\ op[w].state \in {"waiting", "sweepable", "swept"} => Confirmed(w)
                     /\ op[w].state \in {"sweepable", "swept"} => w \in csv
                     /\ op[w].state = "swept" => op[w].sweep \in taken[w] /\ op[w].dest = op[w].sweep.dest)'
  BY DEF OpInv
<1>1. Confirmed(w)' <=> Confirmed(w)
  BY DEF Confirmed
<1>2. CASE w = v
  BY <1>1, <1>2 DEF setExitOpState, TypeOK
<1>3. CASE w # v
  BY <1>1, <1>3 DEF setExitOpState, TypeOK, OpInv
<1> QED
  BY <1>2, <1>3

LEMMA RowTyped ==
  ASSUME TypeOK, NEW v \in Vtxos, NEW s \in OpStates, setExitOpState(v, s)
  PROVE  /\ op' \in [Vtxos -> [state : OpStates, sweep : SweepTxs \cup {NoTx}, dest : Dests \cup {"none"}]]
         /\ op'[v].state = s
         /\ \A w \in Vtxos : w # v => op'[w] = op[w]
BY DEF TypeOK, setExitOpState

\* The next turn of drain: who waited still waits or is taken.
LEMMA TurnTyped ==
  ASSUME TypeOK, nextOp
  PROVE  /\ active' \in Vtxos \cup {None} /\ queue' \in Seq(Vtxos) /\ checking' = FALSE
         /\ ~stopped => \A v \in Vtxos : InQueue(v) => active' = v \/ InQueue(v)'
<1>1. CASE queue = <<>> \/ stopped
  BY <1>1 DEF nextOp, TypeOK, InQueue
<1>2. CASE ~(queue = <<>> \/ stopped)
  <2>1. active' = Head(queue) /\ queue' = Tail(queue) /\ checking' = FALSE
    BY <1>2 DEF nextOp
  <2>2. queue \in Seq(Vtxos) /\ queue # <<>>
    BY <1>2 DEF TypeOK
  <2>3. active' \in Vtxos /\ queue' \in Seq(Vtxos)
    BY <2>1, <2>2
  <2>4. ASSUME NEW v \in Vtxos, InQueue(v)
        PROVE  active' = v \/ InQueue(v)'
    <3>1. PICK i \in DOMAIN queue : queue[i] = v
      BY <2>4 DEF InQueue
    <3>2. CASE i = 1
      BY <2>1, <2>2, <3>1, <3>2
    <3>3. CASE i # 1
      <4>1. i - 1 \in DOMAIN Tail(queue) /\ Tail(queue)[i - 1] = v
        BY <2>2, <3>1, <3>3
      <4> QED
        BY <2>1, <4>1 DEF InQueue
    <3> QED
      BY <3>2, <3>3
  <2> QED
    BY <2>1, <2>3, <2>4
<1> QED
  BY <1>1, <1>2

\* The end of a session whose row no longer unrolls, or was restarted.
LEMMA TurnKeeps ==
  ASSUME TypeOK, SessionInv, nextOp, active # None, up,
         UNCHANGED <<up, stopped, raced>>,
         \A w \in Vtxos : w # active => op'[w].state = op[w].state,
         stopped \/ op'[active].state # "unrolling" \/ active \in raced
  PROVE  SessionInv'
<1>1. checking' = FALSE /\ (~stopped => \A v \in Vtxos : InQueue(v) => active' = v \/ InQueue(v)')
  BY TurnTyped
<1>2. NoStrandedExit'
  <2> SUFFICES ASSUME NEW v \in Vtxos, up', ~stopped', op'[v].state = "unrolling"
               PROVE  Attended(v)' \/ v \in raced'
    BY DEF NoStrandedExit
  <2>1. CASE v = active
    BY <2>1
  <2>2. CASE v # active
    BY <1>1, <2>2 DEF SessionInv, NoStrandedExit, Attended
  <2> QED
    BY <2>1, <2>2
<1> QED
  BY <1>1, <1>2 DEF SessionInv

-----------------------------------------------------------------------------
LEMMA UnrollKeeps == IInv /\ RunUnroll => IInv'
<1> SUFFICES ASSUME IInv, RunUnroll PROVE IInv'
  OBVIOUS
<1> USE DEF IInv
<1>1. active \in Vtxos /\ active # None
  BY DEF RunUnroll, Running, TypeOK
<1>2. PICK i \in DOMAIN ChainOf[active] :
        /\ Due(active, i) /\ Spendable(ChainOf[active][i])
        /\ chain' = [chain EXCEPT ![ChainOf[active][i]] = "mempool"]
  BY DEF RunUnroll
<1> DEFINE t == ChainOf[active][i]
<1>3. t \in Txs /\ chain[t] = "absent" /\ chain' = [chain EXCEPT ![t] = "mempool"]
  BY <1>1, <1>2, ChainFacts DEF Due
<1>4. \A u \in Txs : chain[u] = "confirmed" => chain'[u] = "confirmed"
  BY <1>3 DEF TypeOK
<1>5. \A v \in Vtxos : Confirmed(v) => Confirmed(v)'
  BY <1>4, ChainFacts DEF Confirmed
<1>6. setExitOpState(active, "unrolling") /\ "unrolling" \in OpStates
  BY DEF RunUnroll, OpStates
<1>7. TypeOK'
  <2>1. active' \in Vtxos \cup {None} /\ queue' \in Seq(Vtxos) /\ checking' \in BOOLEAN
    <3>1. CASE stopped
      BY <3>1, TurnTyped DEF RunUnroll
    <3>2. CASE ~stopped
      BY <3>2 DEF RunUnroll, TypeOK
    <3> QED
      BY <3>1, <3>2
  <2>2. chain' \in [Txs -> {"absent", "mempool", "confirmed"}]
    BY <1>3 DEF TypeOK
  <2> QED
    BY <1>1, <1>6, <2>1, <2>2, RowTyped DEF TypeOK, RunUnroll
<1>8. ChainInv'
  <2>1. \A v \in csv' : Confirmed(v)'
    BY <1>5 DEF RunUnroll, ChainInv, TypeOK
  <2>2. ASSUME NEW x \in Txs, chain'[x] # "absent", NEW u \in AncestorsOf[x]
        PROVE  chain'[u] = "confirmed"
    <3>1. u \in Txs
      BY AncestorsAssumption
    <3>2. CASE x = t
      BY <1>2, <1>4, <3>1, <3>2 DEF Spendable
    <3>3. CASE x # t
      <4>1. chain[x] # "absent"
        BY <1>3, <2>2, <3>3 DEF TypeOK
      <4> QED
        BY <1>4, <3>1, <4>1 DEF ChainInv
    <3> QED
      BY <3>2, <3>3
  <2>3. ASSUME NEW w \in Vtxos, NEW k \in DOMAIN ChainOf[w], NEW j \in 1..(k - 1),
               OwnTx(w, ChainOf[w][k]), chain'[ChainOf[w][k]] # "absent"
        PROVE  chain'[ChainOf[w][j]] = "confirmed"
    <3>1. j \in DOMAIN ChainOf[w] /\ ChainOf[w][j] \in Txs /\ ChainOf[w][k] \in Txs
      BY ChainFacts
    <3>2. CASE ChainOf[w][k] = t
      <4>1. w = active
        BY <1>1, <2>3, <3>2 DEF OwnTx
      <4>2. k = i
        BY <1>1, <3>2, <4>1, AncestorsAssumption
      <4> QED
        BY <1>2, <1>4, <3>1, <4>1, <4>2 DEF Due
    <3>3. CASE ChainOf[w][k] # t
      <4>1. chain[ChainOf[w][k]] # "absent"
        BY <1>3, <2>3, <3>1, <3>3 DEF TypeOK
      <4> QED
        BY <1>4, <2>3, <3>1, <4>1 DEF ChainInv
    <3> QED
      BY <3>2, <3>3
  <2>4. \A v \in Vtxos : \A n \in DOMAIN ChainOf[v] : OwnTx(v, ChainOf[v][n])' <=> OwnTx(v, ChainOf[v][n])
    BY DEF OwnTx
  <2> QED
    BY <2>1, <2>2, <2>3, <2>4 DEF ChainInv
<1>9. OpInv'
  <2> SUFFICES ASSUME NEW w \in Vtxos
               PROVE  (/\ op[w].state \in {"waiting", "sweepable", "swept"} => Confirmed(w)
                       /\ op[w].state \in {"sweepable", "swept"} => w \in csv
                       /\ op[w].state = "swept" => op[w].sweep \in taken[w] /\ op[w].dest = op[w].sweep.dest)'
    BY DEF OpInv
  <2>1. csv' = csv /\ taken' = taken
    BY DEF RunUnroll
  <2>2. CASE w = active
    BY <1>1, <1>6, <2>2, RowTyped
  <2>3. CASE w # active
    BY <1>1, <1>5, <1>6, <2>1, <2>3, RowTyped DEF OpInv
  <2> QED
    BY <2>2, <2>3
<1>10. LateInv'
  BY LateKept DEF RunUnroll
<1>11. SessionInv'
  <2>1. CASE stopped
    BY <1>1, <1>6, <2>1, TurnKeeps, RowTyped DEF RunUnroll, Running
  <2>2. CASE ~stopped
    <3>1. UNCHANGED <<active, queue, checking, up, stopped, raced>> /\ ~checking /\ up
      BY <2>2 DEF RunUnroll, Running
    <3>2. \A v \in Vtxos : v # active => op'[v].state = op[v].state
      BY <1>1, <1>6, RowTyped
    <3> QED
      BY <1>1, <3>1, <3>2 DEF SessionInv, NoStrandedExit, Attended, InQueue
  <2> QED
    BY <2>1, <2>2
<1> QED
  BY <1>7, <1>8, <1>9, <1>10, <1>11

\* A step of the session that leaves the chain alone.
LEMMA SessionKeeps == IInv /\ (RunDone \/ RunCheck \/ RunFails) => IInv'
<1> SUFFICES ASSUME IInv, RunDone \/ RunCheck \/ RunFails PROVE IInv'
  OBVIOUS
<1> USE DEF IInv
<1>1. active \in Vtxos /\ active # None /\ up
  BY DEF RunDone, RunCheck, RunFails, Running, TypeOK
<1>2. UNCHANGED <<env, vault, flagged, late, call, stopped, up, starts, crashes, raced>>
  BY DEF RunDone, RunCheck, RunFails
<1>3. ChainInv' /\ LateInv'
  BY <1>2, ChainKept, LateKept DEF env
<1>4. CASE RunDone
  <2>1. PICK s \in {"unrolling", "waiting"} :
          /\ setExitOpState(active, s)
          /\ (stopped /\ nextOp) \/ (s = "waiting" /\ checking' = TRUE /\ UNCHANGED <<active, queue>>)
    BY <1>4 DEF RunDone
  <2>2. s \in OpStates
    BY DEF OpStates
  <2>3. OpInv'
    BY <1>1, <1>2, <1>4, <2>1, <2>2, RowWritten DEF RunDone, env
  <2>4. TypeOK' /\ SessionInv'
    <3>1. CASE stopped /\ nextOp
      <4>1. TypeOK'
        BY <1>1, <1>2, <2>1, <2>2, <3>1, RowTyped, TurnTyped DEF TypeOK, env
      <4>2. SessionInv'
        BY <1>1, <1>2, <2>1, <2>2, <3>1, RowTyped, TurnKeeps
      <4> QED
        BY <4>1, <4>2
    <3>2. CASE s = "waiting" /\ checking' = TRUE /\ UNCHANGED <<active, queue>>
      <4>1. TypeOK'
        BY <1>1, <1>2, <2>1, <2>2, <3>2, RowTyped DEF TypeOK, env
      <4>2. op'[active].state = "waiting" /\ \A v \in Vtxos : v # active => op'[v].state = op[v].state
        BY <1>1, <2>1, <2>2, <3>2, RowTyped
      <4>3. SessionInv'
        BY <1>1, <1>2, <3>2, <4>2 DEF SessionInv, NoStrandedExit, Attended, InQueue
      <4> QED
        BY <4>1, <4>3
    <3> QED
      BY <2>1, <3>1, <3>2
  <2> QED
    BY <1>3, <2>3, <2>4
<1>5. CASE RunCheck
  <2>1. CASE active \in vault /\ availableExitPath(active)
    <3>1. setExitOpState(active, "sweepable") /\ nextOp /\ "sweepable" \in OpStates
      BY <1>5, <2>1 DEF RunCheck, OpStates
    <3>2. Confirmed(active) /\ active \in csv
      BY <1>1, <2>1, LeafConfirms DEF availableExitPath
    <3>3. OpInv'
      BY <1>1, <1>2, <3>1, <3>2, RowWritten DEF env
    <3>4. TypeOK'
      BY <1>1, <1>2, <3>1, RowTyped, TurnTyped DEF TypeOK, env
    <3>5. SessionInv'
      BY <1>1, <1>2, <3>1, RowTyped, TurnKeeps
    <3> QED
      BY <1>3, <3>3, <3>4, <3>5
  <2>2. CASE ~(active \in vault /\ availableExitPath(active))
    <3>1. UNCHANGED op /\ nextOp /\ checking
      BY <1>5, <2>2 DEF RunCheck
    <3>2. OpInv'
      BY <1>2, <3>1, OpKept DEF env
    <3>3. TypeOK'
      BY <1>2, <3>1, TurnTyped DEF TypeOK, env
    <3>4. op[active].state # "unrolling" \/ active \in raced
      BY <3>1 DEF SessionInv
    <3>5. SessionInv'
      BY <1>1, <1>2, <3>1, <3>4, TurnKeeps
    <3> QED
      BY <1>3, <3>2, <3>3, <3>5
  <2> QED
    BY <2>1, <2>2
<1>6. CASE RunFails
  <2>1. setExitOpState(active, "failed") /\ nextOp /\ "failed" \in OpStates
    BY <1>6 DEF RunFails, OpStates
  <2>2. OpInv'
    BY <1>1, <1>2, <2>1, RowWritten DEF env
  <2>3. TypeOK'
    BY <1>1, <1>2, <2>1, RowTyped, TurnTyped DEF TypeOK, env
  <2>4. SessionInv'
    BY <1>1, <1>2, <2>1, RowTyped, TurnKeeps
  <2> QED
    BY <1>3, <2>2, <2>3, <2>4
<1> QED
  BY <1>4, <1>5, <1>6

-----------------------------------------------------------------------------
\* enqueue: v is attended to afterwards and nobody is forgotten.
LEMMA Enqueued ==
  ASSUME TypeOK, NEW v \in Vtxos, enqueue(v)
  PROVE  /\ active' \in Vtxos \cup {None} /\ queue' \in Seq(Vtxos)
         /\ Attended(v)'
         /\ \A w \in Vtxos : Attended(w) => Attended(w)'
         /\ active # None => active' = active
<1>1. CASE active = v \/ InQueue(v)
  BY <1>1 DEF enqueue, TypeOK, Attended, InQueue
<1>2. CASE ~(active = v \/ InQueue(v)) /\ active = None /\ ~stopped
  BY <1>2, NoneAssumption DEF enqueue, TypeOK, Attended, InQueue
<1>3. CASE ~(active = v \/ InQueue(v)) /\ ~(active = None /\ ~stopped)
  <2>1. queue' = Append(queue, v) /\ active' = active /\ queue \in Seq(Vtxos)
    BY <1>3 DEF enqueue, TypeOK
  <2>2. queue' \in Seq(Vtxos) /\ Len(queue') = Len(queue) + 1 /\ queue'[Len(queue) + 1] = v
    BY <2>1
  <2>3. \A i \in DOMAIN queue : i \in DOMAIN queue' /\ queue'[i] = queue[i]
    BY <2>1
  <2>4. Attended(v)'
    <3>1. Len(queue) + 1 \in DOMAIN queue'
      BY <2>1, <2>2
    <3> QED
      BY <2>2, <3>1 DEF Attended, InQueue
  <2>5. \A w \in Vtxos : Attended(w) => Attended(w)'
    BY <2>1, <2>3 DEF Attended, InQueue
  <2> QED
    BY <2>1, <2>2, <2>4, <2>5 DEF TypeOK
<1> QED
  BY <1>1, <1>2, <1>3

LEMMA StartKeeps ==
  ASSUME IInv, NEW v \in Vtxos, startExit(v)
  PROVE  IInv'
<1> USE DEF IInv
<1>1. UNCHANGED <<env, vault, flagged, checking, late, call, stopped, up, crashes>> /\ up
  BY DEF startExit
<1>2. setExitOpState(v, "unrolling") /\ "unrolling" \in OpStates
  BY DEF startExit, createOrRestartExitOp, setExitOpState, OpStates
<1>3. TypeOK'
  <2>1. starts' \in 0..MaxStarts
    BY BoundsAssumption DEF startExit, TypeOK
  <2>2. raced' \subseteq Vtxos
    BY DEF startExit, TypeOK
  <2>3. active' \in Vtxos \cup {None} /\ queue' \in Seq(Vtxos)
    BY Enqueued DEF startExit
  <2> QED
    BY <1>1, <1>2, <2>1, <2>2, <2>3, RowTyped DEF TypeOK, env
<1>4. ChainInv' /\ LateInv'
  BY <1>1, ChainKept, LateKept DEF env
<1>5. OpInv'
  BY <1>1, <1>2, RowWritten DEF env
<1>6. SessionInv'
  <2>1. /\ Attended(v)' /\ \A w \in Vtxos : Attended(w) => Attended(w)'
        /\ active # None => active' = active
    BY Enqueued DEF startExit
  <2>2. \A w \in Vtxos : w # v => op'[w].state = op[w].state
    BY <1>2, RowTyped
  <2>3. raced \subseteq raced'
    BY DEF startExit
  <2>4. NoStrandedExit'
    BY <1>1, <2>1, <2>2, <2>3 DEF SessionInv, NoStrandedExit
  <2>5. checking' => (op'[active'].state = "unrolling" => active' \in raced')
    <3> SUFFICES ASSUME checking, op'[active].state = "unrolling" PROVE active \in raced'
      BY <1>1, <2>1 DEF SessionInv
    <3>1. active \in Vtxos
      BY DEF SessionInv, TypeOK
    <3>2. CASE active = v
      BY <3>2 DEF startExit
    <3>3. CASE active # v
      BY <2>2, <2>3, <3>1, <3>3 DEF SessionInv
    <3> QED
      BY <3>2, <3>3
  <2> QED
    BY <1>1, <2>1, <2>4, <2>5 DEF SessionInv
<1> QED
  BY <1>3, <1>4, <1>5, <1>6

LEMMA PollKeeps ==
  ASSUME IInv, NEW v \in Vtxos, PollReads(v) \/ PollWrites(v)
  PROVE  IInv'
<1> USE DEF IInv
<1>1. UNCHANGED <<env, vault, flagged, active, queue, checking, call, stopped, up, starts, crashes, raced>>
  BY DEF PollReads, PollWrites
<1>2. ChainInv'
  BY <1>1, ChainKept DEF env
<1>3. CASE PollReads(v)
  <2>1. UNCHANGED op /\ late' = late \cup {v} /\ v \in csv
    BY <1>3 DEF PollReads, availableExitPath
  <2>2. TypeOK' /\ LateInv'
    BY <1>1, <2>1 DEF TypeOK, LateInv, env
  <2> QED
    BY <1>1, <1>2, <2>1, <2>2, OpKept, SessionKept DEF env
<1>4. CASE PollWrites(v)
  <2>1. setExitOpState(v, "sweepable") /\ "sweepable" \in OpStates /\ late' = late \ {v} /\ v \in csv
    BY <1>4 DEF PollWrites, OpStates, LateInv
  <2>2. Confirmed(v)
    BY <2>1 DEF ChainInv
  <2>3. TypeOK' /\ LateInv'
    BY <1>1, <2>1, RowTyped DEF TypeOK, LateInv, env
  <2>4. OpInv'
    BY <1>1, <2>1, <2>2, RowWritten DEF env
  <2>5. op'[v].state = "sweepable" /\ \A w \in Vtxos : w # v => op'[w].state = op[w].state
    BY <2>1, RowTyped
  <2>6. SessionInv'
    BY <1>1, <2>5 DEF SessionInv, NoStrandedExit, Attended, InQueue, TypeOK
  <2> QED
    BY <1>2, <2>3, <2>4, <2>6
<1> QED
  BY <1>3, <1>4

LEMMA RequestKeeps ==
  ASSUME IInv, NEW c \in Calls, NEW v \in Vtxos,
         BoostCall(c, v) \/ (\E d \in Dests : SweepCall(c, v, d)) \/ CallFails(c)
  PROVE  IInv'
<1> USE DEF IInv
<1>1. UNCHANGED <<env, op, vault, flagged, active, queue, checking, late, stopped, up, starts, crashes, raced>>
  BY DEF BoostCall, SweepCall, CallFails
<1>2. PICK r \in CallType :
        /\ call' = [call EXCEPT ![c] = r]
        /\ r.kind \in {"idle", "sweep", "boost"} /\ (r.kind # "idle" => r.v \in Vtxos)
  <2>1. CASE BoostCall(c, v)
    <3>1. PICK f \in BoostFloors(v) :
            call' = [call EXCEPT ![c] = [Idle EXCEPT !.kind = "boost", !.v = v, !.dest = op[v].dest, !.floor = f]]
      BY <2>1 DEF BoostCall
    <3>2. f \in 0..(MaxFee + 1)
      <4>1. op[v].sweep # NoTx /\ op[v].sweep \in SweepTxs \cup {NoTx}
        BY <2>1 DEF BoostCall, TypeOK
      <4>2. op[v].sweep.fee \in 1..MaxFee
        BY <4>1 DEF SweepTxs
      <4> QED
        BY <4>2, BoundsAssumption DEF BoostFloors
    <3> DEFINE r == [Idle EXCEPT !.kind = "boost", !.v = v, !.dest = op[v].dest, !.floor = f]
    <3>3. r \in CallType /\ r.kind = "boost" /\ r.v = v
      BY <3>2 DEF Idle, CallType, TypeOK
    <3> QED
      BY <3>1, <3>3
  <2>2. CASE \E d \in Dests : SweepCall(c, v, d)
    <3>1. PICK d \in Dests : call' = [call EXCEPT ![c] = [Idle EXCEPT !.kind = "sweep", !.v = v, !.dest = d]]
      BY <2>2 DEF SweepCall
    <3> DEFINE r == [Idle EXCEPT !.kind = "sweep", !.v = v, !.dest = d]
    <3>0. Idle \in CallType
      BY BoundsAssumption DEF Idle, CallType
    <3>2. r \in CallType
      BY <3>0 DEF CallType
    <3>3. r.kind = "sweep" /\ r.v = v
      BY DEF Idle
    <3>4. call' = [call EXCEPT ![c] = r]
      BY <3>1
    <3> HIDE DEF r
    <3> QED
      BY <3>2, <3>3, <3>4
  <2>3. CASE CallFails(c)
    <3>1. Idle \in CallType
      BY BoundsAssumption DEF Idle, CallType
    <3> QED
      BY <2>3, <3>1 DEF CallFails, Idle
  <2> QED
    BY <2>1, <2>2, <2>3
<1>3. TypeOK' /\ LateInv'
  BY <1>1, <1>2 DEF TypeOK, LateInv, env
<1> QED
  BY <1>1, <1>3, ChainKept, OpKept, SessionKept DEF env

LEMMA BroadcastKeeps ==
  ASSUME IInv, NEW c \in Calls, Broadcast(c)
  PROVE  IInv'
<1> USE DEF IInv
<1> DEFINE v == call[c].v
<1>1. UNCHANGED <<chain, csv, mined, op, vault, flagged, active, queue, checking, late, stopped, up, starts, crashes, raced>>
      /\ call[c].kind \in {"sweep", "boost"} /\ v \in Vtxos /\ call[c] \in CallType
  BY DEF Broadcast, LateInv, TypeOK
<1>2. PICK tx \in buildSweepTx(call[c]) :
        /\ spend' = [spend EXCEPT ![v] = tx]
        /\ taken' = [taken EXCEPT ![v] = taken[v] \cup {tx}]
        /\ call' = [call EXCEPT ![c] = [call[c] EXCEPT !.kind = IF call[c].kind = "sweep" THEN "sweepSent" ELSE "boostSent", !.tx = tx]]
  BY DEF Broadcast, TypeOK
<1>3. v \in csv /\ tx \in SweepTxs
  BY <1>2 DEF buildSweepTx, availableExitPath
<1>4. \A w \in Vtxos : taken[w] \subseteq taken'[w]
  BY <1>1, <1>2 DEF TypeOK
<1>5. TypeOK'
  <2>1. call' \in [Calls -> CallType]
    BY <1>1, <1>2, <1>3 DEF TypeOK, CallType
  <2>2. spend' \in [Vtxos -> SweepTxs \cup {NoTx}] /\ taken' \in [Vtxos -> SUBSET SweepTxs]
    BY <1>1, <1>2, <1>3 DEF TypeOK
  <2> QED
    BY <1>1, <2>1, <2>2 DEF TypeOK
<1>6. OpInv'
  BY <1>1, <1>4 DEF OpInv, Confirmed
<1>7. LateInv'
  <2>1. ASSUME NEW e \in Calls
        PROVE  /\ call'[e].kind # "idle" => call'[e].v \in Vtxos
               /\ call'[e].kind \in {"sweepSent", "boostSent"} =>
                    call'[e].v \in csv' /\ call'[e].tx \in taken'[call'[e].v]
    <3>1. CASE e = c
      <4>1. call'[c].v = v /\ call'[c].tx = tx
        BY <1>1, <1>2 DEF TypeOK, CallType
      <4> QED
        BY <1>1, <1>2, <1>3, <3>1, <4>1 DEF TypeOK
    <3>2. CASE e # c
      BY <1>1, <1>2, <1>4, <3>2 DEF LateInv, TypeOK
    <3> QED
      BY <3>1, <3>2
  <2> QED
    BY <1>1, <2>1 DEF LateInv
<1> QED
  BY <1>1, <1>5, <1>6, <1>7, ChainKept, SessionKept

LEMMA RecordKeeps ==
  ASSUME IInv, NEW c \in Calls, RecordSweep(c)
  PROVE  IInv'
<1> USE DEF IInv
<1> DEFINE v == call[c].v
           tx == call[c].tx
<1>1. UNCHANGED <<env, vault, flagged, active, queue, checking, late, stopped, up, starts, crashes, raced>>
  BY DEF RecordSweep
<1>2. v \in Vtxos /\ v \in csv /\ tx \in taken[v] /\ tx \in SweepTxs
  BY DEF RecordSweep, LateInv, TypeOK
<1>3. op' = [op EXCEPT ![v] = [state |-> "swept", sweep |-> tx, dest |-> tx.dest]]
  BY DEF RecordSweep, setSwept
<1>4. call' = [call EXCEPT ![c] = Idle] /\ Idle \in CallType
  BY BoundsAssumption DEF RecordSweep, Idle, CallType
<1>5. tx.dest \in Dests
  BY <1>2 DEF SweepTxs
<1>6. TypeOK'
  <2>1. op' \in [Vtxos -> [state : OpStates, sweep : SweepTxs \cup {NoTx}, dest : Dests \cup {"none"}]]
    BY <1>2, <1>3, <1>5 DEF TypeOK, OpStates
  <2> QED
    BY <1>1, <1>4, <2>1 DEF TypeOK, env
<1>7. OpInv'
  <2>1. ASSUME NEW w \in Vtxos
        PROVE  /\ op'[w].state \in {"waiting", "sweepable", "swept"} => Confirmed(w)'
               /\ op'[w].state \in {"sweepable", "swept"} => w \in csv'
               /\ op'[w].state = "swept" => op'[w].sweep \in taken'[w] /\ op'[w].dest = op'[w].sweep.dest
    <3>1. Confirmed(w)' <=> Confirmed(w)
      BY <1>1 DEF Confirmed, env
    <3>2. CASE w = v
      BY <1>1, <1>2, <1>3, <3>1, <3>2 DEF ChainInv, TypeOK, env
    <3>3. CASE w # v
      BY <1>1, <1>3, <3>1, <3>3 DEF OpInv, TypeOK, env
    <3> QED
      BY <3>2, <3>3
  <2> QED
    BY <2>1 DEF OpInv
<1>8. LateInv'
  BY <1>1, <1>4 DEF LateInv, TypeOK, env, Idle
<1>9. SessionInv'
  <2>1. op'[v].state = "swept" /\ \A w \in Vtxos : w # v => op'[w] = op[w]
    BY <1>2, <1>3 DEF TypeOK
  <2> QED
    BY <1>1, <2>1 DEF SessionInv, NoStrandedExit, Attended, InQueue, TypeOK
<1> QED
  BY <1>1, <1>6, <1>7, <1>8, <1>9, ChainKept DEF env

LEMMA VaultKeeps ==
  ASSUME IInv, NEW v \in Vtxos, Quarantine(v) \/ CollectSwept(v) \/ Forget(v)
  PROVE  IInv'
<1> USE DEF IInv
<1>1. UNCHANGED <<env, op, engine, starts, crashes, raced>>
  BY DEF Quarantine, CollectSwept, Forget
<1>2. vault' \subseteq Vtxos /\ flagged' \subseteq vault'
  BY DEF Quarantine, CollectSwept, Forget, TypeOK
<1>3. TypeOK'
  BY <1>1, <1>2 DEF TypeOK, env, engine
<1> QED
  BY <1>1, <1>3, ChainKept, OpKept, LateKept, SessionKept DEF env, engine

LEMMA MineKeeps ==
  ASSUME IInv, NEW t \in Txs, Mine(t)
  PROVE  IInv'
<1> USE DEF IInv
<1>1. /\ UNCHANGED <<csv, spend, mined, taken, op, vault, flagged, engine, starts, crashes, raced>>
      /\ chain[t] = "mempool" /\ chain' = [chain EXCEPT ![t] = "confirmed"]
  BY DEF Mine
<1>2. \A u \in Txs : chain[u] = "confirmed" => chain'[u] = "confirmed"
  BY <1>1 DEF TypeOK
<1>7. \A u \in Txs : chain'[u] # "absent" => chain[u] # "absent"
  BY <1>1 DEF TypeOK
<1>3. \A v \in Vtxos : Confirmed(v) => Confirmed(v)'
  BY <1>2, ChainFacts DEF Confirmed
<1>4. TypeOK'
  BY <1>1 DEF TypeOK, engine
<1>5. ChainInv'
  <2>1. \A v \in csv' : Confirmed(v)'
    BY <1>1, <1>3 DEF ChainInv, TypeOK
  <2>2. ASSUME NEW x \in Txs, chain'[x] # "absent", NEW u \in AncestorsOf[x]
        PROVE  chain'[u] = "confirmed"
    <3>1. u \in Txs
      BY AncestorsAssumption
    <3> QED
      BY <1>2, <1>7, <2>2, <3>1 DEF ChainInv
  <2>3. ASSUME NEW w \in Vtxos, NEW k \in DOMAIN ChainOf[w], NEW j \in 1..(k - 1),
               OwnTx(w, ChainOf[w][k]), chain'[ChainOf[w][k]] # "absent"
        PROVE  chain'[ChainOf[w][j]] = "confirmed"
    <3>1. j \in DOMAIN ChainOf[w] /\ ChainOf[w][j] \in Txs /\ ChainOf[w][k] \in Txs
      BY ChainFacts
    <3>2. chain[ChainOf[w][j]] = "confirmed"
      BY <1>7, <2>3, <3>1 DEF ChainInv
    <3> QED
      BY <1>2, <3>1, <3>2
  <2>4. \A v \in Vtxos : \A n \in DOMAIN ChainOf[v] : OwnTx(v, ChainOf[v][n])' <=> OwnTx(v, ChainOf[v][n])
    BY DEF OwnTx
  <2> QED
    BY <2>1, <2>2, <2>3, <2>4 DEF ChainInv
<1>6. OpInv'
  BY <1>1, <1>3 DEF OpInv
<1> QED
  BY <1>1, <1>4, <1>5, <1>6, LateKept, SessionKept DEF engine

LEMMA BlocksKeep ==
  ASSUME IInv, NEW v \in Vtxos, CsvElapses(v) \/ MineSweep(v) \/ EvictSweep(v)
  PROVE  IInv'
<1> USE DEF IInv
<1>1. UNCHANGED <<chain, taken, op, vault, flagged, engine, starts, crashes, raced>>
  BY DEF CsvElapses, MineSweep, EvictSweep
<1>2. csv \subseteq csv' /\ csv' \subseteq csv \cup {v} /\ (csv' # csv => chain[Leaf(v)] = "confirmed")
  BY DEF CsvElapses, MineSweep, EvictSweep
<1>3. TypeOK'
  BY <1>1 DEF CsvElapses, MineSweep, EvictSweep, TypeOK, engine
<1>4. \A w \in Vtxos : Confirmed(w)' <=> Confirmed(w)
  BY <1>1 DEF Confirmed
<1>5. ChainInv'
  <2>1. \A w \in csv' : Confirmed(w)'
    BY <1>2, <1>4, LeafConfirms DEF ChainInv, TypeOK
  <2> QED
    BY <1>1, <2>1 DEF ChainInv, OwnTx
<1>6. OpInv' /\ LateInv'
  BY <1>1, <1>2, <1>4 DEF OpInv, LateInv, engine
<1> QED
  BY <1>1, <1>3, <1>5, <1>6, SessionKept DEF engine

LEMMA StopKeeps == IInv /\ (stop \/ Crash) => IInv'
<1> SUFFICES ASSUME IInv, stop \/ Crash PROVE IInv'
  OBVIOUS
<1> USE DEF IInv
<1>1. CASE stop
  <2>1. TypeOK'
    BY <1>1 DEF stop, TypeOK, env
  <2>2. SessionInv'
    BY <1>1 DEF stop, SessionInv, NoStrandedExit
  <2> QED
    BY <1>1, <2>1, <2>2, ChainKept, OpKept, LateKept DEF stop, env
<1>2. CASE Crash
  <2>1. Idle \in CallType /\ crashes' \in 0..MaxCrashes
    BY <1>2, BoundsAssumption DEF Idle, CallType, Crash, TypeOK
  <2>2. call' \in [Calls -> CallType] /\ \A c \in Calls : call'[c].kind = "idle"
    BY <1>2, <2>1 DEF Crash, Idle
  <2>3. TypeOK'
    <3>1. /\ UNCHANGED <<chain, csv, spend, mined, taken, op, vault, flagged, stopped, starts, raced>>
          /\ active' = None /\ queue' = <<>> /\ checking' = FALSE /\ late' = {} /\ up' = FALSE
      BY <1>2 DEF Crash, env
    <3>2. queue' \in Seq(Vtxos) /\ active' \in Vtxos \cup {None} /\ late' \subseteq Vtxos
      BY <3>1
    <3>3. checking' \in BOOLEAN /\ up' \in BOOLEAN
      BY <3>1
    <3> QED
      BY <2>1, <2>2, <3>1, <3>2, <3>3, Zenon DEF TypeOK
  <2>4. LateInv'
    BY <1>2, <2>2 DEF Crash, LateInv, env
  <2>5. SessionInv'
    BY <1>2 DEF Crash, SessionInv, NoStrandedExit
  <2> QED
    BY <1>2, <2>3, <2>4, <2>5, ChainKept, OpKept DEF Crash, env
<1> QED
  BY <1>1, <1>2

\* Every row that unrolls is in the new queue or taken at once.
LEMMA ResumeKeeps == IInv /\ resume => IInv'
<1> SUFFICES ASSUME IInv, resume PROVE IInv'
  OBVIOUS
<1> USE DEF IInv
<1> DEFINE todo == {v \in Vtxos : op[v].state = "unrolling"}
<1>1. /\ UNCHANGED <<env, op, vault, flagged, checking, late, call, starts, crashes>>
      /\ up' = TRUE /\ stopped' = FALSE /\ raced' = {} /\ ~checking
      /\ active = None /\ queue = <<>>
  BY DEF resume, SessionInv
<1>2. /\ active' \in Vtxos \cup {None} /\ queue' \in Seq(Vtxos)
      /\ \A v \in todo : Attended(v)'
  <2>1. CASE todo = {}
    BY <1>1, <2>1 DEF resume, TypeOK
  <2>2. CASE todo # {}
    <3>1. PICK s \in [1..Cardinality(todo) -> todo] :
            /\ \A v \in todo : \E i \in DOMAIN s : s[i] = v
            /\ active' = Head(s) /\ queue' = Tail(s)
      BY <2>2 DEF resume
    <3>2. Cardinality(todo) \in Nat
      BY VtxosAssumption, FS_Subset, FS_CardinalityType
    <3>3. s \in Seq(Vtxos) /\ DOMAIN s = 1..Cardinality(todo) /\ Len(s) = Cardinality(todo)
      <4> DEFINE n == Cardinality(todo)
      <4>1. n \in Nat /\ s \in [1..n -> Vtxos]
        BY <3>1, <3>2
      <4> HIDE DEF n
      <4>2. s \in Seq(Vtxos) /\ DOMAIN s = 1..n /\ Len(s) = n
        BY <4>1
      <4> QED
        BY <4>2 DEF n
    <3>4. s # <<>>
      BY <2>2, <3>1, <3>3
    <3>5. active' \in Vtxos /\ queue' \in Seq(Vtxos)
      BY <3>1, <3>3, <3>4
    <3>6. ASSUME NEW v \in todo
          PROVE  Attended(v)'
      <4>1. PICK i \in DOMAIN s : s[i] = v
        BY <3>1
      <4>2. CASE i = 1
        BY <3>1, <3>3, <3>4, <4>1, <4>2 DEF Attended
      <4>3. CASE i # 1
        <5>1. i - 1 \in DOMAIN Tail(s) /\ Tail(s)[i - 1] = v
          BY <3>2, <3>3, <3>4, <4>1, <4>3
        <5> QED
          BY <3>1, <5>1 DEF Attended, InQueue
      <4> QED
        BY <4>2, <4>3
    <3> QED
      BY <3>5, <3>6
  <2> QED
    BY <2>1, <2>2
<1>3. TypeOK'
  BY <1>1, <1>2 DEF TypeOK, env
<1>4. SessionInv'
  BY <1>1, <1>2 DEF SessionInv, NoStrandedExit
<1> QED
  BY <1>1, <1>3, <1>4, ChainKept, OpKept, LateKept DEF env

-----------------------------------------------------------------------------
\* The engine, the poll, the requests, the vault's collector and restarts all
\* keep the invariant.
THEOREM ExitInvariance == Spec => []IInv
<1>1. IInv /\ [Next]_vars => IInv'
  <2> SUFFICES ASSUME IInv, [Next]_vars PROVE IInv'
    OBVIOUS
  <2>1. CASE Session \/ RunFails
    BY <2>1, UnrollKeeps, SessionKeeps DEF Session
  <2>2. CASE Operator
    BY <2>2, StartKeeps, VaultKeeps, RequestKeeps DEF Operator
  <2>3. CASE Requests
    <3>1. PICK c \in Calls : Broadcast(c) \/ RecordSweep(c) \/ CallFails(c)
      BY <2>3 DEF Requests
    <3>2. CASE CallFails(c)
      <4>1. call[c].v \in Vtxos
        BY <3>2 DEF CallFails, IInv, LateInv
      <4> QED
        BY <3>2, <4>1, RequestKeeps
    <3> QED
      BY <3>1, <3>2, BroadcastKeeps, RecordKeeps
  <2>4. CASE Sync
    BY <2>4, PollKeeps, VaultKeeps DEF Sync
  <2>5. CASE Chain
    BY <2>5, MineKeeps, BlocksKeep DEF Chain
  <2>6. CASE stop \/ Crash \/ resume
    BY <2>6, StopKeeps, ResumeKeeps
  <2>7. CASE UNCHANGED vars
    <3>1. TypeOK'
      BY <2>7 DEF vars, env, engine, IInv, TypeOK
    <3> QED
      BY <2>7, <3>1, ChainKept, OpKept, LateKept, SessionKept DEF vars, env, engine, IInv
  <2> QED
    BY <2>1, <2>2, <2>3, <2>4, <2>5, <2>6, <2>7 DEF Next
<1> QED
  BY <1>1, Initially, PTL DEF Spec

\* Every variable keeps its type.
THEOREM ExitTypeCorrect == Spec => []TypeOK
<1>1. IInv => TypeOK
  BY DEF IInv
<1> QED
  BY <1>1, ExitInvariance, PTL

\* An exit that unrolls is attended to (startExit, drain and resume of engine.ts).
THEOREM ExitsAreAttended == Spec => []NoStrandedExit
<1>1. IInv => NoStrandedExit
  BY DEF IInv, SessionInv
<1> QED
  BY <1>1, ExitInvariance, PTL

\* What the page shows without asking the chain is true (buildExitStepper),
\* however late the poll answers and whatever became of a sweep.
THEOREM PageTellsTheTruth == Spec => []PageIsTrue
<1>1. IInv => PageIsTrue
  <2> SUFFICES ASSUME IInv, NEW v \in Vtxos
               PROVE  /\ \A i \in DOMAIN ChainOf[v] : LET t == ChainOf[v][i] IN
                           /\ ShownStep(v, t) = "confirmed" => chain[t] = "confirmed"
                           /\ ShownStep(v, t) = "pending" /\ i \notin Probed(v) /\ OwnTx(v, t) => chain[t] = "absent"
                      /\ ShownWait(v) = "sweepable" => v \in csv
                      /\ ShownSweep(v) = "done" => op[v].sweep \in taken[v] /\ op[v].dest = op[v].sweep.dest
    BY DEF PageIsTrue
  <2> USE DEF IInv
  <2>1. ASSUME NEW i \in DOMAIN ChainOf[v]
        PROVE  /\ ShownStep(v, ChainOf[v][i]) = "confirmed" => chain[ChainOf[v][i]] = "confirmed"
               /\ ShownStep(v, ChainOf[v][i]) = "pending" /\ i \notin Probed(v) /\ OwnTx(v, ChainOf[v][i])
                    => chain[ChainOf[v][i]] = "absent"
    <3>1. CASE Unrolled(v)
      BY <3>1 DEF Unrolled, OpInv, Confirmed, ShownStep
    <3>2. CASE ~Unrolled(v)
      <4>1. ASSUME i \notin Probed(v), OwnTx(v, ChainOf[v][i]) PROVE chain[ChainOf[v][i]] = "absent"
        <5>1. PICK j \in 1..(i - 1) : chain[ChainOf[v][j]] # "confirmed"
          BY <3>2, <4>1 DEF Probed
        <5> QED
          BY <4>1, <5>1 DEF ChainInv
      <4> QED
        BY <3>2, <4>1 DEF ShownStep
    <3> QED
      BY <3>1, <3>2
  <2>2. ShownWait(v) = "sweepable" => v \in csv
    BY DEF ShownWait, OpInv
  <2>3. ShownSweep(v) = "done" => op[v].sweep \in taken[v] /\ op[v].dest = op[v].sweep.dest
    BY DEF ShownSweep, OpInv
  <2> QED
    BY <2>1, <2>2, <2>3
<1> QED
  BY <1>1, ExitInvariance, PTL
=============================================================================
