----------------------------- MODULE VaultProofs ------------------------------
(***************************************************************************)
(* Proofs about modules Vault and ExitFuel: for any number of vtxos,       *)
(* proofs, settlements and faults, the vault forgets by itself only what   *)
(* is accounted for, and rows keep the proofs they can exit with; for any  *)
(* addresses, coins and concurrent requests, an exit's money only goes to  *)
(* addresses whose challenge was answered, and no boost reports the        *)
(* transaction it found.                                                   *)
(*                                                                         *)
(* The vault's are action properties of an invariant about the two kinds   *)
(* of fetches under way. A pass stores a chain that names proofs and does  *)
(* not replace a whole chain by one with a hole. A capture stores a row    *)
(* that was not there, and the proofs it found at its look are still there *)
(* unless a collection took them, which makes it bereft. What the sums of  *)
(* a settlement show rests on amounts alone: a set of rows worth as much   *)
(* as a subset of itself is that subset.                                   *)
(***************************************************************************)
EXTENDS Vault, ExitFuel, TLAPS

Fates == {"unborn", "live", "spent", "absorbed", "dropped", "unrolled"}
PassType ==
  [at : {"idle", "list", "mirror", "fetch", "absorb", "judge"}, list : SUBSET Vtxos, todo : SUBSET Vtxos,
   cur : Vtxos \cup {None}, gap : SUBSET Txs, chain : SUBSET Txs, said : [Vtxos -> Rounds \cup {None}], bad : BOOLEAN]
CapType == [on : BOOLEAN, chain : SUBSET Txs, gap : SUBSET Txs]

\* A pass fetches for a vtxo of the wallet, and a chain that names proofs; a whole
\* chain is only replaced by itself.
FetchInv ==
  /\ pass.at \in {"mirror", "fetch"} => pass.todo \cap Atomic = {}
  /\ pass.at = "fetch" =>
       /\ pass.cur \in Vtxos /\ pass.cur \notin Atomic /\ pass.chain # {}
       /\ row[pass.cur] = ProofsOf[pass.cur] => pass.chain = ProofsOf[pass.cur]

\* A capture happens once and stores a row that was not there; it has what it did
\* not ask for, or was robbed of it.
CapInv ==
  \A v \in Atomic :
    /\ fate[v] = "unborn" => row[v] = {} /\ ~cap[v].on /\ v \notin captured
    /\ cap[v].on => /\ row[v] = {} /\ v \notin captured /\ cap[v].chain # {}
                    /\ v \in bereft \/ (cap[v].chain \ cap[v].gap) \subseteq proofs
    /\ v \in captured /\ v \notin bereft /\ row[v] # {} => row[v] = ProofsOf[v] /\ row[v] \subseteq proofs

IInv == TypeOK /\ FetchInv /\ CapInv

\* What one step may do to the rows and the proofs.
ForgetStep == \A v \in Vtxos : Stored(v) /\ ~Stored(v)' /\ v \notin forgotten' => Settled(v)
ReadyStep == \A v \in Vtxos : Stored(v)' /\ isVtxoExitReady(v) => isVtxoExitReady(v)'

Good == IInv' /\ ForgetStep /\ ReadyStep

-----------------------------------------------------------------------------
\* Sums.

LEMMA SomethingIsWorth ==
  ASSUME NEW S \in SUBSET Vtxos, NEW v \in S
  PROVE  SatsOf[S] > 0 /\ SatsOf[S] \in Nat
<1>1. S = {v} \cup (S \ {v}) /\ {v} \cap (S \ {v}) = {} /\ {v} \in SUBSET Vtxos /\ S \ {v} \in SUBSET Vtxos
  OBVIOUS
<1>2. SatsOf[S] = SatsOf[{v}] + SatsOf[S \ {v}]
  BY <1>1, SatsAssumption
<1>3. SatsOf[{v}] > 0 /\ SatsOf[{v}] \in Nat /\ SatsOf[S \ {v}] \in Nat
  BY <1>1, SatsAssumption
<1> QED
  BY <1>2, <1>3

\* A set worth no more than a part of it is that part.
LEMMA EqualWorth ==
  ASSUME NEW S \in SUBSET Vtxos, NEW T \in SUBSET Vtxos, T \subseteq S, SatsOf[S] = SatsOf[T], NEW v \in S
  PROVE  v \in T
<1> SUFFICES ASSUME v \notin T PROVE FALSE
  OBVIOUS
<1>1. S = T \cup (S \ T) /\ T \cap (S \ T) = {} /\ S \ T \in SUBSET Vtxos /\ v \in S \ T
  OBVIOUS
<1>2. SatsOf[S] = SatsOf[T] + SatsOf[S \ T] /\ SatsOf[T] \in Nat
  BY <1>1, SatsAssumption
<1>3. SatsOf[S \ T] > 0 /\ SatsOf[S \ T] \in Nat
  BY <1>1, SomethingIsWorth
<1> QED
  BY <1>2, <1>3

\* What the conservation check lets go was taken by the settlement named, if that
\* settlement is accounted for.
LEMMA ConservationShows ==
  ASSUME IInv, NEW v \in Vtxos, absorbed(v)
  PROVE  Settled(v)
<1> DEFINE C == pass.said[v]
<1>1. C # None /\ SatsOf[Group(C)] = SatsOf[Created(C)]
  BY DEF absorbed
<1>2. CASE Accounted(C)
  <2>1. Inputs(C) \subseteq Group(C) /\ SatsOf[Group(C)] = SatsOf[Inputs(C)]
    BY <1>1, <1>2 DEF Accounted
  <2>2. Group(C) \in SUBSET Vtxos /\ Inputs(C) \in SUBSET Vtxos /\ v \in Group(C)
    BY DEF Group, Inputs
  <2>3. v \in Inputs(C)
    BY <2>1, <2>2, EqualWorth
  <2> QED
    BY <1>1, <2>3 DEF Inputs, Settled
<1>3. CASE ~Accounted(C)
  BY <1>1, <1>3 DEF Settled
<1> QED
  BY <1>2, <1>3

-----------------------------------------------------------------------------
\* Types and common shapes of steps.

LEMMA IdleTyped == Idle \in PassType /\ Idle.at = "idle" /\ [Idle EXCEPT !.at = "list"] \in PassType
                   /\ [Idle EXCEPT !.at = "list"].at = "list"
BY DEF Idle, PassType, Silent

\* Rows stay or go, what the rows that stay name stays, and a capture that loses
\* what it found is bereft.
Thins ==
  /\ row' \in [Vtxos -> SUBSET Txs] /\ \A v \in Vtxos : row'[v] = row[v] \/ row'[v] = {}
  /\ proofs' \subseteq proofs /\ \A v \in Vtxos : row'[v] \cap proofs \subseteq proofs'
  /\ cap' = cap /\ captured' \subseteq captured /\ bereft \subseteq bereft' /\ bereft' \subseteq Atomic
  /\ \A v \in Atomic : cap[v].on => v \in bereft' \/ (cap[v].chain \ cap[v].gap) \cap proofs \subseteq proofs'
  /\ \A v \in Atomic : fate'[v] = "unborn" => fate[v] = "unborn"

LEMMA Thinning ==
  ASSUME IInv, Thins
  PROVE  /\ CapInv' /\ ReadyStep /\ (pass' = pass => FetchInv')
         /\ proofs' \subseteq Txs /\ cap' \in [Atomic -> CapType] /\ captured' \subseteq Atomic /\ bereft' \subseteq Atomic
<1>0. Atomic \subseteq Vtxos /\ (\A v \in Vtxos : ProofsOf[v] # {})
  BY VaultAssumption
<1>1. CapInv'
  <2> SUFFICES ASSUME NEW v \in Atomic
      PROVE  /\ fate'[v] = "unborn" => row'[v] = {} /\ ~cap'[v].on /\ v \notin captured'
             /\ cap'[v].on => /\ row'[v] = {} /\ v \notin captured' /\ cap'[v].chain # {}
                              /\ v \in bereft' \/ (cap'[v].chain \ cap'[v].gap) \subseteq proofs'
             /\ v \in captured' /\ v \notin bereft' /\ row'[v] # {} => row'[v] = ProofsOf[v] /\ row'[v] \subseteq proofs'
    BY DEF CapInv
  <2>1. /\ fate[v] = "unborn" => row[v] = {} /\ ~cap[v].on /\ v \notin captured
        /\ cap[v].on => /\ row[v] = {} /\ v \notin captured /\ cap[v].chain # {}
                        /\ v \in bereft \/ (cap[v].chain \ cap[v].gap) \subseteq proofs
        /\ v \in captured /\ v \notin bereft /\ row[v] # {} => row[v] = ProofsOf[v] /\ row[v] \subseteq proofs
    BY DEF IInv, CapInv
  <2>2. /\ row'[v] = row[v] \/ row'[v] = {}
        /\ row'[v] \cap proofs \subseteq proofs'
        /\ cap' = cap /\ captured' \subseteq captured /\ bereft \subseteq bereft'
        /\ cap[v].on => v \in bereft' \/ (cap[v].chain \ cap[v].gap) \cap proofs \subseteq proofs'
        /\ fate'[v] = "unborn" => fate[v] = "unborn"
    BY <1>0 DEF Thins
  <2> QED
    BY <2>1, <2>2
<1>2. ReadyStep
  BY <1>0 DEF Thins, ReadyStep, Stored, Rows, NoRow, isVtxoExitReady, Whole, missingProofTxids
<1>3. pass' = pass => FetchInv'
  BY <1>0 DEF Thins, FetchInv, IInv
<1>4. /\ proofs' \subseteq Txs /\ cap' \in [Atomic -> CapType] /\ captured' \subseteq Atomic /\ bereft' \subseteq Atomic
  BY DEF Thins, IInv, TypeOK, CapType
<1> QED
  BY <1>1, <1>2, <1>3, <1>4

\* Steps that leave the store and the captures alone.
LEMMA StoreUntouched ==
  ASSUME IInv, UNCHANGED <<row, proofs>>, UNCHANGED capture,
         \A v \in Atomic : fate'[v] = "unborn" => fate[v] = "unborn"
  PROVE  /\ CapInv' /\ ForgetStep /\ ReadyStep /\ (pass' = pass => FetchInv')
         /\ cap' \in [Atomic -> CapType] /\ captured' \subseteq Atomic /\ bereft' \subseteq Atomic
<1>1. Thins
  BY DEF Thins, capture, IInv, TypeOK
<1> QED
  BY <1>1, Thinning DEF ForgetStep, Stored, Rows

\* A collection of orphans over the rows that are left.
LEMMA CollectThins ==
  ASSUME IInv, row' \in [Vtxos -> SUBSET Txs], \A v \in Vtxos : row'[v] = row[v] \/ row'[v] = {},
         collect(row'), captured' \subseteq captured, \A v \in Atomic : fate'[v] = "unborn" => fate[v] = "unborn"
  PROVE  Thins
<1>1. proofs' = proofs \cap UNION {row'[v] : v \in Vtxos}
  BY DEF collect, gcOrphanProofs
<1>2. proofs' \subseteq proofs /\ \A v \in Vtxos : row'[v] \cap proofs \subseteq proofs'
  BY <1>1
<1>3. /\ cap' = cap /\ bereft \subseteq bereft' /\ bereft' \subseteq Atomic
      /\ \A v \in Atomic : cap[v].on => v \in bereft' \/ (cap[v].chain \ cap[v].gap) \subseteq proofs'
  BY DEF collect, IInv, TypeOK
<1> QED
  BY <1>2, <1>3 DEF Thins

\* The other variables of the type invariant, for the steps of a pass.
LEMMA PassTypes ==
  ASSUME IInv, pass' \in PassType, UNCHANGED <<world, exit, forgotten, exits>>,
         due' \in BOOLEAN, retry' \in BOOLEAN, pending' \in BOOLEAN, told' \subseteq Vtxos, faults' \in 0..MaxFaults,
         lies' \in 0..MaxLies,
         row' \in [Vtxos -> SUBSET Txs], flag' \in [Vtxos -> 0..(Grace + 1)], proofs' \subseteq Txs,
         cap' \in [Atomic -> CapType], captured' \subseteq Atomic, bereft' \subseteq Atomic
  PROVE  TypeOK'
BY DEF IInv, TypeOK, PassType, CapType, world

\* A step of a pass that leaves the store alone.
LEMMA PassQuiet ==
  ASSUME IInv, pass' \in PassType, UNCHANGED <<world, exit, forgotten, exits>>, UNCHANGED <<row, flag, proofs>>, UNCHANGED capture,
         due' \in BOOLEAN, retry' \in BOOLEAN, pending' \in BOOLEAN, told' \subseteq Vtxos, faults' \in 0..MaxFaults,
         lies' \in 0..MaxLies, FetchInv'
  PROVE  Good
<1>1. CapInv' /\ ForgetStep /\ ReadyStep
  BY StoreUntouched DEF world
<1>2. TypeOK'
  BY PassTypes DEF IInv, TypeOK, capture, CapType
<1> QED
  BY <1>1, <1>2 DEF Good, IInv

LEMMA FaultTyped == IInv /\ (Fault \/ faults' = faults \/ (faults < MaxFaults /\ faults' = faults + 1)) => faults' \in 0..MaxFaults
BY VaultAssumption DEF IInv, TypeOK, Fault

LEMMA StateTyped ==
  ASSUME IInv
  PROVE  /\ pass \in PassType /\ due \in BOOLEAN /\ retry \in BOOLEAN /\ pending \in BOOLEAN /\ told \subseteq Vtxos
         /\ faults \in 0..MaxFaults /\ lies \in 0..MaxLies /\ row \in [Vtxos -> SUBSET Txs]
         /\ flag \in [Vtxos -> 0..(Grace + 1)] /\ proofs \subseteq Txs /\ cap \in [Atomic -> CapType]
         /\ captured \subseteq Atomic /\ bereft \subseteq Atomic /\ fate \in [Vtxos -> Fates]
BY DEF IInv, TypeOK, PassType, CapType, Fates

\* endRun leaves a pass that waits for its first answer, or none.
LEMMA EndRunTyped ==
  ASSUME IInv, NEW r, NEW f, endRun(r, f)
  PROVE  /\ pass' \in PassType /\ pass'.at \in {"idle", "list"} /\ pending' \in BOOLEAN /\ told' \subseteq Vtxos
BY IdleTyped DEF endRun, checkMaturedBetrayals, listMaturedBetrayals

-----------------------------------------------------------------------------
\* The steps of a pass.

LEMMA RunGood == IInv /\ (DebounceFires \/ RetryFires \/ Poll) => Good
<1> SUFFICES ASSUME IInv, DebounceFires \/ RetryFires \/ Poll PROVE Good
  OBVIOUS
<1>1. /\ UNCHANGED <<world, exit, forgotten, exits>> /\ UNCHANGED <<row, flag, proofs>> /\ UNCHANGED capture
      /\ UNCHANGED <<told, faults, lies>>
  BY DEF DebounceFires, RetryFires, Poll, run, store
<1>2. due' \in BOOLEAN /\ retry' \in BOOLEAN /\ pending' \in BOOLEAN
  BY StateTyped DEF DebounceFires, RetryFires, Poll, run, trigger
<1>3. pass' = pass \/ pass' = [Idle EXCEPT !.at = "list"]
  BY DEF DebounceFires, RetryFires, Poll, run
<1>4. pass' \in PassType /\ (pass' = pass \/ pass'.at = "list")
  BY <1>3, IdleTyped, StateTyped
<1>5. FetchInv'
  BY <1>1, <1>4 DEF IInv, FetchInv
<1> QED
  BY <1>1, <1>2, <1>4, <1>5, PassQuiet, StateTyped

LEMMA ListGood == IInv /\ ListVtxos => Good
<1> SUFFICES ASSUME IInv, ListVtxos PROVE Good
  OBVIOUS
<1>1. UNCHANGED <<world, exit, forgotten, exits>> /\ UNCHANGED <<row, flag, proofs>> /\ UNCHANGED capture /\ UNCHANGED <<due, lies>>
  BY DEF ListVtxos, store
<1>2. CASE /\ pass' = [pass EXCEPT !.at = "mirror", !.list = {v \in Vtxos \ Atomic : fate[v] = "live"},
                                   !.todo = {v \in Vtxos \ Atomic : fate[v] = "live"}]
           /\ UNCHANGED <<due, retry, pending, told, faults>>
  <2>1. pass' \in PassType /\ pass'.at = "mirror" /\ pass'.todo \cap Atomic = {}
    BY <1>2, StateTyped DEF PassType
  <2>2. FetchInv'
    BY <2>1 DEF FetchInv
  <2> QED
    BY <1>1, <1>2, <2>1, <2>2, PassQuiet, StateTyped
<1>3. CASE Fault /\ retry' = TRUE /\ endRun(row, flag) /\ UNCHANGED due
  <2>1. pass' \in PassType /\ pass'.at \in {"idle", "list"} /\ pending' \in BOOLEAN /\ told' \subseteq Vtxos
    BY <1>3, EndRunTyped
  <2>2. faults' \in 0..MaxFaults /\ retry' \in BOOLEAN
    BY <1>3, FaultTyped
  <2>3. FetchInv'
    BY <2>1 DEF FetchInv
  <2> QED
    BY <1>1, <2>1, <2>2, <2>3, PassQuiet, StateTyped
<1> QED
  BY <1>2, <1>3 DEF ListVtxos

LEMMA LookGood ==
  ASSUME IInv, NEW v \in Vtxos, MirrorLook(v)
  PROVE  Good
<1>1. /\ UNCHANGED <<world, exit, forgotten, exits, told, lies>> /\ UNCHANGED <<row, flag, proofs>>
      /\ UNCHANGED capture /\ UNCHANGED <<due, retry, pending>>
      /\ pass.at = "mirror" /\ v \in pass.todo /\ pass.todo \cap Atomic = {} /\ pass \in PassType
  BY StateTyped DEF MirrorLook, store, timers, IInv, FetchInv
<1>2. pass' \in PassType /\ FetchInv' /\ faults' \in 0..MaxFaults
  <2>1. CASE pass' = [pass EXCEPT !.todo = @ \ {v}] /\ UNCHANGED faults
    <3>1. pass' \in PassType /\ pass'.at = "mirror" /\ pass'.todo \cap Atomic = {}
      BY <1>1, <2>1 DEF PassType
    <3> QED
      BY <2>1, <3>1, StateTyped DEF FetchInv
  <2>2. CASE \E c \in Chains(v) :
               /\ c = ProofsOf[v] \/ faults < MaxFaults
               /\ faults' = IF c = ProofsOf[v] THEN faults ELSE faults + 1
               /\ pass' = [pass EXCEPT !.at = "fetch", !.cur = v, !.chain = c, !.gap = missingProofTxids(c)]
    <3>1. PICK c \in Chains(v) :
               /\ c = ProofsOf[v] \/ faults < MaxFaults
               /\ faults' = IF c = ProofsOf[v] THEN faults ELSE faults + 1
               /\ pass' = [pass EXCEPT !.at = "fetch", !.cur = v, !.chain = c, !.gap = missingProofTxids(c)]
      BY <2>2
    <3>2. c \subseteq Txs /\ c # {} /\ (row[v] = ProofsOf[v] => c = ProofsOf[v])
      BY VaultAssumption DEF Chains, Whole
    <3>3. faults' \in 0..MaxFaults
      BY <3>1, FaultTyped
    <3>4. pass' \in PassType /\ pass'.at = "fetch" /\ pass'.cur = v /\ pass'.chain = c /\ pass'.todo = pass.todo
      BY <1>1, <3>1, <3>2 DEF PassType, missingProofTxids
    <3> QED
      BY <1>1, <3>2, <3>3, <3>4 DEF FetchInv
  <2>3. CASE Fault /\ pass' = [pass EXCEPT !.todo = @ \ {v}, !.bad = TRUE]
    <3>1. faults' \in 0..MaxFaults
      BY <2>3, FaultTyped
    <3>2. pass' \in PassType /\ pass'.at = "mirror" /\ pass'.todo \cap Atomic = {}
      BY <1>1, <2>3 DEF PassType
    <3> QED
      BY <3>1, <3>2 DEF FetchInv
  <2> QED
    BY <2>1, <2>2, <2>3 DEF MirrorLook
<1> QED
  BY <1>1, <1>2, PassQuiet, StateTyped

LEMMA StoreGood == IInv /\ MirrorStore => Good
<1> SUFFICES ASSUME IInv, MirrorStore PROVE Good
  OBVIOUS
<1>1. /\ UNCHANGED <<world, exit, forgotten, exits, told, flag, lies>> /\ UNCHANGED capture /\ UNCHANGED <<due, retry, pending>>
      /\ pass.at = "fetch" /\ pass \in PassType
  BY StateTyped DEF MirrorStore, timers
<1>2. PICK got \in {pass.gap} \cup (IF pass.gap # {} /\ faults < MaxFaults THEN {{}} ELSE {}) :
       /\ storeVtxoWithProofs(pass.cur, pass.chain, got)
       /\ faults' = IF got = pass.gap THEN faults ELSE faults + 1
       /\ pass' = [pass EXCEPT !.at = "mirror", !.todo = @ \ {pass.cur}, !.cur = None, !.chain = {}, !.gap = {},
                               !.bad = @ \/ got # pass.gap]
  BY DEF MirrorStore
<1>3. /\ pass.cur \in Vtxos /\ pass.cur \notin Atomic /\ pass.chain # {} /\ pass.chain \subseteq Txs /\ got \subseteq Txs
      /\ (row[pass.cur] = ProofsOf[pass.cur] => pass.chain = ProofsOf[pass.cur])
      /\ (got # pass.gap => faults < MaxFaults) /\ pass.todo \cap Atomic = {}
  BY <1>1, <1>2 DEF IInv, PassType, FetchInv
<1>4. pass' \in PassType /\ pass'.at = "mirror" /\ pass'.todo \cap Atomic = {}
  <2>1. (pass.bad \/ got # pass.gap) \in BOOLEAN
    BY <1>1 DEF PassType
  <2> QED
    BY <1>1, <1>2, <1>3, <2>1 DEF PassType
<1>5. /\ row' = [row EXCEPT ![pass.cur] = pass.chain] /\ proofs' = proofs \cup got
  BY <1>2 DEF storeVtxoWithProofs
<1>6. /\ row' \in [Vtxos -> SUBSET Txs] /\ proofs' \subseteq Txs /\ proofs \subseteq proofs'
      /\ \A v \in Vtxos : row'[v] = row[v] \/ (v = pass.cur /\ row'[v] = pass.chain)
      /\ \A v \in Vtxos : row[v] # {} => row'[v] # {}
  BY <1>3, <1>5, StateTyped
<1>7. CapInv'
  <2>1. \A v \in Atomic : row'[v] = row[v]
    BY <1>3, <1>6, VaultAssumption
  <2>2. fate' = fate /\ cap' = cap /\ captured' = captured /\ bereft' = bereft
    BY <1>1 DEF world, capture
  <2> QED
    BY <1>6, <2>1, <2>2 DEF IInv, CapInv
<1>8. TypeOK'
  <2>1. faults' \in 0..MaxFaults
    BY <1>2, <1>3, FaultTyped
  <2>2. cap' \in [Atomic -> CapType] /\ captured' \subseteq Atomic /\ bereft' \subseteq Atomic
    BY <1>1, StateTyped DEF capture
  <2> QED
    BY <1>1, <1>4, <1>6, <2>1, <2>2, PassTypes, StateTyped
<1>9. ForgetStep /\ ReadyStep
  <2>1. ForgetStep
    BY <1>6 DEF ForgetStep, Stored, Rows, NoRow
  <2>2. ReadyStep
    BY <1>3, <1>6 DEF ReadyStep, isVtxoExitReady, Whole, missingProofTxids
  <2> QED
    BY <2>1, <2>2
<1> QED
  BY <1>4, <1>7, <1>8, <1>9 DEF Good, IInv, FetchInv

LEMMA GcFirstGood == IInv /\ GcFirst => Good
<1> SUFFICES ASSUME IInv, GcFirst PROVE Good
  OBVIOUS
<1> DEFINE swept == {v \in Unlisted : exit[v] = "swept"}
           needEvidence == {v \in Unlisted : exit[v] \in {"none", "failed"}} \ Atomic
<1>1. /\ UNCHANGED <<world, exit, forgotten, exits>> /\ UNCHANGED <<proofs, told, faults, lies>> /\ UNCHANGED capture
      /\ UNCHANGED <<due, retry, pending>>
      /\ row' = [v \in Vtxos |-> IF v \in swept THEN NoRow ELSE row[v]]
      /\ flag' = [v \in Vtxos |-> IF v \in swept \/ v \in pass.list THEN Unflagged ELSE flag[v]]
      /\ pass' = [pass EXCEPT !.at = IF needEvidence = {} THEN "judge" ELSE "absorb", !.todo = needEvidence]
  BY DEF GcFirst, timers
<1>2. pass' \in PassType /\ pass'.at \in {"judge", "absorb"}
  <2>1. needEvidence \subseteq Vtxos
    BY DEF Unlisted, Rows
  <2>2. \E x \in {"judge", "absorb"} : pass' = [pass EXCEPT !.at = x, !.todo = needEvidence]
    BY <1>1
  <2> QED
    BY <2>1, <2>2, StateTyped DEF PassType
<1>3. row' \in [Vtxos -> SUBSET Txs] /\ flag' \in [Vtxos -> 0..(Grace + 1)]
  BY <1>1, VaultAssumption, StateTyped DEF NoRow, Unflagged
<1>4. Thins
  BY <1>1, <1>3, StateTyped DEF Thins, capture, world, NoRow
<1>5. TypeOK'
  BY <1>1, <1>2, <1>3, <1>4, Thinning, PassTypes, StateTyped
<1>6. ForgetStep
  BY <1>1 DEF ForgetStep, Stored, Rows, Settled
<1> QED
  BY <1>2, <1>4, <1>5, <1>6, Thinning DEF Good, IInv, FetchInv

LEMMA AbsorbGood == IInv /\ Absorb => Good
<1> SUFFICES ASSUME IInv, Absorb PROVE Good
  OBVIOUS
<1>1. /\ UNCHANGED <<world, exit, forgotten, exits>> /\ UNCHANGED <<row, flag, proofs>> /\ UNCHANGED capture
      /\ UNCHANGED <<due, retry, pending, told, faults>>
  BY DEF Absorb, store, timers
<1>2. PICK said \in [pass.todo -> Rounds \cup {None}] :
        /\ lies' = lies \/ (lies < MaxLies /\ lies' = lies + 1)
        /\ pass' = [pass EXCEPT !.at = "judge", !.said = [v \in Vtxos |-> IF v \in pass.todo THEN said[v] ELSE None]]
  BY DEF Absorb
<1>3. [v \in Vtxos |-> IF v \in pass.todo THEN said[v] ELSE None] \in [Vtxos -> Rounds \cup {None}]
  OBVIOUS
<1>4. pass' \in PassType /\ pass'.at = "judge"
  BY <1>2, <1>3, StateTyped DEF PassType
<1>5. lies' \in 0..MaxLies
  BY <1>2, StateTyped, VaultAssumption
<1>6. FetchInv'
  BY <1>4 DEF FetchInv
<1> QED
  BY <1>1, <1>4, <1>5, <1>6, PassQuiet, StateTyped

LEMMA JudgeGood ==
  ASSUME IInv, NEW v \in Vtxos, Judge(v)
  PROVE  Good
<1>1. /\ UNCHANGED <<world, exit, forgotten, exits>> /\ UNCHANGED <<proofs, told, lies>> /\ UNCHANGED capture
      /\ UNCHANGED <<due, retry, pending>> /\ pass.at = "judge" /\ pass \in PassType
  BY StateTyped DEF Judge, timers
<1>2. pass' \in PassType /\ pass'.at = "judge" /\ faults' \in 0..MaxFaults
  <2>1. faults' \in 0..MaxFaults
    BY FaultTyped DEF Judge
  <2>2. pass' = [pass EXCEPT !.todo = @ \ {v}] \/ pass' = [pass EXCEPT !.todo = @ \ {v}, !.bad = TRUE]
    BY DEF Judge
  <2>3. CASE pass' = [pass EXCEPT !.todo = @ \ {v}]
    BY <1>1, <2>1, <2>3 DEF PassType
  <2>4. CASE pass' = [pass EXCEPT !.todo = @ \ {v}, !.bad = TRUE]
    BY <1>1, <2>1, <2>4 DEF PassType
  <2> QED
    BY <2>2, <2>3, <2>4
<1>3. /\ row' \in [Vtxos -> SUBSET Txs]
      /\ \A w \in Vtxos : row'[w] = row[w] \/ (w = v /\ row'[w] = {} /\ Verdict(v) \in {"absorbed", "spent-verified"})
  BY StateTyped DEF Judge, removeVtxo, NoRow
<1>4. flag' \in [Vtxos -> 0..(Grace + 1)]
  <2>1. CASE removeVtxo({v})
    BY <2>1, VaultAssumption, StateTyped DEF removeVtxo, Unflagged
  <2>2. CASE flag' = [flag EXCEPT ![v] = IF row[v] # NoRow /\ @ = Unflagged THEN 1 ELSE @]
    <3>1. 1 \in 0..(Grace + 1) /\ flag \in [Vtxos -> 0..(Grace + 1)]
      BY VaultAssumption, StateTyped
    <3>2. \E n \in 0..(Grace + 1) : flag' = [flag EXCEPT ![v] = n]
      BY <2>2, <3>1
    <3> QED
      BY <3>1, <3>2
  <2>3. CASE UNCHANGED flag
    BY <2>3, StateTyped
  <2> QED
    BY <2>1, <2>2, <2>3 DEF Judge
<1>5. Thins
  BY <1>1, <1>3, StateTyped DEF Thins, capture, world
<1>6. TypeOK'
  BY <1>1, <1>2, <1>3, <1>4, <1>5, Thinning, PassTypes, StateTyped
<1>7. ForgetStep
  <2>1. Verdict(v) = "absorbed" => Settled(v)
    BY ConservationShows DEF Verdict
  <2>2. Verdict(v) = "spent-verified" => Settled(v)
    BY DEF Verdict, Settled
  <2> QED
    BY <1>3, <2>1, <2>2 DEF ForgetStep, Stored, Rows
<1> QED
  BY <1>2, <1>5, <1>6, <1>7, Thinning DEF Good, IInv, FetchInv

LEMMA EndPassGood == IInv /\ EndPass => Good
<1> SUFFICES ASSUME IInv, EndPass PROVE Good
  OBVIOUS
<1>1. /\ UNCHANGED <<world, exit, forgotten, exits>> /\ UNCHANGED <<row, flag, due, faults, lies, captured>>
      /\ collect(row) /\ retry' = (retry \/ pass.bad)
  BY DEF EndPass
<1>2. pass' \in PassType /\ pass'.at \in {"idle", "list"} /\ pending' \in BOOLEAN /\ told' \subseteq Vtxos
  BY EndRunTyped DEF EndPass
<1>3. retry' \in BOOLEAN
  BY <1>1, StateTyped DEF PassType
<1>4. Thins
  <2>1. collect(row') /\ row' = row /\ fate' = fate
    BY <1>1 DEF collect, gcOrphanProofs, world
  <2> QED
    BY <1>1, <2>1, CollectThins, StateTyped
<1>5. TypeOK'
  BY <1>1, <1>2, <1>3, <1>4, Thinning, PassTypes, StateTyped
<1>6. ForgetStep
  BY <1>1 DEF ForgetStep, Stored, Rows
<1> QED
  BY <1>2, <1>4, <1>5, <1>6, Thinning DEF Good, IInv, FetchInv

-----------------------------------------------------------------------------
\* The other writers.

\* A row that is removed from outside a pass, and the collection that follows.
LEMMA RemovalGood ==
  ASSUME IInv, NEW v \in Vtxos, removeVtxo({v}), collect(row'), captured' = captured \ {v},
         \A w \in Atomic : fate'[w] = "unborn" => fate[w] = "unborn"
  PROVE  /\ row' \in [Vtxos -> SUBSET Txs] /\ flag' \in [Vtxos -> 0..(Grace + 1)] /\ Thins
         /\ \A w \in Vtxos : row'[w] = row[w] \/ w = v
<1>1. row' \in [Vtxos -> SUBSET Txs] /\ (\A w \in Vtxos : row'[w] = row[w] \/ row'[w] = {}) /\ \A w \in Vtxos : row'[w] = row[w] \/ w = v
  BY StateTyped DEF removeVtxo, NoRow
<1>2. flag' \in [Vtxos -> 0..(Grace + 1)]
  BY VaultAssumption, StateTyped DEF removeVtxo, Unflagged
<1>3. Thins
  BY <1>1, CollectThins
<1> QED
  BY <1>1, <1>2, <1>3

LEMMA LookCaptureGood ==
  ASSUME IInv, NEW v \in Atomic, CaptureLook(v)
  PROVE  Good
<1>0. v \in Vtxos
  BY VaultAssumption
<1>1. /\ UNCHANGED <<shown, lapsed, round, into, drops, exit, pass, told, forgotten, exits, lies>>
      /\ UNCHANGED <<row, flag, proofs, captured, bereft, due, retry, pending>>
      /\ fate[v] = "unborn" /\ fate' = [fate EXCEPT ![v] = "live"]
  BY DEF CaptureLook, store, timers
<1>2. row[v] = {} /\ ~cap[v].on /\ v \notin captured
  BY <1>1 DEF IInv, CapInv
<1>3. fate' \in [Vtxos -> Fates] /\ fate'[v] = "live" /\ \A w \in Vtxos : w # v => fate'[w] = fate[w]
  BY <1>0, <1>1, StateTyped DEF Fates
<1>4. /\ faults' \in 0..MaxFaults /\ cap' \in [Atomic -> CapType] /\ (\A w \in Atomic : w # v => cap'[w] = cap[w])
      /\ cap'[v].on => cap'[v].chain # {} /\ (cap'[v].chain \ cap'[v].gap) \subseteq proofs
  <2>1. CASE \E c \in Chains(v) :
               /\ c = ProofsOf[v] \/ faults < MaxFaults
               /\ faults' = IF c = ProofsOf[v] THEN faults ELSE faults + 1
               /\ cap' = [cap EXCEPT ![v] = [on |-> TRUE, chain |-> c, gap |-> missingProofTxids(c)]]
    <3>1. PICK c \in Chains(v) :
               /\ c = ProofsOf[v] \/ faults < MaxFaults
               /\ faults' = IF c = ProofsOf[v] THEN faults ELSE faults + 1
               /\ cap' = [cap EXCEPT ![v] = [on |-> TRUE, chain |-> c, gap |-> missingProofTxids(c)]]
      BY <2>1
    <3>2. c \subseteq Txs /\ c # {}
      BY <1>0, VaultAssumption DEF Chains
    <3>3. faults' \in 0..MaxFaults
      BY <3>1, FaultTyped
    <3>4. [on |-> TRUE, chain |-> c, gap |-> missingProofTxids(c)] \in CapType
      BY <3>2 DEF CapType, missingProofTxids
    <3>5. cap' \in [Atomic -> CapType] /\ cap'[v] = [on |-> TRUE, chain |-> c, gap |-> missingProofTxids(c)]
          /\ \A w \in Atomic : w # v => cap'[w] = cap[w]
      BY <3>1, <3>4, StateTyped
    <3> QED
      BY <3>2, <3>3, <3>5 DEF missingProofTxids
  <2>2. CASE Fault /\ UNCHANGED cap
    BY <1>2, <2>2, FaultTyped, StateTyped
  <2> QED
    BY <2>1, <2>2 DEF CaptureLook
<1>5. TypeOK'
  BY <1>1, <1>3, <1>4 DEF IInv, TypeOK, CapType, Fates
<1>6. CapInv'
  <2> SUFFICES ASSUME NEW w \in Atomic
      PROVE  /\ fate'[w] = "unborn" => row[w] = {} /\ ~cap'[w].on /\ w \notin captured
             /\ cap'[w].on => /\ row[w] = {} /\ w \notin captured /\ cap'[w].chain # {}
                              /\ w \in bereft \/ (cap'[w].chain \ cap'[w].gap) \subseteq proofs
             /\ w \in captured /\ w \notin bereft /\ row[w] # {} => row[w] = ProofsOf[w] /\ row[w] \subseteq proofs
    BY <1>1 DEF CapInv
  <2>1. CASE w = v
    BY <1>2, <1>3, <1>4, <2>1
  <2>2. CASE w # v
    <3>1. fate'[w] = fate[w] /\ cap'[w] = cap[w]
      BY <1>3, <1>4, <2>2, VaultAssumption
    <3> QED
      BY <3>1 DEF IInv, CapInv
  <2> QED
    BY <2>1, <2>2
<1>7. FetchInv' /\ ForgetStep /\ ReadyStep
  BY <1>1 DEF IInv, FetchInv, ForgetStep, ReadyStep, Stored, Rows, isVtxoExitReady, Whole, missingProofTxids
<1> QED
  BY <1>5, <1>6, <1>7 DEF Good, IInv

LEMMA StoreCaptureGood ==
  ASSUME IInv, NEW v \in Atomic, CaptureStore(v)
  PROVE  Good
<1>0. v \in Vtxos /\ Atomic \subseteq Vtxos
  BY VaultAssumption
<1>1. /\ UNCHANGED world /\ UNCHANGED <<flag, bereft, exit, pass, due, retry, pending, told, forgotten, exits, lies>>
      /\ cap[v].on /\ cap' = [cap EXCEPT ![v] = NoCapture] /\ fate' = fate
  BY DEF CaptureStore, timers, world
<1>2. /\ row[v] = {} /\ v \notin captured /\ cap[v].chain # {} /\ cap[v].chain \subseteq Txs /\ cap[v].gap \subseteq Txs
      /\ v \in bereft \/ (cap[v].chain \ cap[v].gap) \subseteq proofs
      /\ fate[v] # "unborn"
  BY <1>1, StateTyped DEF IInv, CapInv, CapType
<1>3. cap' \in [Atomic -> CapType] /\ ~cap'[v].on /\ \A w \in Atomic : w # v => cap'[w] = cap[w]
  <2>1. NoCapture \in CapType /\ ~NoCapture.on
    BY DEF NoCapture, CapType
  <2> QED
    BY <1>1, <2>1, StateTyped
<1>4. /\ row' \in [Vtxos -> SUBSET Txs] /\ proofs' \subseteq Txs /\ proofs \subseteq proofs' /\ faults' \in 0..MaxFaults
      /\ captured' \subseteq Atomic /\ \A w \in Vtxos : w # v => row'[w] = row[w]
      /\ \A w \in Atomic : w # v => (w \in captured' <=> w \in captured)
      /\ v \in captured' /\ v \notin bereft => row'[v] = ProofsOf[v] /\ row'[v] \subseteq proofs'
  <2>1. CASE \E got \in {cap[v].gap} \cup (IF cap[v].gap # {} /\ faults < MaxFaults THEN {{}} ELSE {}) :
              /\ storeVtxoWithProofs(v, cap[v].chain, got)
              /\ faults' = IF got = cap[v].gap THEN faults ELSE faults + 1
              /\ captured' = IF got = cap[v].gap /\ cap[v].chain = ProofsOf[v] THEN captured \cup {v} ELSE captured
    <3>1. PICK got \in {cap[v].gap} \cup (IF cap[v].gap # {} /\ faults < MaxFaults THEN {{}} ELSE {}) :
              /\ storeVtxoWithProofs(v, cap[v].chain, got)
              /\ faults' = IF got = cap[v].gap THEN faults ELSE faults + 1
              /\ captured' = IF got = cap[v].gap /\ cap[v].chain = ProofsOf[v] THEN captured \cup {v} ELSE captured
      BY <2>1
    <3>2. got \subseteq Txs /\ (got # cap[v].gap => faults < MaxFaults)
      BY <1>2
    <3>3. faults' \in 0..MaxFaults
      BY <3>1, <3>2, FaultTyped
    <3>4. row' = [row EXCEPT ![v] = cap[v].chain] /\ proofs' = proofs \cup got
      BY <3>1 DEF storeVtxoWithProofs
    <3>5. row' \in [Vtxos -> SUBSET Txs] /\ row'[v] = cap[v].chain /\ \A w \in Vtxos : w # v => row'[w] = row[w]
      BY <1>0, <1>2, <3>4, StateTyped
    <3>6. captured' \subseteq Atomic /\ \A w \in Atomic : w # v => (w \in captured' <=> w \in captured)
      BY <3>1, StateTyped
    <3>7. v \in captured' /\ v \notin bereft => row'[v] = ProofsOf[v] /\ row'[v] \subseteq proofs'
      BY <1>2, <3>1, <3>4, <3>5
    <3> QED
      BY <3>2, <3>3, <3>4, <3>5, <3>6, <3>7, StateTyped
  <2>2. CASE Fault /\ UNCHANGED <<row, proofs, captured>>
    BY <1>2, <2>2, FaultTyped, StateTyped
  <2> QED
    BY <2>1, <2>2 DEF CaptureStore
<1>5. TypeOK'
  BY <1>1, <1>3, <1>4 DEF IInv, TypeOK, CapType, world
<1>6. CapInv'
  <2> SUFFICES ASSUME NEW w \in Atomic
      PROVE  /\ fate[w] = "unborn" => row'[w] = {} /\ ~cap'[w].on /\ w \notin captured'
             /\ cap'[w].on => /\ row'[w] = {} /\ w \notin captured' /\ cap'[w].chain # {}
                              /\ w \in bereft \/ (cap'[w].chain \ cap'[w].gap) \subseteq proofs'
             /\ w \in captured' /\ w \notin bereft /\ row'[w] # {} => row'[w] = ProofsOf[w] /\ row'[w] \subseteq proofs'
    BY <1>1 DEF CapInv
  <2>1. CASE w = v
    BY <1>2, <1>3, <1>4, <2>1
  <2>2. CASE w # v
    <3>1. row'[w] = row[w] /\ cap'[w] = cap[w] /\ (w \in captured' <=> w \in captured) /\ proofs \subseteq proofs'
      BY <1>0, <1>3, <1>4, <2>2
    <3>2. /\ fate[w] = "unborn" => row[w] = {} /\ ~cap[w].on /\ w \notin captured
          /\ cap[w].on => /\ row[w] = {} /\ w \notin captured /\ cap[w].chain # {}
                          /\ w \in bereft \/ (cap[w].chain \ cap[w].gap) \subseteq proofs
          /\ w \in captured /\ w \notin bereft /\ row[w] # {} => row[w] = ProofsOf[w] /\ row[w] \subseteq proofs
      BY DEF IInv, CapInv
    <3> QED
      BY <3>1, <3>2
  <2> QED
    BY <2>1, <2>2
<1>7. FetchInv'
  BY <1>1, <1>4 DEF IInv, FetchInv
<1>8. ForgetStep /\ ReadyStep
  <2>1. ForgetStep
    BY <1>2, <1>4 DEF ForgetStep, Stored, Rows, NoRow
  <2>2. ~isVtxoExitReady(v)
    BY <1>0, <1>2, VaultAssumption DEF isVtxoExitReady, Whole
  <2>3. ReadyStep
    BY <1>4, <2>2 DEF ReadyStep, isVtxoExitReady, Whole, missingProofTxids
  <2> QED
    BY <2>1, <2>3
<1> QED
  BY <1>5, <1>6, <1>7, <1>8 DEF Good, IInv

LEMMA ReleaseGood ==
  ASSUME IInv, NEW v \in Atomic, Release(v)
  PROVE  Good
<1>0. v \in Vtxos
  BY VaultAssumption
<1>1. /\ UNCHANGED <<shown, lapsed, round, into, drops, exit, pass, due, retry, pending, told, forgotten, faults, exits, lies>>
      /\ removeVtxo({v}) /\ collect(row') /\ captured' = captured \ {v} /\ fate' = [fate EXCEPT ![v] = "spent"]
  BY DEF Release, timers
<1>2. fate' \in [Vtxos -> Fates] /\ \A w \in Atomic : fate'[w] = "unborn" => fate[w] = "unborn"
  BY <1>0, <1>1, StateTyped, VaultAssumption DEF Fates
<1>3. /\ row' \in [Vtxos -> SUBSET Txs] /\ flag' \in [Vtxos -> 0..(Grace + 1)] /\ Thins
      /\ \A w \in Vtxos : row'[w] = row[w] \/ w = v
  BY <1>0, <1>1, <1>2, RemovalGood
<1>4. TypeOK'
  BY <1>1, <1>2, <1>3, Thinning DEF IInv, TypeOK, Fates, CapType
<1>5. ForgetStep
  BY <1>3 DEF ForgetStep, Stored, Rows, Settled
<1> QED
  BY <1>1, <1>3, <1>4, <1>5, Thinning DEF Good, IInv

LEMMA OperatorGood == IInv /\ Operator => Good
<1> SUFFICES ASSUME IInv, NEW v \in Vtxos,
                    Forget(v) \/ StartExit(v) \/ EndExit(v, "swept") \/ EndExit(v, "failed")
             PROVE  Good
  BY DEF Operator
<1>1. UNCHANGED <<shown, lapsed, round, into, drops, pass, due, retry, pending, told, faults, lies>>
  BY DEF Forget, StartExit, EndExit, timers, world
<1>2. CASE Forget(v)
  <2>1. /\ removeVtxo({v}) /\ collect(row') /\ captured' = captured \ {v}
        /\ forgotten' = forgotten \cup {v} /\ UNCHANGED <<fate, exit, exits>>
    BY <1>2 DEF Forget, world
  <2>2. /\ row' \in [Vtxos -> SUBSET Txs] /\ flag' \in [Vtxos -> 0..(Grace + 1)] /\ Thins
        /\ \A w \in Vtxos : row'[w] = row[w] \/ w = v
    BY <2>1, RemovalGood
  <2>3. ForgetStep
    BY <2>1, <2>2 DEF ForgetStep, Stored, Rows
  <2>4. TypeOK'
    BY <1>1, <2>1, <2>2, Thinning DEF IInv, TypeOK, CapType
  <2> QED
    BY <1>1, <2>2, <2>3, <2>4, Thinning DEF Good, IInv
<1>3. CASE StartExit(v) \/ EndExit(v, "swept") \/ EndExit(v, "failed")
  <2>1. UNCHANGED <<row, flag, proofs, forgotten>> /\ UNCHANGED capture
    BY <1>3 DEF StartExit, EndExit, store
  <2>2. /\ fate' \in [Vtxos -> {"unborn", "live", "spent", "absorbed", "dropped", "unrolled"}]
        /\ exit' \in [Vtxos -> {"none", "flight", "swept", "failed"}]
        /\ \A w \in Vtxos : fate'[w] = "unborn" => fate[w] = "unborn"
    BY <1>3 DEF StartExit, EndExit, world, IInv, TypeOK
  <2>3. exits' \in 0..MaxExits
    BY <1>3, VaultAssumption DEF StartExit, EndExit, IInv, TypeOK
  <2>4. \A w \in Atomic : fate'[w] = "unborn" => fate[w] = "unborn"
    BY <2>2, VaultAssumption
  <2>5. TypeOK'
    BY <1>1, <2>1, <2>2, <2>3 DEF IInv, TypeOK, capture
  <2> QED
    BY <1>1, <2>1, <2>4, <2>5, StoreUntouched DEF Good, IInv
<1> QED
  BY <1>2, <1>3

LEMMA WorldGood == IInv /\ (Arkd \/ Tick) => Good
<1> SUFFICES ASSUME IInv, Arkd \/ Tick PROVE Good
  OBVIOUS
<1>1. /\ UNCHANGED <<row, proofs, exit, pass, retry, pending, told, forgotten, faults, exits, lies>> /\ UNCHANGED capture
      /\ due' \in BOOLEAN
  BY StateTyped DEF Arkd, Tick, store, timers, trigger
<1>2. /\ fate' \in [Vtxos -> Fates] /\ \A w \in Vtxos : fate'[w] = "unborn" => fate[w] = "unborn"
      /\ round' \in [Vtxos -> Rounds \cup {None}] /\ into' \in [Vtxos -> Rounds \cup {None}]
      /\ shown' \subseteq Vtxos /\ lapsed' \subseteq Vtxos /\ drops' \in 0..MaxDrops
  <2>0. /\ round \in [Vtxos -> Rounds \cup {None}] /\ into \in [Vtxos -> Rounds \cup {None}] /\ fate \in [Vtxos -> Fates]
        /\ shown \subseteq Vtxos /\ lapsed \subseteq Vtxos /\ drops \in 0..MaxDrops
    BY StateTyped DEF IInv, TypeOK
  <2>1. CASE \E v \in Vtxos : Arrives(v) \/ Spend(v) \/ ShowSpend(v) \/ Drop(v) \/ Relist(v) \/ Lapse(v)
    <3>1. PICK v \in Vtxos : Arrives(v) \/ Spend(v) \/ ShowSpend(v) \/ Drop(v) \/ Relist(v) \/ Lapse(v)
      BY <2>1
    <3>2. fate' = fate \/ \E f \in Fates \ {"unborn"} : fate' = [fate EXCEPT ![v] = f]
      BY <2>0, <3>1 DEF Arrives, Spend, ShowSpend, Drop, Relist, Lapse, Becomes, Fates
    <3>3. shown' \subseteq Vtxos /\ lapsed' \subseteq Vtxos
      BY <2>0, <3>1 DEF Arrives, Spend, ShowSpend, Drop, Relist, Lapse
    <3>4. drops' \in 0..MaxDrops
      BY <2>0, <3>1, VaultAssumption DEF Arrives, Spend, ShowSpend, Drop, Relist, Lapse
    <3>5. round' \in [Vtxos -> Rounds \cup {None}] /\ into' = into
      BY <2>0, <3>1 DEF Arrives, Spend, ShowSpend, Drop, Relist, Lapse, Origins
    <3>6. fate' \in [Vtxos -> Fates] /\ \A w \in Vtxos : fate'[w] = "unborn" => fate[w] = "unborn"
      BY <2>0, <3>2
    <3> QED
      BY <2>0, <3>3, <3>4, <3>5, <3>6
  <2>2. CASE \E C \in Rounds, S \in SUBSET Vtxos, o \in Vtxos : Settle(C, S, o)
    <3>1. PICK C \in Rounds, S \in SUBSET Vtxos, o \in Vtxos : Settle(C, S, o)
      BY <2>2
    <3>2. PICK f \in {"spent", "absorbed"} :
            fate' = [v \in Vtxos |-> IF v = o THEN "live" ELSE IF v \in S THEN f ELSE fate[v]]
      BY <3>1 DEF Settle
    <3>3. fate' \in [Vtxos -> Fates] /\ \A w \in Vtxos : fate'[w] = "unborn" => fate[w] = "unborn"
      BY <2>0, <3>2 DEF Fates
    <3>4. round' \in [Vtxos -> Rounds \cup {None}] /\ into' \in [Vtxos -> Rounds \cup {None}]
      BY <2>0, <3>1 DEF Settle
    <3>5. UNCHANGED <<shown, lapsed, drops>>
      BY <3>1 DEF Settle
    <3> QED
      BY <2>0, <3>3, <3>4, <3>5
  <2>3. CASE Tick
    BY <2>0, <2>3 DEF Tick, world
  <2> QED
    BY <2>1, <2>2, <2>3 DEF Arkd
<1>3. flag' \in [Vtxos -> 0..(Grace + 1)]
  BY VaultAssumption, StateTyped DEF Arkd, Tick, store
<1>4. TypeOK'
  BY <1>1, <1>2, <1>3 DEF IInv, TypeOK, Fates, capture
<1>5. \A w \in Atomic : fate'[w] = "unborn" => fate[w] = "unborn"
  BY <1>2, VaultAssumption
<1> QED
  BY <1>1, <1>4, <1>5, StoreUntouched DEF Good, IInv

-----------------------------------------------------------------------------
LEMMA StepsAreGood == IInv /\ [Next]_vars => IInv' /\ [ForgetStep]_vars /\ [ReadyStep]_vars
<1> SUFFICES ASSUME IInv, [Next]_vars PROVE IInv' /\ [ForgetStep]_vars /\ [ReadyStep]_vars
  OBVIOUS
<1>1. CASE UNCHANGED vars
  <2>1. IInv'
    BY <1>1 DEF vars, world, store, timers, capture, IInv, TypeOK, FetchInv, CapInv
  <2> QED
    BY <1>1, <2>1
<1>2. CASE Next
  <2>1. Good
    BY <1>2, RunGood, ListGood, LookGood, StoreGood, GcFirstGood, AbsorbGood, JudgeGood, EndPassGood,
       LookCaptureGood, StoreCaptureGood, ReleaseGood, OperatorGood, WorldGood
       DEF Next, Pass, Swaps
  <2> QED
    BY <2>1 DEF Good
<1> QED
  BY <1>1, <1>2

LEMMA InitHolds == Init => IInv
<1> SUFFICES ASSUME Init PROVE IInv
  OBVIOUS
<1>1. /\ fate \in [Vtxos -> {"unborn", "live", "spent", "absorbed", "dropped", "unrolled"}]
      /\ row \in [Vtxos -> SUBSET Txs] /\ exit \in [Vtxos -> {"none", "flight", "swept", "failed"}]
      /\ round \in [Vtxos -> Rounds \cup {None}] /\ into \in [Vtxos -> Rounds \cup {None}]
  BY DEF Init, NoRow, Silent
<1>2. /\ flag \in [Vtxos -> 0..(Grace + 1)] /\ faults \in 0..MaxFaults /\ drops \in 0..MaxDrops /\ exits \in 0..MaxExits
      /\ lies \in 0..MaxLies
  BY VaultAssumption DEF Init, Unflagged
<1>3. pass \in PassType /\ pass.at = "idle"
  BY IdleTyped DEF Init
<1>4. /\ shown \subseteq Vtxos /\ lapsed \subseteq Vtxos /\ forgotten \subseteq Vtxos /\ told \subseteq Vtxos
      /\ proofs \subseteq Txs /\ due \in BOOLEAN /\ retry \in BOOLEAN /\ pending \in BOOLEAN
      /\ captured \subseteq Atomic /\ bereft \subseteq Atomic
  BY DEF Init
<1>5. cap \in [Atomic -> CapType] /\ \A v \in Atomic : ~cap[v].on
  BY DEF Init, NoCapture, CapType
<1>6. TypeOK
  BY <1>1, <1>2, <1>3, <1>4, <1>5 DEF TypeOK, PassType, CapType
<1>7. FetchInv
  BY <1>3 DEF FetchInv
<1>8. CapInv
  <2>1. captured = {} /\ \A v \in Atomic : row[v] = {}
    BY VaultAssumption DEF Init, NoRow
  <2> QED
    BY <1>5, <2>1 DEF CapInv
<1> QED
  BY <1>6, <1>7, <1>8 DEF IInv

\* The vault's state stays well formed across every interleaving of passes,
\* captures, swaps, exits and the operator: no fetch under way stores a chain that
\* makes a row worse, and a capture still has what it found unless a collection
\* took it (exit/vault.ts, exit/proof_sync.ts, exit/sync_service.ts).
THEOREM VaultInvariance == Spec => []IInv
BY InitHolds, StepsAreGood, PTL DEF Spec

\* The vault forgets by itself only what was spent with our signature, swept, owned
\* by a swap that ended, or taken by the settlement arkd names, for any number of
\* vtxos and settlements and any true or false answers; a false name passes only
\* where the settlement's own rows and outputs do not account for each other
\* (exit/evidence.ts resolveAbsorbedByConservation, exit/proof_sync.ts).
THEOREM VaultForgetsOnlySettled == Spec => ForgetsOnlySettled
<1>1. Spec => [][ForgetStep]_vars
  BY VaultInvariance, StepsAreGood, PTL DEF Spec
<1> QED
  BY <1>1 DEF ForgetsOnlySettled, ForgetStep

\* A row that can exit can exit as long as it is stored, whoever collects orphans
\* and whatever is being fetched; and so can a swap's vtxo whose capture said
\* complete, unless a collection robbed that capture between its look and its store
\* (exit/vault.ts gcOrphanProofs, exit/proof_sync.ts captureVtxo).
THEOREM VaultKeepsProofs == Spec => RowsKeepProofs
<1> DEFINE A == \A v \in Vtxos : Stored(v)' /\ (isVtxoExitReady(v) \/ v \in (captured \ bereft)') => isVtxoExitReady(v)'
<1>1. IInv' /\ ReadyStep => A
  <2> SUFFICES ASSUME IInv', ReadyStep, NEW v \in Vtxos, Stored(v)', v \in (captured \ bereft)'
               PROVE  isVtxoExitReady(v)'
    BY DEF ReadyStep
  <2>1. v \in Atomic /\ row'[v] # {}
    BY DEF IInv, TypeOK, Stored, Rows, NoRow
  <2> QED
    BY <2>1 DEF IInv, CapInv, isVtxoExitReady, Whole, missingProofTxids
<1>2. IInv /\ [Next]_vars => [A]_vars
  BY <1>1, StepsAreGood
<1>3. Spec => [][A]_vars
  BY <1>2, VaultInvariance, PTL DEF Spec
<1> QED
  BY <1>3 DEF RowsKeepProofs

-----------------------------------------------------------------------------
(* The money side of an exit. The invariant follows the two values that a   *)
(* request carries over its awaits: the address it read is one that was     *)
(* verified when it read it, and the transaction it read lends its inputs   *)
(* and sets the floor above its own fee, so the rebuild conflicts with it   *)
(* and is another one.                                                      *)

\* A request that will pay an address read it from a verified row.
AddrInv ==
  /\ dest.verified => dest.addr \in signed
  /\ \A c \in Calls : call[c].kind \in {"finalSend", "boostFinalSend"} => call[c].addr \in signed

\* A transaction that was read sets the floor above its own fee, is of the kind
\* the request rebuilds, and its coins are among those of the rebuild.
FloorInv ==
  \A c \in Calls : call[c].kind \in Requests /\ call[c].tx # NoTx =>
    /\ call[c].floor > call[c].tx.fee
    /\ call[c].tx.kind = "step" <=> call[c].kind = "boostStep"
    /\ call[c].tx.coins \subseteq call[c].coins

CallType ==
  [kind : {"idle", "sent"} \cup Requests, addr : Addrs \cup {NoAddr}, floor : 0..(MaxFee + 1),
   coins : SUBSET Coins, ready : BOOLEAN, tx : FuelTxs \cup {NoTx}]

FuelInv == FuelTypeOK /\ AddrInv /\ FloorInv /\ SendsGoToVerified /\ NoSilentBoost

\* What a request may start from: nothing, or a transaction in the mempool with
\* its inputs and a floor above its fee.
LEMMA ReadsAreSound ==
  ASSUME FuelTypeOK, NEW t \in FuelTxs \cup {NoTx}, NEW r \in Reads(t)
  PROVE  /\ r.coins \subseteq Coins /\ r.tx \in FuelTxs \cup {NoTx} /\ r.floor \in 0..(MaxFee + 1)
         /\ (r.tx # NoTx => r.floor > r.tx.fee /\ r.tx.coins \subseteq r.coins /\ r.tx = t)
<1>1. CASE r = Unknown
  BY <1>1, FuelAssumption DEF Unknown
<1>2. CASE t \in mempool /\ r = [floor |-> t.fee + 1, coins |-> t.coins, tx |-> t]
  <2>1. t \in FuelTxs /\ t.fee \in 1..MaxFee /\ t.coins \subseteq Coins
    BY <1>2 DEF FuelTypeOK, FuelTxs, Children, Sends
  <2>2. r.tx = t /\ r.floor = t.fee + 1 /\ r.coins = t.coins
    BY <1>2
  <2> QED
    BY <2>1, <2>2, FuelAssumption
<1> QED
  BY <1>1, <1>2 DEF Reads, Readable

\* A request records what it read and nothing else changes.
LEMMA RequestKeeps ==
  ASSUME FuelInv, NEW c \in Calls, NEW kind \in Requests, NEW a \in Addrs \cup {NoAddr},
         NEW t \in FuelTxs \cup {NoTx}, NEW r \in Reads(t),
         r.tx # NoTx => (t.kind = "step" <=> kind = "boostStep"),
         Request(c, kind, a, r), kind # "boostStep" => a \in signed,
         UNCHANGED <<node, dest, signed, issues, silent>>
  PROVE  FuelInv'
<1> USE DEF FuelInv
<1>1. UNCHANGED <<funded, mempool, mined>>
  BY DEF node
<1> DEFINE q == [kind |-> kind, addr |-> a, floor |-> r.floor, coins |-> r.coins, ready |-> FALSE, tx |-> r.tx]
<1>2. q \in CallType
  BY ReadsAreSound DEF CallType
<1>3. /\ q.kind = kind /\ q.addr = a
      /\ q.tx # NoTx => q.floor > q.tx.fee /\ q.tx.coins \subseteq q.coins /\ (q.tx.kind = "step" <=> kind = "boostStep")
  BY ReadsAreSound
<1>4. call' = [call EXCEPT ![c] = q] /\ call \in [Calls -> CallType]
  BY DEF Request, FuelTypeOK, CallType
<1> HIDE DEF q
<1>5. call' \in [Calls -> CallType]
  BY <1>2, <1>4
<1>6. FuelTypeOK'
  BY <1>1, <1>5 DEF FuelTypeOK, CallType
<1>7. AddrInv'
  BY <1>3, <1>4 DEF AddrInv, Requests
<1>8. FloorInv'
  BY <1>3, <1>4 DEF FloorInv
<1> QED
  BY <1>1, <1>6, <1>7, <1>8 DEF SendsGoToVerified, NoSilentBoost

LEMMA RequestsKeep ==
  ASSUME FuelInv, NEW c \in Calls, boostStep(c) \/ finalSend(c) \/ boostFinalSend(c)
  PROVE  FuelInv'
<1> USE DEF FuelInv
<1>0. /\ \A t : Unknown \in Reads(t)
      /\ Unknown.tx = NoTx
  BY DEF Reads, Unknown
<1>1. CASE boostStep(c)
  <2>1. PICK r \in {Unknown} \cup UNION {Reads(t) : t \in currentChild} : Request(c, "boostStep", NoAddr, r)
    BY <1>1 DEF boostStep
  <2>2. PICK t \in FuelTxs \cup {NoTx} : r \in Reads(t) /\ (r = Unknown \/ t.kind = "step")
    BY <1>0, <2>1 DEF currentChild, FuelTypeOK
  <2>3. r.tx # NoTx => t.kind = "step"
    BY <1>0, <2>2
  <2> QED
    BY <1>1, <2>1, <2>2, <2>3, RequestKeeps DEF boostStep, Requests
<1>2. CASE finalSend(c)
  <2>1. dest.addr \in signed /\ dest.addr \in Addrs \cup {NoAddr}
    BY <1>2 DEF finalSend, AddrInv, FuelTypeOK
  <2>2. Unknown \in Reads(NoTx) /\ NoTx \in FuelTxs \cup {NoTx}
    BY <1>0
  <2> QED
    BY <1>0, <1>2, <2>1, <2>2, RequestKeeps DEF finalSend, Requests
<1>3. CASE boostFinalSend(c)
  <2>1. /\ dest.addr \in signed /\ dest.addr \in Addrs \cup {NoAddr}
        /\ dest.sent \in Sends
    BY <1>3 DEF boostFinalSend, AddrInv, FuelTypeOK
  <2>2. PICK r \in Reads(dest.sent) : Request(c, "boostFinalSend", dest.addr, r)
    BY <1>3 DEF boostFinalSend
  <2>3. dest.sent \in FuelTxs \cup {NoTx} /\ dest.sent.kind # "step"
    BY <2>1 DEF FuelTxs, Sends
  <2> QED
    BY <1>3, <2>1, <2>2, <2>3, RequestKeeps DEF boostFinalSend, Requests
<1> QED
  BY <1>1, <1>2, <1>3

\* The free coins come on top of those of the transaction that was read.
LEMMA PoolKeeps ==
  ASSUME FuelInv, NEW c \in Calls, fuelPool(c)
  PROVE  FuelInv'
<1> USE DEF FuelInv
<1>1. UNCHANGED <<funded, mempool, mined, dest, signed, issues, silent>>
  BY DEF fuelPool, node
<1> DEFINE q == [call[c] EXCEPT !.coins = call[c].coins \cup confirmedFuelCoins, !.ready = TRUE]
<1>2. call \in [Calls -> CallType] /\ call[c] \in CallType
  BY DEF FuelTypeOK, CallType
<1>3. call' = [call EXCEPT ![c] = q]
  BY <1>2 DEF fuelPool
<1>4. /\ q \in CallType /\ q.kind = call[c].kind /\ q.addr = call[c].addr /\ q.floor = call[c].floor
      /\ q.tx = call[c].tx /\ call[c].coins \subseteq q.coins
  BY <1>2 DEF CallType, confirmedFuelCoins, FuelTypeOK
<1> HIDE DEF q
<1>5. FuelTypeOK'
  BY <1>1, <1>2, <1>3, <1>4 DEF FuelTypeOK, CallType
<1>6. AddrInv' /\ FloorInv'
  BY <1>1, <1>2, <1>3, <1>4 DEF AddrInv, FloorInv
<1> QED
  BY <1>1, <1>5, <1>6 DEF SendsGoToVerified, NoSilentBoost

\* What a broadcast, a record or a failure leaves of a request.
LEMMA NoCallTyped == NoCall \in CallType /\ \A t \in FuelTxs : [NoCall EXCEPT !.kind = "sent", !.tx = t] \in CallType
<1>1. NoCall \in CallType
  BY FuelAssumption DEF NoCall, CallType
<1> QED
  BY <1>1 DEF CallType

LEMMA BroadcastKeeps ==
  ASSUME FuelInv, NEW c \in Calls, signAndBroadcast(c)
  PROVE  FuelInv'
<1> USE DEF FuelInv
<1>1. PICK t \in IF call[c].kind = "boostStep" THEN BuildsChild(c) ELSE BuildsSend(c) :
        /\ Place(t)
        /\ silent' = (silent \/ call[c].tx \in mempool')
        /\ call' = [call EXCEPT ![c] = [NoCall EXCEPT !.kind = "sent", !.tx = t]]
  BY DEF signAndBroadcast
<1>2. UNCHANGED <<funded, mined, dest, signed, issues>> /\ call[c].kind \in Requests
  BY DEF signAndBroadcast
<1>3. /\ t \in FuelTxs /\ t.fee >= call[c].floor /\ t # NoTx
      /\ (t.kind = "send" => call[c].kind # "boostStep" /\ t.addr = call[c].addr)
  BY <1>1, FuelAssumption DEF BuildsChild, BuildsSend, AddrOf, FuelTxs, Children, Sends, NoTx
<1>4. mempool' \subseteq mempool \cup {t} /\ mempool' \subseteq FuelTxs
  BY <1>1, <1>3 DEF Place, FuelTypeOK
<1> DEFINE q == [NoCall EXCEPT !.kind = "sent", !.tx = t]
<1>5. q \in CallType /\ q.kind = "sent"
  BY <1>3, NoCallTyped DEF NoCall
<1>6. call' = [call EXCEPT ![c] = q] /\ call \in [Calls -> CallType]
  BY <1>1 DEF FuelTypeOK, CallType
<1> HIDE DEF q
<1>7. silent' = silent
  <2> DEFINE u == call[c].tx
  <2>1. CASE u \in mempool
    <3>1. u # NoTx /\ u \in FuelTxs
      BY <2>1, FuelAssumption DEF FuelTypeOK, FuelTxs, Children, Sends, NoTx
    <3>2. u.fee < call[c].floor /\ u.coins \subseteq call[c].coins /\ (u.kind = "step" <=> call[c].kind = "boostStep")
      <4>1. u.fee \in Nat /\ call[c].floor \in Nat
        BY <3>1, FuelAssumption DEF FuelTypeOK, FuelTxs, Children, Sends
      <4> QED
        BY <1>2, <3>1, <4>1 DEF FloorInv
    <3>3. u # t
      <4>1. t.fee \in Nat /\ u.fee \in Nat /\ call[c].floor \in Nat
        BY <1>3, <3>1, FuelAssumption DEF FuelTypeOK, FuelTxs, Children, Sends
      <4> QED
        BY <1>3, <3>2, <4>1
    <3>4. u \in Conflicts(t)
      <4>1. CASE call[c].kind = "boostStep"
        <5>1. t.kind = "step" /\ u.kind = "step"
          BY <1>1, <3>2, <4>1 DEF BuildsChild, Children
        <5> QED
          BY <2>1, <3>3, <5>1 DEF Conflicts
      <4>2. CASE call[c].kind # "boostStep"
        <5>1. t.coins = call[c].coins
          BY <1>1, <4>2 DEF BuildsSend
        <5>2. u.coins # {}
          <6>1. u \in Children \/ u \in Sends
            BY <3>1 DEF FuelTxs
          <6>2. u.coins \in (SUBSET Coins) \ {{}}
            BY <6>1 DEF Children, Sends
          <6> QED
            BY <6>2
        <5>3. u.coins \cap t.coins # {}
          BY <3>2, <5>1, <5>2
        <5> QED
          BY <2>1, <3>3, <5>3 DEF Conflicts
      <4> QED
        BY <4>1, <4>2
    <3>5. u \notin mempool'
      BY <1>1, <3>3, <3>4 DEF Place
    <3> QED
      BY <1>1, <3>5, Zenon DEF FuelTypeOK, NoSilentBoost
  <2>2. CASE u \notin mempool
    <3>1. u # t
      <4>1. u = NoTx \/ u # NoTx
        OBVIOUS
      <4>2. CASE u # NoTx
        <5>1. t.fee \in Nat /\ u.fee \in Nat /\ call[c].floor \in Nat
          BY <1>3, <4>2, FuelAssumption DEF FuelTypeOK, FuelTxs, Children, Sends
        <5> QED
          BY <1>2, <1>3, <4>2, <5>1 DEF FloorInv
      <4> QED
        BY <1>3, <4>1, <4>2
    <3>2. u \notin mempool'
      BY <1>4, <2>2, <3>1
    <3> QED
      BY <1>1, <3>2, Zenon DEF FuelTypeOK, NoSilentBoost
  <2> QED
    BY <2>1, <2>2
<1>8. FuelTypeOK'
  <2>1. call' \in [Calls -> CallType]
    BY <1>5, <1>6
  <2> QED
    BY <1>2, <1>4, <1>7, <2>1 DEF FuelTypeOK, CallType
<1>9. AddrInv' /\ FloorInv'
  BY <1>2, <1>5, <1>6 DEF AddrInv, FloorInv, Requests
<1>10. SendsGoToVerified'
  BY <1>2, <1>3, <1>4 DEF SendsGoToVerified, AddrInv, Requests
<1> QED
  BY <1>7, <1>8, <1>9, <1>10 DEF NoSilentBoost

LEMMA RecordKeeps ==
  ASSUME FuelInv, NEW c \in Calls, Record(c) \/ CallFails(c)
  PROVE  FuelInv'
<1> USE DEF FuelInv
<1>1. UNCHANGED <<funded, mempool, mined, signed, issues, silent>> /\ call' = [call EXCEPT ![c] = NoCall]
  BY DEF Record, CallFails, node
<1>2. call' \in [Calls -> CallType]
  BY <1>1, NoCallTyped DEF FuelTypeOK, CallType
<1>3. /\ dest' \in [addr : Addrs \cup {NoAddr}, verified : BOOLEAN, sent : Sends \cup {NoTx}]
      /\ dest'.addr = dest.addr /\ dest'.verified = dest.verified
  <2>1. CASE UNCHANGED dest
    BY <2>1 DEF FuelTypeOK
  <2>2. CASE call[c].tx.kind = "send" /\ dest' = [dest EXCEPT !.sent = call[c].tx]
    <3>1. call[c].tx \in Sends
      BY <2>2 DEF FuelTypeOK, FuelTxs, Children, Sends, NoTx
    <3> QED
      BY <2>2, <3>1 DEF FuelTypeOK
  <2> QED
    BY <2>1, <2>2 DEF Record, CallFails, markDestSent
<1>4. FuelTypeOK'
  BY <1>1, <1>2, <1>3 DEF FuelTypeOK, CallType
<1>5. AddrInv' /\ FloorInv'
  BY <1>1, <1>3 DEF AddrInv, FloorInv, NoCall, Requests, FuelTypeOK
<1> QED
  BY <1>1, <1>4, <1>5 DEF SendsGoToVerified, NoSilentBoost

LEMMA DestKeeps ==
  ASSUME FuelInv, (\E a \in Addrs : issueDestChallenge(a)) \/ submitDestSignature \/ clearExitDest
  PROVE  FuelInv'
<1> USE DEF FuelInv
<1>1. UNCHANGED <<funded, mempool, mined, call, silent>> /\ signed \subseteq signed' /\ signed' \subseteq Addrs
      /\ issues' \in 0..MaxIssues
  BY FuelAssumption DEF issueDestChallenge, submitDestSignature, clearExitDest, node, FuelTypeOK
<1>2. /\ dest' \in [addr : Addrs \cup {NoAddr}, verified : BOOLEAN, sent : Sends \cup {NoTx}]
      /\ dest'.verified => dest'.addr \in signed'
  <2>1. CASE \E a \in Addrs : issueDestChallenge(a)
    BY <2>1 DEF issueDestChallenge, NoDest
  <2>2. CASE submitDestSignature
    BY <2>2 DEF submitDestSignature, FuelTypeOK
  <2>3. CASE clearExitDest
    BY <2>3 DEF clearExitDest, NoDest
  <2> QED
    BY <2>1, <2>2, <2>3
<1>3. FuelTypeOK'
  BY <1>1, <1>2 DEF FuelTypeOK
<1>4. AddrInv' /\ FloorInv' /\ SendsGoToVerified'
  BY <1>1, <1>2 DEF AddrInv, FloorInv, SendsGoToVerified
<1> QED
  BY <1>1, <1>3, <1>4 DEF NoSilentBoost

LEMMA NodeKeeps ==
  ASSUME FuelInv, Unroll \/ (\E k \in Coins : Fund(k)) \/ \E t \in mempool : Mine(t) \/ Evict(t)
  PROVE  FuelInv'
<1> USE DEF FuelInv
<1>1. UNCHANGED <<dest, signed, issues, call, silent>>
  BY DEF Unroll, Fund, Mine, Evict
<1>2. /\ funded' \subseteq Coins /\ mempool' \subseteq FuelTxs /\ mined' \subseteq FuelTxs
      /\ \A t \in mempool' \cup mined' : t.kind = "send" => t \in mempool \cup mined
  <2>1. CASE Unroll
    <3>1. PICK t \in Children : Place(t)
      BY <2>1 DEF Unroll
    <3> QED
      BY <2>1, <3>1 DEF Unroll, Place, FuelTypeOK, FuelTxs, Children
  <2>2. CASE \E k \in Coins : Fund(k)
    BY <2>2 DEF Fund, FuelTypeOK
  <2>3. CASE \E t \in mempool : Mine(t) \/ Evict(t)
    BY <2>3 DEF Mine, Evict, FuelTypeOK
  <2> QED
    BY <2>1, <2>2, <2>3
<1>3. FuelTypeOK'
  BY <1>1, <1>2 DEF FuelTypeOK
<1>4. AddrInv' /\ FloorInv' /\ SendsGoToVerified'
  BY <1>1, <1>2 DEF AddrInv, FloorInv, SendsGoToVerified
<1> QED
  BY <1>1, <1>3, <1>4 DEF NoSilentBoost

LEMMA FuelStarts == FuelInit => FuelInv
<1> SUFFICES ASSUME FuelInit PROVE FuelInv
  OBVIOUS
<1>1. FuelTypeOK
  <2>1. call \in [Calls -> CallType]
    BY NoCallTyped DEF FuelInit
  <2>2. dest \in [addr : Addrs \cup {NoAddr}, verified : BOOLEAN, sent : Sends \cup {NoTx}]
    BY DEF FuelInit, NoDest
  <2>3. /\ funded \subseteq Coins /\ signed \subseteq Addrs /\ mempool \subseteq FuelTxs /\ mined \subseteq FuelTxs
        /\ silent \in BOOLEAN
    BY DEF FuelInit
  <2>4. issues \in 0..MaxIssues
    BY FuelAssumption DEF FuelInit
  <2> QED
    BY <2>1, <2>2, <2>3, <2>4 DEF FuelTypeOK, CallType
<1>2. AddrInv /\ FloorInv /\ SendsGoToVerified /\ NoSilentBoost
  BY DEF FuelInit, AddrInv, FloorInv, SendsGoToVerified, NoSilentBoost, NoDest, NoCall, Requests
<1> QED
  BY <1>1, <1>2 DEF FuelInv

\* The invariant of the money side of an exit holds whatever the order of the
\* operator's requests, the broadcasts and the blocks (exit/boost.ts, exit/dest.ts).
THEOREM FuelInvariance == FuelSpec => []FuelInv
<1>1. FuelInv /\ [FuelNext]_fuelVars => FuelInv'
  <2> SUFFICES ASSUME FuelInv, [FuelNext]_fuelVars PROVE FuelInv'
    OBVIOUS
  <2>1. CASE UNCHANGED fuelVars
    BY <2>1 DEF fuelVars, node, FuelInv, FuelTypeOK, AddrInv, FloorInv, SendsGoToVerified, NoSilentBoost
  <2>2. CASE (\E a \in Addrs : issueDestChallenge(a)) \/ submitDestSignature \/ clearExitDest
    BY <2>2, DestKeeps
  <2>3. CASE \E c \in Calls : boostStep(c) \/ finalSend(c) \/ boostFinalSend(c)
    BY <2>3, RequestsKeep
  <2>4. CASE \E c \in Calls : fuelPool(c) \/ signAndBroadcast(c)
    BY <2>4, PoolKeeps, BroadcastKeeps
  <2>5. CASE \E c \in Calls : Record(c) \/ CallFails(c)
    BY <2>5, RecordKeeps
  <2>6. CASE Unroll \/ (\E k \in Coins : Fund(k)) \/ \E t \in mempool : Mine(t) \/ Evict(t)
    BY <2>6, NodeKeeps
  <2> QED
    BY <2>1, <2>2, <2>3, <2>4, <2>5, <2>6 DEF FuelNext
<1> QED
  BY <1>1, FuelStarts, PTL DEF FuelSpec

\* Every final send the node has pays an address the operator has signed for, for
\* any number of concurrent requests and replaced rows (exit/final_send.ts finalSend).
THEOREM SendsAreVerified == FuelSpec => []SendsGoToVerified
<1>1. FuelInv => SendsGoToVerified
  BY DEF FuelInv
<1> QED
  BY <1>1, FuelInvariance, PTL

\* A boost that reports success has put the stuck transaction it read out of the
\* mempool, for any coins and any concurrent requests (exit/boost.ts boostStep,
\* exit/final_send.ts boostFinalSend).
THEOREM BoostsAreReal == FuelSpec => []NoSilentBoost
<1>1. FuelInv => NoSilentBoost
  BY DEF FuelInv
<1> QED
  BY <1>1, FuelInvariance, PTL
===============================================================================
