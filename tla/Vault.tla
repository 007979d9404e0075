-------------------------------- MODULE Vault --------------------------------
(***************************************************************************)
(* The proof vault: the rows and proofs that let a vtxo leave without the  *)
(* ASP, the sync pass that mirrors what arkd lists and judges what it no   *)
(* longer lists, and the service that runs the passes (debounce, one pass  *)
(* at a time with one more pending, retry) and raises the betrayal alarm.  *)
(* A pass is split at its awaits, so swaps, exits, the operator and arkd   *)
(* act between the moment it reads and the moment it writes; so is the     *)
(* capture of a swap's shared vtxo.  Whether a chain closes and whether a  *)
(* signature is ours are facts of the environment here; which settlement   *)
(* consumed a vtxo is arkd's word, true or not, weighed by the sats.       *)
(***************************************************************************)
EXTENDS Naturals, FiniteSets

CONSTANTS
  Vtxos,      \* the wallet's vtxos and the shared vtxos of atomic swaps
  Atomic,     \* the shared ones: never listed, owned by the swap code
  Txs,        \* proof transactions
  ProofsOf,   \* [Vtxos -> SUBSET Txs]: the proofs of a whole chain
  Rounds,     \* settlements, by their commitment transactions
  SatsOf,     \* [SUBSET Vtxos -> Nat]: what the vtxos of a set are worth
  None,       \* no vtxo, no settlement
  Grace,      \* ticks a flag must survive before the alarm
  MaxFaults,  \* bound on failed or partial answers of the indexer
  MaxDrops,   \* bound on vtxos arkd drops without a reason
  MaxExits,   \* bound on exits the operator starts
  MaxLies     \* bound on answers that name a settlement wrongly

ASSUME VaultAssumption ==
  /\ Atomic \subseteq Vtxos /\ None \notin Vtxos \cup Rounds
  /\ ProofsOf \in [Vtxos -> SUBSET Txs] /\ \A v \in Vtxos : ProofsOf[v] # {}
  /\ Grace \in Nat /\ MaxFaults \in Nat /\ MaxDrops \in Nat /\ MaxExits \in Nat
  /\ MaxLies \in Nat

\* Amounts add up, and no vtxo is worth nothing.
ASSUME SatsAssumption ==
  /\ SatsOf \in [SUBSET Vtxos -> Nat]
  /\ \A S, T \in SUBSET Vtxos : S \cap T = {} => SatsOf[S \cup T] = SatsOf[S] + SatsOf[T]
  /\ \A v \in Vtxos : SatsOf[{v}] > 0

VARIABLES
  fate,     \* what is true of the vtxo
  shown,    \* spends whose evidence arkd serves
  lapsed,   \* vtxos whose batch has expired
  round,    \* the one settlement a vtxo descends from, if it is one
  into,     \* the settlement that really consumed a vtxo
  row,      \* exit_vtxos: [Vtxos -> the proofs its chain names, or NoRow]
  flag,     \* quarantine: Unflagged, or one more than its age
  proofs,   \* exit_proof_txs
  exit,     \* [Vtxos -> the exit op, as far as the vault looks at it]
  pass,     \* the running pass
  cap,      \* [Atomic -> the capture under way]
  captured, \* rows whose capture ended with complete: true
  bereft,   \* captures under way when a collection took a proof they had found
  due, retry, pending,  \* debounce timer, retry timer, pendingReason
  told,     \* notifiedBetrayals
  forgotten, faults, drops, exits, lies

world == <<fate, shown, lapsed, round, into, drops>>
capture == <<cap, captured, bereft>>
store == <<row, flag, proofs>>
timers == <<due, retry, pending>>
vars == <<world, store, capture, exit, pass, timers, told, forgotten, faults, exits, lies>>

NoRow == {}
Unflagged == 0
Silent == [v \in Vtxos |-> None]
Idle == [at |-> "idle", list |-> {}, todo |-> {}, cur |-> None, gap |-> {}, chain |-> {}, said |-> Silent, bad |-> FALSE]
NoCapture == [on |-> FALSE, chain |-> {}, gap |-> {}]

TypeOK ==
  /\ fate \in [Vtxos -> {"unborn", "live", "spent", "absorbed", "dropped", "unrolled"}]
  /\ shown \subseteq Vtxos /\ lapsed \subseteq Vtxos /\ forgotten \subseteq Vtxos /\ told \subseteq Vtxos
  /\ row \in [Vtxos -> SUBSET Txs] /\ flag \in [Vtxos -> 0..(Grace + 1)]
  /\ proofs \subseteq Txs
  /\ exit \in [Vtxos -> {"none", "flight", "swept", "failed"}]
  /\ round \in [Vtxos -> Rounds \cup {None}] /\ into \in [Vtxos -> Rounds \cup {None}]
  /\ pass \in [at : {"idle", "list", "mirror", "fetch", "absorb", "judge"}, list : SUBSET Vtxos, todo : SUBSET Vtxos,
               cur : Vtxos \cup {None}, gap : SUBSET Txs, chain : SUBSET Txs,
               said : [Vtxos -> Rounds \cup {None}], bad : BOOLEAN]
  /\ cap \in [Atomic -> [on : BOOLEAN, chain : SUBSET Txs, gap : SUBSET Txs]]
  /\ captured \subseteq Atomic /\ bereft \subseteq Atomic
  /\ due \in BOOLEAN /\ retry \in BOOLEAN /\ pending \in BOOLEAN
  /\ faults \in 0..MaxFaults /\ drops \in 0..MaxDrops /\ exits \in 0..MaxExits /\ lies \in 0..MaxLies

Init ==
  /\ fate = [v \in Vtxos |-> "unborn"] /\ shown = {} /\ lapsed = {}
  /\ round = Silent /\ into = Silent
  /\ row = [v \in Vtxos |-> NoRow] /\ flag = [v \in Vtxos |-> Unflagged] /\ proofs = {}
  /\ exit = [v \in Vtxos |-> "none"] /\ pass = Idle
  /\ cap = [v \in Atomic |-> NoCapture] /\ captured = {} /\ bereft = {}
  /\ due = TRUE /\ retry = FALSE /\ pending = FALSE
  /\ told = {}
  /\ forgotten = {} /\ faults = 0 /\ drops = 0 /\ exits = 0 /\ lies = 0

-----------------------------------------------------------------------------
\* The store.

Rows == {v \in Vtxos : row[v] # NoRow}
Whole(v) == row[v] = ProofsOf[v]

missingProofTxids(chain) == chain \ proofs

\* isVtxoExitReady: every proof of the chain is there and the chain closes.
isVtxoExitReady(v) == Whole(v) /\ missingProofTxids(row[v]) = {}

\* storeVtxoWithProofs, in one transaction: the flag is not touched.
storeVtxoWithProofs(v, chain, new) ==
  /\ row' = [row EXCEPT ![v] = chain]
  /\ proofs' = proofs \cup new

\* removeVtxo for a set of rows; the flag goes with the row.
removeVtxo(gone) ==
  /\ row' = [v \in Vtxos |-> IF v \in gone THEN NoRow ELSE row[v]]
  /\ flag' = [v \in Vtxos |-> IF v \in gone THEN Unflagged ELSE flag[v]]

\* Mutant: only unflagged rows count as references.
gcOrphanProofsUnflagged(r) == proofs \cap UNION {r[v] : v \in {w \in Vtxos : flag[w] = Unflagged}}

\* gcOrphanProofs: what the rows r still name; flagged rows count.
gcOrphanProofs(r) == proofs \cap UNION {r[v] : v \in Vtxos}

\* A collection: proofs no row of r names go, whatever a capture under way found.
collect(r) ==
  /\ proofs' = gcOrphanProofs(r)
  /\ bereft' = bereft \cup {v \in Atomic : cap[v].on /\ ~((cap[v].chain \ cap[v].gap) \subseteq proofs')}
  /\ UNCHANGED cap

-----------------------------------------------------------------------------
\* The service.

\* trigger: the debounce timer is set anew.
trigger == due' = TRUE

\* run, when the debounce or retry timer fires: one pass at a time, and one more
\* remembered.
run ==
  /\ IF pass.at = "idle"
     THEN pass' = [Idle EXCEPT !.at = "list"] /\ UNCHANGED pending
     ELSE pending' = TRUE /\ UNCHANGED pass
  /\ UNCHANGED <<world, store, capture, lies, exit, told, forgotten, faults, exits>>

DebounceFires == due /\ due' = FALSE /\ UNCHANGED retry /\ run
RetryFires == retry /\ retry' = FALSE /\ UNCHANGED due /\ run

\* The ten-minute poll.
Poll == ~due /\ trigger /\ UNCHANGED <<world, store, capture, lies, exit, pass, retry, pending, told, forgotten, faults, exits>>

\* listMaturedBetrayals: flags that survived the grace, unless an exit owns the
\* row; an expired batch has its own story.
listMaturedBetrayals(r, f) == {v \in Vtxos : r[v] # NoRow /\ f[v] = Grace + 1 /\ v \notin lapsed /\ exit[v] \in {"none", "failed"}}

\* checkMaturedBetrayals: the alarm goes out for those that are not in told yet,
\* and told is exactly the present ones.
checkMaturedBetrayals(r, f) == told' = listMaturedBetrayals(r, f)

\* The finally of run: the alarm, and the remembered pass.
endRun(r, f) ==
  /\ checkMaturedBetrayals(r, f)
  /\ pass' = IF pending THEN [Idle EXCEPT !.at = "list"] ELSE Idle
  /\ pending' = FALSE

\* Indexer answers that fail are bounded.
Fault == faults < MaxFaults /\ faults' = faults + 1

\* listVtxos, the first await of a pass.
ListVtxos ==
  /\ pass.at = "list"
  /\ \/ /\ pass' = [pass EXCEPT !.at = "mirror", !.list = {v \in Vtxos \ Atomic : fate[v] = "live"},
                                !.todo = {v \in Vtxos \ Atomic : fate[v] = "live"}]
        /\ UNCHANGED <<due, retry, pending, told, faults>>
     \/ Fault /\ retry' = TRUE /\ endRun(row, flag) /\ UNCHANGED due
  /\ UNCHANGED <<world, store, capture, lies, exit, forgotten, exits>>

-----------------------------------------------------------------------------
\* A pass, first half: mirror what is listed.

\* A vtxo that is whole and complete needs no network.  Otherwise the chain is
\* fetched, unless the stored one closes, and the gap in the proofs is computed.
\* The indexer may answer with a chain that does not close, or fail.
Chains(v) == IF Whole(v) THEN {ProofsOf[v]} ELSE {ProofsOf[v]} \cup {{t} : t \in ProofsOf[v]}
\* Mutant: a stored chain is taken for immutable, so one with a hole is kept.
MirrorLookFrozen(v) ==
  /\ pass.at = "mirror" /\ v \in pass.todo
  /\ IF row[v] # NoRow
     THEN pass' = [pass EXCEPT !.todo = @ \ {v}] /\ UNCHANGED faults
     ELSE \E c \in Chains(v) :
            /\ c = ProofsOf[v] \/ faults < MaxFaults
            /\ faults' = IF c = ProofsOf[v] THEN faults ELSE faults + 1
            /\ pass' = [pass EXCEPT !.at = "fetch", !.cur = v, !.chain = c, !.gap = missingProofTxids(c)]
  /\ UNCHANGED <<world, store, capture, lies, exit, timers, told, forgotten, exits>>

MirrorLook(v) ==
  /\ pass.at = "mirror" /\ v \in pass.todo
  /\ IF isVtxoExitReady(v)
     THEN pass' = [pass EXCEPT !.todo = @ \ {v}] /\ UNCHANGED faults
     ELSE \/ \E c \in Chains(v) :
               /\ c = ProofsOf[v] \/ faults < MaxFaults
               /\ faults' = IF c = ProofsOf[v] THEN faults ELSE faults + 1
               /\ pass' = [pass EXCEPT !.at = "fetch", !.cur = v, !.chain = c, !.gap = missingProofTxids(c)]
          \/ Fault /\ pass' = [pass EXCEPT !.todo = @ \ {v}, !.bad = TRUE]
  /\ UNCHANGED <<world, store, capture, lies, exit, timers, told, forgotten, exits>>

\* The proofs arrive, all of the gap or some of it, and are stored with the row.
MirrorStore ==
  /\ pass.at = "fetch"
  /\ \E got \in {pass.gap} \cup (IF pass.gap # {} /\ faults < MaxFaults THEN {{}} ELSE {}) :
       /\ storeVtxoWithProofs(pass.cur, pass.chain, got)
       /\ faults' = IF got = pass.gap THEN faults ELSE faults + 1
       /\ pass' = [pass EXCEPT !.at = "mirror", !.todo = @ \ {pass.cur}, !.cur = None, !.chain = {}, !.gap = {},
                               !.bad = @ \/ got # pass.gap]
  /\ UNCHANGED <<world, flag, capture, lies, exit, timers, told, forgotten, exits>>

\* Second half, before the first await: a listed row is exonerated, a swept exit
\* is its own evidence, an exit in flight and a swap's row are left alone, and
\* the rest has to be explained.
Unlisted == Rows \ pass.list
GcFirst ==
  /\ pass.at = "mirror" /\ pass.todo = {}
  /\ LET swept == {v \in Unlisted : exit[v] = "swept"}
     IN /\ row' = [v \in Vtxos |-> IF v \in swept THEN NoRow ELSE row[v]]
        /\ flag' = [v \in Vtxos |-> IF v \in swept \/ v \in pass.list THEN Unflagged ELSE flag[v]]
        /\ LET needEvidence == {v \in Unlisted : exit[v] \in {"none", "failed"}} \ Atomic
           IN pass' = [pass EXCEPT !.at = IF needEvidence = {} THEN "judge" ELSE "absorb", !.todo = needEvidence]
  /\ UNCHANGED <<world, proofs, capture, lies, exit, timers, told, forgotten, faults, exits>>

\* Settlement absorption: one answer says of each row which settlement took it.
\* It may be silent, also by failing, and it may be wrong.
Absorb ==
  /\ pass.at = "absorb"
  /\ \E said \in [pass.todo -> Rounds \cup {None}] :
       LET wrong == \E v \in pass.todo : said[v] \notin {None, into[v]}
       IN /\ wrong => lies < MaxLies
          /\ lies' = IF wrong THEN lies + 1 ELSE lies
          /\ pass' = [pass EXCEPT !.at = "judge", !.said = [v \in Vtxos |-> IF v \in pass.todo THEN said[v] ELSE None]]
  /\ UNCHANGED <<world, store, capture, exit, timers, told, forgotten, faults, exits>>

\* Mutant: the settlement arkd names is evidence enough.
absorbedOnWord(v) == pass.said[v] # None

\* resolveAbsorbedByConservation: the rows said to have gone into a settlement are
\* worth what the listed vtxos of that settlement are.
Group(C) == {v \in Vtxos : pass.said[v] = C}
Created(C) == {o \in pass.list : round[o] = C}
absorbed(v) == pass.said[v] # None /\ SatsOf[Group(pass.said[v])] = SatsOf[Created(pass.said[v])]

\* classifyDisappearance, after absorption.
Verdict(v) ==
  IF absorbed(v) THEN "absorbed"
  ELSE IF v \in lapsed THEN "expired"
  ELSE IF fate[v] = "spent" /\ v \in shown THEN "spent-verified" ELSE "unproven"

\* One verdict: removal only with evidence, a first flag keeps its age, a failed
\* question changes nothing; absorption and expiry ask none.  The row may have
\* gone in the meantime.
Judge(v) ==
  /\ pass.at = "judge" /\ v \in pass.todo
  /\ \/ /\ IF Verdict(v) \in {"absorbed", "spent-verified"}
           THEN removeVtxo({v})
           ELSE flag' = [flag EXCEPT ![v] = IF row[v] # NoRow /\ @ = Unflagged THEN 1 ELSE @] /\ UNCHANGED row
        /\ pass' = [pass EXCEPT !.todo = @ \ {v}]
        /\ UNCHANGED faults
     \/ /\ Verdict(v) \in {"spent-verified", "unproven"} /\ Fault
        /\ pass' = [pass EXCEPT !.todo = @ \ {v}, !.bad = TRUE] /\ UNCHANGED <<row, flag>>
  /\ UNCHANGED <<world, proofs, capture, lies, exit, timers, told, forgotten, exits>>

\* The end of a pass: orphaned proofs go, a gap sets the retry timer.
EndPass ==
  /\ pass.at = "judge" /\ pass.todo = {}
  /\ collect(row) /\ UNCHANGED captured
  /\ retry' = (retry \/ pass.bad)
  /\ endRun(row, flag)
  /\ UNCHANGED <<world, row, flag, exit, due, forgotten, faults, exits, lies>>

-----------------------------------------------------------------------------
\* The other writers.

\* captureVtxo of a swap's vtxo, once, when it is funded: the chain is fetched and
\* the gap computed, or the call throws and the swap goes on without a row.
CaptureLook(v) ==
  /\ v \in Atomic /\ fate[v] = "unborn"
  /\ fate' = [fate EXCEPT ![v] = "live"]
  /\ \/ \E c \in Chains(v) :
          /\ c = ProofsOf[v] \/ faults < MaxFaults
          /\ faults' = IF c = ProofsOf[v] THEN faults ELSE faults + 1
          /\ cap' = [cap EXCEPT ![v] = [on |-> TRUE, chain |-> c, gap |-> missingProofTxids(c)]]
     \/ Fault /\ UNCHANGED cap
  /\ UNCHANGED <<shown, lapsed, round, into, drops, store, captured, bereft, exit, pass, timers, told, forgotten, exits, lies>>

\* After the awaits: what came is stored, or the call throws.  It says complete when
\* all it asked for came and the chain closes.
CaptureStore(v) ==
  /\ v \in Atomic /\ cap[v].on
  /\ cap' = [cap EXCEPT ![v] = NoCapture]
  /\ \/ \E got \in {cap[v].gap} \cup (IF cap[v].gap # {} /\ faults < MaxFaults THEN {{}} ELSE {}) :
          /\ storeVtxoWithProofs(v, cap[v].chain, got)
          /\ faults' = IF got = cap[v].gap THEN faults ELSE faults + 1
          /\ captured' = IF got = cap[v].gap /\ cap[v].chain = ProofsOf[v] THEN captured \cup {v} ELSE captured
     \/ Fault /\ UNCHANGED <<row, proofs, captured>>
  /\ UNCHANGED <<world, flag, bereft, exit, pass, timers, told, forgotten, exits, lies>>

\* releaseVaultRow, at the end of the swap that owns the row.
Release(v) ==
  /\ v \in Atomic /\ fate[v] = "live" /\ ~cap[v].on /\ exit[v] = "none"
  /\ fate' = [fate EXCEPT ![v] = "spent"]
  /\ removeVtxo({v})
  /\ collect(row') /\ captured' = captured \ {v}
  /\ UNCHANGED <<shown, lapsed, round, into, drops, exit, pass, timers, told, forgotten, faults, exits, lies>>

\* The operator's forget.
Forget(v) ==
  /\ row[v] # NoRow /\ flag[v] # Unflagged
  /\ removeVtxo({v})
  /\ collect(row') /\ captured' = captured \ {v}
  /\ forgotten' = forgotten \cup {v}
  /\ UNCHANGED <<world, exit, pass, timers, told, faults, exits, lies>>

\* The exit engine: once on chain, the vtxo is no longer listed.
StartExit(v) ==
  /\ row[v] # NoRow /\ exit[v] \in {"none", "failed"} /\ exits < MaxExits
  /\ exits' = exits + 1
  /\ exit' = [exit EXCEPT ![v] = "flight"]
  /\ fate' = [fate EXCEPT ![v] = IF @ \in {"live", "dropped"} THEN "unrolled" ELSE @]
  /\ UNCHANGED <<shown, lapsed, round, into, drops, store, capture, pass, timers, told, forgotten, faults, lies>>

EndExit(v, how) ==
  /\ exit[v] = "flight" /\ how \in (IF fate[v] = "unrolled" THEN {"swept", "failed"} ELSE {"failed"})
  /\ exit' = [exit EXCEPT ![v] = how]
  /\ UNCHANGED <<world, store, capture, pass, timers, told, forgotten, faults, exits, lies>>

-----------------------------------------------------------------------------
\* arkd and the wallet; every change of funds triggers a pass.

Becomes(v, f) == fate' = [fate EXCEPT ![v] = f]
Origins == UNCHANGED <<round, into>>

\* A payment received; its vtxo may descend from one settlement only.
Arrives(v) ==
  /\ v \notin Atomic /\ fate[v] = "unborn" /\ Becomes(v, "live")
  /\ \E C \in Rounds \cup {None} : round' = [round EXCEPT ![v] = C]
  /\ UNCHANGED <<shown, lapsed, into, drops>>

\* A settlement of ours turns live vtxos, with boarding money or less a fee, into
\* one: with forfeits that carry our signature, or without any.
Settle(C, S, o) ==
  /\ \A v \in Vtxos : round[v] # C
  /\ o \notin Atomic /\ fate[o] = "unborn" /\ \A v \in S : v \notin Atomic /\ fate[v] = "live"
  /\ \E f \in {"spent", "absorbed"} :
       fate' = [v \in Vtxos |-> IF v = o THEN "live" ELSE IF v \in S THEN f ELSE fate[v]]
  /\ round' = [round EXCEPT ![o] = C]
  /\ into' = [v \in Vtxos |-> IF v \in S THEN C ELSE into[v]]
  /\ UNCHANGED <<shown, lapsed, drops>>

\* A payment, or a settlement that leaves nothing in the wallet.
Spend(v) == v \notin Atomic /\ fate[v] = "live" /\ (\E f \in {"spent", "absorbed"} : Becomes(v, f)) /\ Origins /\ UNCHANGED <<shown, lapsed, drops>>
ShowSpend(v) == fate[v] = "spent" /\ v \notin Atomic /\ v \notin shown /\ shown' = shown \cup {v} /\ Origins /\ UNCHANGED <<fate, lapsed, drops>>
Drop(v) == v \notin Atomic /\ fate[v] = "live" /\ drops < MaxDrops /\ drops' = drops + 1 /\ Becomes(v, "dropped") /\ Origins /\ UNCHANGED <<shown, lapsed>>
Relist(v) == fate[v] = "dropped" /\ v \notin lapsed /\ Becomes(v, "live") /\ Origins /\ UNCHANGED <<shown, lapsed, drops>>
Lapse(v) ==
  /\ v \notin Atomic \cup lapsed /\ fate[v] \in {"live", "spent", "absorbed"} /\ drops < MaxDrops
  /\ drops' = drops + 1 /\ lapsed' = lapsed \cup {v}
  /\ Becomes(v, IF fate[v] = "live" THEN "dropped" ELSE fate[v]) /\ Origins /\ UNCHANGED shown
Arkd ==
  /\ \/ \E v \in Vtxos : Arrives(v) \/ Spend(v) \/ ShowSpend(v) \/ Drop(v) \/ Relist(v) \/ Lapse(v)
     \/ \E C \in Rounds, S \in SUBSET Vtxos, o \in Vtxos : Settle(C, S, o)
  /\ trigger
  /\ UNCHANGED <<store, capture, exit, pass, retry, pending, told, forgotten, faults, exits, lies>>

\* Flags age.
Tick ==
  /\ \E v \in Vtxos : flag[v] \in 1..Grace
  /\ flag' = [v \in Vtxos |-> IF flag[v] \in 1..Grace THEN flag[v] + 1 ELSE flag[v]]
  /\ UNCHANGED <<world, row, proofs, capture, lies, exit, pass, timers, told, forgotten, faults, exits>>

Pass == ListVtxos \/ (\E v \in Vtxos : MirrorLook(v) \/ Judge(v)) \/ MirrorStore \/ GcFirst \/ Absorb \/ EndPass
Swaps == \E v \in Atomic : CaptureLook(v) \/ CaptureStore(v) \/ Release(v)
Operator == \E v \in Vtxos : Forget(v) \/ StartExit(v) \/ EndExit(v, "swept") \/ EndExit(v, "failed")

Next == Pass \/ DebounceFires \/ RetryFires \/ Poll \/ Swaps \/ Operator \/ Arkd \/ Tick

Spec == Init /\ [][Next]_vars

\* Timers fire, the awaits of a pass end, the poll comes round and
\* time passes.
LiveSpec ==
  /\ Spec
  /\ WF_vars(Pass) /\ WF_vars(DebounceFires) /\ WF_vars(RetryFires) /\ WF_vars(Poll) /\ WF_vars(Tick)

-----------------------------------------------------------------------------
\* The vault forgets a vtxo by itself only when the money is accounted for: it
\* was spent with our signature or swept by our own exit, or it went into the
\* settlement arkd names.  A false name is caught by the sums whenever the rows
\* that settlement really took are named with it and are worth its listed outputs;
\* where they are not (boarding money, a received vtxo below the same commitment,
\* rows already gone or not named), the sums say nothing of the settlement.
Stored(v) == v \in Rows
Inputs(C) == {v \in Vtxos : into[v] = C}
Accounted(C) == Inputs(C) \subseteq Group(C) /\ SatsOf[Inputs(C)] = SatsOf[Created(C)]
Settled(v) ==
  \/ fate[v] = "spent" \/ exit[v] = "swept" \/ v \in Atomic
  \/ pass.said[v] # None /\ (into[v] = pass.said[v] \/ ~Accounted(pass.said[v]))
ForgetsOnlySettled ==
  [][\A v \in Vtxos : Stored(v) /\ ~Stored(v)' /\ v \notin forgotten' => Settled(v)]_vars

\* Proofs last as long as the rows that need them: a row that can exit and stays
\* can still exit, whoever collects orphans and whatever is being fetched; and a
\* swap's vtxo whose capture said complete can exit as long as its row is there,
\* unless a collection fell between the capture's look and its store and took a
\* shared proof the capture did not ask for.
RowsKeepProofs ==
  [][\A v \in Vtxos : Stored(v)' /\ (isVtxoExitReady(v) \/ v \in (captured \ bereft)') => isVtxoExitReady(v)']_vars

\* The vault comes even with the world again and again, after any failed, partial
\* or overtaken pass: a listed vtxo is exit ready and unflagged; what was spent
\* with served evidence has left the vault; and a vtxo that arkd dropped and that
\* nobody explains has reached the operator as an alarm.
Handed(v) == row[v] = NoRow \/ exit[v] \in {"flight", "swept"} \/ v \in lapsed
Even(v) ==
  /\ fate[v] = "live" => isVtxoExitReady(v) /\ flag[v] = Unflagged
  /\ v \in shown => Handed(v)
  /\ fate[v] = "dropped" => Handed(v) \/ v \in told
VaultConverges == \A v \in Vtxos \ Atomic : []<>Even(v)
=============================================================================
