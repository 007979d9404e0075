------------------------------- MODULE MCVault -------------------------------
EXTENDS Vault, TLC

CONSTANTS w1, w2, w3, s1, c1, r, a, b

\* Three vtxos of the wallet and the shared vtxo of a swap below one transaction,
\* one sat each.
MCProofsOf == w1 :> {r, a} @@ w2 :> {r} @@ w3 :> {r} @@ s1 :> {r, b}
MCSatsOf == [S \in SUBSET Vtxos |-> Cardinality(S)]

\* Two scenes: a vtxo beside a swap's, with every trouble; and a settlement of
\* one vtxo while another is dropped, with an indexer that answers, truly or not,
\* and an operator who watches.
Beside == fate[w2] = "unborn" /\ fate[w3] = "unborn" /\ round[w1] = None /\ lies = 0
Settlement ==
  /\ fate[s1] = "unborn" /\ round[w1] = None /\ round[w2] = None /\ round[w3] = into[w1]
  /\ fate[w1] \in {"unborn", "live", "absorbed"} /\ fate[w2] \in {"unborn", "live", "absorbed", "dropped"} /\ fate[w3] \in {"unborn", "live"}
  /\ faults = 0 /\ exits = 0 /\ forgotten = {} /\ lapsed = {} /\ (fate[w2] # "unborn" => fate[w1] # "unborn")
Scene == Beside \/ Settlement
MCNext == Next /\ Scene'
MCSpec ==
  /\ Init /\ [][MCNext]_vars
  /\ WF_vars(Pass /\ Scene') /\ WF_vars(DebounceFires) /\ WF_vars(RetryFires) /\ WF_vars(Poll) /\ WF_vars(Tick)
=============================================================================
