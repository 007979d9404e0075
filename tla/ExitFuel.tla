------------------------------- MODULE ExitFuel -------------------------------
(***************************************************************************)
(* The money side of an exit: the fuel coins of the nsec's own address,    *)
(* the fee boost of a stuck unroll package, the destination the operator   *)
(* has to prove with a signature, the final send of everything to it and   *)
(* the boost of that send.  The requests run concurrently; each one reads  *)
(* what there is to replace, then the free coins, builds, broadcasts,      *)
(* looks for its transaction and only then writes its row.                 *)
(***************************************************************************)
EXTENDS Naturals, FiniteSets

CONSTANTS
  Addrs,     \* addresses the operator may enter
  Coins,     \* coins that may land on the fuel address
  Calls,     \* concurrent requests
  MaxFee,    \* bound on a fee: above it the fee would eat the value
  MaxIssues, \* bound on challenges
  NoAddr     \* no address

ASSUME FuelAssumption == NoAddr \notin Addrs /\ MaxFee \in Nat \ {0} /\ MaxIssues \in Nat

\* A fuel transaction is a CPFP child of the unroll step or a final send.
NoTx == [kind |-> "none", addr |-> NoAddr, fee |-> 0, coins |-> {}]
Children == [kind : {"step"}, addr : {NoAddr}, fee : 1..MaxFee, coins : (SUBSET Coins) \ {{}}]
Sends == [kind : {"send"}, addr : Addrs, fee : 1..MaxFee, coins : (SUBSET Coins) \ {{}}]
FuelTxs == Children \cup Sends
NoDest == [addr |-> NoAddr, verified |-> FALSE, sent |-> NoTx]

VARIABLES
  funded,   \* coins that have landed on the fuel address
  mempool, mined,  \* the fuel transactions the node has
  dest,     \* the exit_dest row
  signed,   \* history: addresses whose challenge was answered
  issues,
  call,     \* [Calls -> a request in flight]
  silent    \* history: a boost reported success and left what it had found

node == <<funded, mempool, mined>>
fuelVars == <<node, dest, signed, issues, call, silent>>

NoCall == [kind |-> "idle", addr |-> NoAddr, floor |-> 0, coins |-> {}, ready |-> FALSE, tx |-> NoTx]
Requests == {"boostStep", "finalSend", "boostFinalSend"}

FuelTypeOK ==
  /\ funded \subseteq Coins /\ signed \subseteq Addrs /\ issues \in 0..MaxIssues
  /\ mempool \subseteq FuelTxs /\ mined \subseteq FuelTxs
  /\ dest \in [addr : Addrs \cup {NoAddr}, verified : BOOLEAN, sent : Sends \cup {NoTx}]
  /\ call \in [Calls -> [kind : {"idle", "sent"} \cup Requests, addr : Addrs \cup {NoAddr}, floor : 0..(MaxFee + 1),
                         coins : SUBSET Coins, ready : BOOLEAN, tx : FuelTxs \cup {NoTx}]]
  /\ silent \in BOOLEAN

FuelInit ==
  /\ funded = {} /\ mempool = {} /\ mined = {}
  /\ dest = NoDest /\ signed = {} /\ issues = 0
  /\ call = [c \in Calls |-> NoCall] /\ silent = FALSE

-----------------------------------------------------------------------------
\* The destination row.

\* issueDestChallenge: a new challenge forgets the verification and the send.
issueDestChallenge(a) ==
  /\ issues < MaxIssues
  /\ issues' = issues + 1
  /\ dest' = [NoDest EXCEPT !.addr = a]
  /\ UNCHANGED <<node, signed, call, silent>>

\* submitDestSignature: the signature answers the challenge on file.
submitDestSignature ==
  /\ dest.addr # NoAddr
  /\ dest' = [dest EXCEPT !.verified = TRUE]
  /\ signed' = signed \cup {dest.addr}
  /\ UNCHANGED <<node, issues, call, silent>>

clearExitDest ==
  /\ dest # NoDest
  /\ dest' = NoDest
  /\ UNCHANGED <<node, signed, issues, call, silent>>

\* markDestSent: an UPDATE of the row that is there now.
markDestSent(t) == dest' = IF dest.addr = NoAddr THEN dest ELSE [dest EXCEPT !.sent = t]

-----------------------------------------------------------------------------
\* What a request reads.

CoinsOf(T) == UNION {t.coins : t \in T}

\* The UTXO endpoint hides coins a mempool transaction spends.
confirmedFuelCoins == funded \ CoinsOf(mempool \cup mined)

\* What a rebuild of t starts from.  A transaction that can be read sets a floor
\* and lends its inputs (tx is the one that was read).  One that is confirmed, or
\* known to be in the mempool and unreadable, ends the request.  One that nobody
\* knows has no floor, and two failed reads look the same.
Readable(t) == IF t \in mempool THEN {[floor |-> t.fee + 1, coins |-> t.coins, tx |-> t]} ELSE {}
Unknown == [floor |-> 0, coins |-> {}, tx |-> NoTx]
Reads(t) == {Unknown} \cup Readable(t)

Request(c, kind, a, r) ==
  call' = [call EXCEPT ![c] = [kind |-> kind, addr |-> a, floor |-> r.floor, coins |-> r.coins, ready |-> FALSE, tx |-> r.tx]]

\* The child that rides the anchor of the step.
currentChild == {t \in mempool \cup mined : t.kind = "step"}

-----------------------------------------------------------------------------
\* The requests.

\* boostStep: replace the CPFP child of the package, or rebuild an evicted one.
boostStep(c) ==
  /\ call[c] = NoCall
  /\ \E r \in {Unknown} \cup UNION {Reads(t) : t \in currentChild} : Request(c, "boostStep", NoAddr, r)
  /\ UNCHANGED <<node, dest, signed, issues, silent>>

\* finalSend: address and verification are read together, before the awaits.  A
\* send that is known to be in the mempool is not repeated; txPresence knows
\* nothing when its read fails, so one may be there all the same.
finalSend(c) ==
  /\ call[c] = NoCall /\ dest.verified
  /\ Request(c, "finalSend", dest.addr, Unknown)
  /\ UNCHANGED <<node, dest, signed, issues, silent>>

boostFinalSend(c) ==
  /\ call[c] = NoCall /\ dest.verified /\ dest.sent # NoTx
  /\ \E r \in Reads(dest.sent) : Request(c, "boostFinalSend", dest.addr, r)
  /\ UNCHANGED <<node, dest, signed, issues, silent>>

\* Mutant: only the coins of the UTXO endpoint.
fuelPoolFree(c) ==
  /\ call[c].kind \in Requests /\ ~call[c].ready
  /\ call' = [call EXCEPT ![c].coins = confirmedFuelCoins, ![c].ready = TRUE]
  /\ UNCHANGED <<node, dest, signed, issues, silent>>

\* The coins a rebuild may spend: those of the transaction it replaces, and
\* whatever is free by now.
fuelPool(c) ==
  /\ call[c].kind \in Requests /\ ~call[c].ready
  /\ call' = [call EXCEPT ![c].coins = @ \cup confirmedFuelCoins, ![c].ready = TRUE]
  /\ UNCHANGED <<node, dest, signed, issues, silent>>

\* Mutant: the address is read again when the transaction is built.
AddrNow(c) == IF call[c].kind = "boostStep" THEN NoAddr ELSE dest.addr

\* The address the transaction pays: the one the request read.
AddrOf(c) == call[c].addr

\* The replacement child: the coins it needs, a fee at the current rate and never
\* below the floor.
BuildsChild(c) == {t \in Children : t.fee >= call[c].floor /\ t.coins \subseteq call[c].coins}

\* The final send: all the coins the request read, to the address it read.
BuildsSend(c) == {t \in Sends : t.addr = AddrOf(c) /\ t.fee >= call[c].floor /\ t.coins = call[c].coins}

\* The node's rule: a transaction replaces what it conflicts with, another child
\* of the same anchor included, only for a higher fee and never a mined one.
Conflicts(t) ==
  {u \in (mempool \cup mined) \ {t} : (u.kind = "step" /\ t.kind = "step") \/ u.coins \cap t.coins # {}}
Place(t) ==
  /\ t \notin mined /\ t.coins \subseteq funded
  /\ \A u \in Conflicts(t) : u \in mempool /\ t.fee > u.fee
  /\ mempool' = (mempool \ Conflicts(t)) \cup {t}

\* signAndBroadcast and confirmInMempool: the transaction is looked for.
signAndBroadcast(c) ==
  /\ call[c].kind \in Requests /\ call[c].ready
  /\ \E t \in IF call[c].kind = "boostStep" THEN BuildsChild(c) ELSE BuildsSend(c) :
       /\ Place(t)
       /\ silent' = (silent \/ call[c].tx \in mempool')
       /\ call' = [call EXCEPT ![c] = [NoCall EXCEPT !.kind = "sent", !.tx = t]]
  /\ UNCHANGED <<funded, mined, dest, signed, issues>>

\* The row after the broadcast; a child has none.
Record(c) ==
  /\ call[c].kind = "sent"
  /\ IF call[c].tx.kind = "send" THEN markDestSent(call[c].tx) ELSE UNCHANGED dest
  /\ call' = [call EXCEPT ![c] = NoCall]
  /\ UNCHANGED <<node, signed, issues, silent>>

\* A failed read, a refused broadcast, a transaction that does not show up, or
\* the death of the process.
CallFails(c) ==
  /\ call[c] # NoCall
  /\ call' = [call EXCEPT ![c] = NoCall]
  /\ UNCHANGED <<node, dest, signed, issues, silent>>

-----------------------------------------------------------------------------
\* The environment.

\* The session broadcasts the step with a first child.
Unroll ==
  /\ currentChild = {}
  /\ \E t \in Children : t.fee = 1 /\ t.coins \subseteq confirmedFuelCoins /\ Place(t)
  /\ UNCHANGED <<funded, mined, dest, signed, issues, call, silent>>

Fund(k) ==
  /\ k \notin funded
  /\ funded' = funded \cup {k}
  /\ UNCHANGED <<mempool, mined, dest, signed, issues, call, silent>>

Mine(t) ==
  /\ mempool' = mempool \ {t} /\ mined' = mined \cup {t}
  /\ UNCHANGED <<funded, dest, signed, issues, call, silent>>

Evict(t) ==
  /\ mempool' = mempool \ {t}
  /\ UNCHANGED <<funded, mined, dest, signed, issues, call, silent>>

FuelNext ==
  \/ \E a \in Addrs : issueDestChallenge(a)
  \/ submitDestSignature \/ clearExitDest
  \/ \E c \in Calls : boostStep(c) \/ finalSend(c) \/ boostFinalSend(c) \/ fuelPool(c) \/ signAndBroadcast(c) \/ Record(c) \/ CallFails(c)
  \/ Unroll \/ (\E k \in Coins : Fund(k)) \/ \E t \in mempool : Mine(t) \/ Evict(t)

FuelSpec == FuelInit /\ [][FuelNext]_fuelVars

-----------------------------------------------------------------------------
\* Everything of the exit goes only where the operator has shown to hold the
\* key: every final send the node has pays an address whose challenge was
\* answered, also when the row is replaced or dropped while a send is in flight.
SendsGoToVerified == \A t \in mempool \cup mined : t.kind = "send" => t.addr \in signed

\* A boost that reports success has replaced what it was pressed for: the stuck
\* transaction it read is out of the mempool, whatever was evicted, mined, sent or
\* boosted by another request since the read.  A rebuild at the same fee (the same
\* transaction) or from other coins (a second send beside the stuck one) would
\* leave it there.  Nothing is said of a request whose reads all failed: it knows
\* of nothing to replace.
NoSilentBoost == ~silent
=============================================================================
